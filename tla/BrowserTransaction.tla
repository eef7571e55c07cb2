------------------------- MODULE BrowserTransaction -------------------------
(***************************************************************************)
(* Package browsertransaction: the value-free authoring transaction, its   *)
(* validation, canonical digest and transition check, used the way the     *)
(* package documents: an operator keeps the latest snapshot in a file and  *)
(* its digest apart, decodes the file against that digest (DecodeVerified) *)
(* and records a successor only if ValidateTransition accepts it.  The     *)
(* file may at any time be replaced by an earlier snapshot or by a forged  *)
(* one.  The file and the retained digest are the caller's; everything     *)
(* decided about them is the package's.                                    *)
(*                                                                         *)
(* A digest is abstracted to what it identifies: the canonical content.    *)
(* Identity groups every field but the lifecycle ones; order tells whether *)
(* its set-like arrays are in canonical order, wellFormed whether its      *)
(* names, digests, times, origins and bindings pass their own checks.      *)
(***************************************************************************)
EXTENDS Integers, Sequences

CONSTANTS Identities,   \* identities a proposed snapshot may carry
          Packages,     \* well-formed preparation digests
          Generations,  \* well-formed promotion digests
          Failures,     \* failure class/code pairs a proposal may carry
          Malformed,    \* an object whose digest is malformed
          None,         \* an absent object
          Forgeries     \* snapshots that may replace the file

ASSUME ObjectsAssumption ==
  /\ None \notin Packages \cup Generations \cup {Malformed}
  /\ Malformed \notin Packages \cup Generations
  /\ None \notin Failures

VARIABLES
  file,      \* the stored snapshot
  retained,  \* the separately retained canonical digest
  last,      \* history: the snapshot last recorded
  recorded   \* history: every snapshot recorded so far

vars == <<file, retained, last, recorded>>

-----------------------------------------------------------------------------
Versions == 1..4
Schemas == {"authentication.1.0", "authentication.1.1",
            "browser.1.5", "browser.1.6", "browser.1.7", "browser.1.8", "browser.1.9",
            "registration.1.0", "registration.1.1", "registration.1.2", "other"}
Results == {"authenticated.v2", "registration.v1", "registration.v2",
            "registration.v3", "registration.v4"}
CandidateKinds == {"authentication", "capability", "registration"}

Identity ==
  [version: Versions \cup {5}, kind: {"authentication_capability", "registration"},
   candidates: Seq([kind: CandidateKinds, schema: Schemas]), result: Results,
   bindings: Nat, session: BOOLEAN, wellFormed: BOOLEAN,
   order: {"canonical", "other"}]

(* Whatever may be proposed may be proposed in canonical order. *)
ASSUME IdentitiesAssumption ==
  /\ Identities \subseteq Identity
  /\ \A id \in Identities : [id EXCEPT !.order = "canonical"] \in Identities

States == {"candidate", "reviewed", "prepared", "promoted", "cancelled", "failed",
           "indeterminate"}

Snapshot ==
  [identity: Identities, state: States \cup {"other"},
   preparation: Packages \cup {None, Malformed},
   promotion: Generations \cup {None, Malformed}, failure: Failures \cup {None}]

ASSUME ForgeriesAssumption == Forgeries \subseteq Snapshot

-----------------------------------------------------------------------------
(* Validation. *)
validCandidateSchema(kind, schema) ==
  CASE kind = "authentication" -> schema \in {"authentication.1.0", "authentication.1.1"}
    [] kind = "capability" ->
         schema \in {"browser.1.5", "browser.1.6", "browser.1.7", "browser.1.8", "browser.1.9"}
    [] kind = "registration" ->
         schema \in {"registration.1.0", "registration.1.1", "registration.1.2"}

validateCandidates(t) ==
  LET want == IF t.kind = "registration" THEN <<"registration">>
              ELSE <<"authentication", "capability">>
  IN  /\ Len(t.candidates) = Len(want)
      /\ \A i \in DOMAIN want :
           /\ t.candidates[i].kind = want[i]
           /\ validCandidateSchema(want[i], t.candidates[i].schema)

(* A registration profile version belongs to one wire version, and every     *)
(* wire version to one producer result.                                      *)
validateVersionComposition(t) ==
  /\ t.kind = "registration" =>
       /\ Len(t.candidates) = 1
       /\ t.candidates[1].schema = CASE t.version = 3 -> "registration.1.1"
                                     [] t.version = 4 -> "registration.1.2"
                                     [] OTHER -> "registration.1.0"
  /\ CASE t.version = 1 -> t.result = IF t.kind = "registration" THEN "registration.v1"
                                      ELSE "authenticated.v2"
       [] t.version = 2 -> t.kind = "registration" /\ t.result = "registration.v2"
       [] t.version = 3 -> t.kind = "registration" /\ t.result = "registration.v3"
       [] t.version = 4 -> t.kind = "registration" /\ t.result = "registration.v4"

(* The part of Validate that reads no lifecycle field. *)
ValidIdentity(t) ==
  /\ t.version \in Versions
  /\ validateVersionComposition(t)
  /\ validateCandidates(t)
  /\ t.wellFormed /\ t.order = "canonical"
  /\ t.kind = "registration" => t.bindings > 0
  /\ t.session <=> t.kind = "authentication_capability"

validFailure(f) ==
  f.code \in
    CASE f.class = "rejected" ->
           {"transaction_invalid", "candidate_invalid", "candidate_stale",
            "digest_mismatch", "review_rejected"}
      [] f.class = "conflict" -> {"workspace_conflict"}
      [] f.class = "operational" ->
           {"preparation_failed", "qualification_failed", "promotion_failed"}
      [] f.class = "indeterminate" -> {"promotion_indeterminate"}

(* Which lifecycle objects each state has. *)
validateLifecycle(s) ==
  /\ s.preparation # Malformed /\ s.promotion # Malformed
  /\ s.failure # None => validFailure(s.failure)
  /\ CASE s.state \in {"candidate", "reviewed"} ->
            s.preparation = None /\ s.promotion = None /\ s.failure = None
       [] s.state = "prepared" ->
            s.preparation # None /\ s.promotion = None /\ s.failure = None
       [] s.state = "promoted" ->
            s.preparation # None /\ s.promotion # None /\ s.failure = None
       [] s.state = "cancelled" -> s.promotion = None /\ s.failure = None
       [] s.state = "failed" ->
            s.promotion = None /\ s.failure # None /\ s.failure.class # "indeterminate"
       [] s.state = "indeterminate" ->
            /\ s.preparation # None /\ s.promotion = None /\ s.failure # None
            /\ s.failure.class = "indeterminate"
            /\ s.failure.code = "promotion_indeterminate"

Validate(s) == s.state \in States /\ ValidIdentity(s.identity) /\ validateLifecycle(s)

-----------------------------------------------------------------------------
(* CanonicalBytes sorts the set-like arrays of a copy and validates that     *)
(* copy; Digest identifies the result.                                       *)
Sorted(t) == [t EXCEPT !.order = "canonical"]
CanonicalBytes(s) == [s EXCEPT !.identity = Sorted(s.identity)]

(* Mutant: a changed file is not compared with the retained digest. *)
DecodeOnly(s, digest) == Validate(s)

DecodeVerified(s, digest) == Validate(s) /\ CanonicalBytes(s) = digest

(* Mutants: the review may be skipped; a cancelled transaction reopens. *)
ReviewSkipped(previous, next) ==
  \/ previous \in {"candidate", "reviewed"} /\ next = "prepared"
  \/ previous = "prepared" /\ next = "promoted"

CancelledReopens(previous, next) ==
  \/ previous \in {"candidate", "cancelled"} /\ next = "reviewed"
  \/ previous = "candidate" /\ next = "cancelled"

allowedTransition(previous, next) ==
  CASE previous = "candidate" -> next \in {"reviewed", "cancelled", "failed"}
    [] previous = "reviewed" -> next \in {"prepared", "cancelled", "failed"}
    [] previous = "prepared" ->
         next \in {"promoted", "indeterminate", "cancelled", "failed"}
    [] previous = "indeterminate" ->
         next \in {"prepared", "promoted", "cancelled", "failed"}
    [] OTHER -> FALSE

(* Mutant: a preparation may be replaced on the way back from indeterminate. *)
PreparationReplaceable(previous, next) ==
  previous.preparation = None /\ next.preparation # None => next.state = "prepared"

(* A recorded preparation never changes; a new one appears only as prepared. *)
PreparationKept(previous, next) ==
  IF previous.preparation # None THEN next.preparation = previous.preparation
  ELSE next.preparation # None => next.state = "prepared"

ValidateTransition(previous, next) ==
  /\ allowedTransition(previous.state, next.state)
  /\ PreparationKept(previous, next)
  /\ previous.promotion # None => next.promotion = previous.promotion
  /\ Sorted(previous.identity) = Sorted(next.identity)
  /\ Validate(previous) /\ Validate(next)

-----------------------------------------------------------------------------
(* A new transaction is encoded as a candidate; a producer's arrays may be   *)
(* in any order.                                                             *)
NewTransaction(id) ==
  CanonicalBytes([identity |-> id, state |-> "candidate", preparation |-> None,
                  promotion |-> None, failure |-> None])

Init ==
  /\ \E id \in Identities : file = NewTransaction(id)
  /\ Validate(file)
  /\ retained = file /\ last = file /\ recorded = {file}

Record(next) ==
  /\ ValidateTransition(file, next)
  /\ DecodeVerified(file, retained)
  /\ file' = CanonicalBytes(next) /\ retained' = CanonicalBytes(next)
  /\ last' = next /\ recorded' = recorded \cup {next}

(* External: the file is overwritten, by an earlier snapshot or another one. *)
Replace(s) ==
  /\ file' = s
  /\ UNCHANGED <<retained, last, recorded>>

(* The file is decoded before any successor is proposed. *)
Next ==
  \/ DecodeVerified(file, retained) /\ \E next \in Snapshot : Record(next)
  \/ \E s \in recorded \cup Forgeries : Replace(s)

Spec == Init /\ [][Next]_vars

-----------------------------------------------------------------------------
(* The file, the retained digest and the history hold snapshots. *)
TypeOK ==
  /\ file \in Snapshot /\ retained \in Snapshot /\ last \in Snapshot
  /\ recorded \subseteq Snapshot /\ last \in recorded

(* Whatever happens to the file, the only snapshot DecodeVerified yields is  *)
(* the one recorded last: no rollback and no forgery is continued.           *)
VerifiedIsLast == DecodeVerified(file, retained) => file = last

(* All snapshots ever recorded tell one story: one identity, one prepared    *)
(* package and one promoted generation, through any number of ambiguous      *)
(* promotions and reconciliations.                                           *)
OneStory ==
  \A s, t \in recorded :
    /\ s.identity = t.identity
    /\ s.preparation # None /\ t.preparation # None => s.preparation = t.preparation
    /\ s.promotion # None /\ t.promotion # None => s.promotion = t.promotion

(* A promotion, or an ambiguous one, is of a package that was itself         *)
(* recorded as prepared, after a review.                                     *)
PromotionEarned ==
  \A s \in recorded :
    s.state \in {"promoted", "indeterminate"} =>
      /\ \E r \in recorded : r.state = "reviewed"
      /\ \E p \in recorded : p.state = "prepared" /\ p.preparation = s.preparation

(* A promoted, cancelled or failed transaction is never continued.           *)
TerminalIsFinal ==
  [][last.state \in {"promoted", "cancelled", "failed"} => last' = last]_vars

-----------------------------------------------------------------------------
(* The inductive strengthening the proofs use. *)

(* The digest kept apart is of the snapshot recorded last, which is valid.   *)
DigestOfLast == retained = last /\ Validate(last)

(* Nothing recorded earlier contradicts the last snapshot. *)
LastTellsAll ==
  \A s \in recorded :
    /\ s.identity = last.identity
    /\ s.preparation # None => s.preparation = last.preparation
    /\ s.promotion # None => s.promotion = last.promotion

(* Review and preparation were recorded before what needs them. *)
StepsRecorded ==
  /\ \A s \in recorded :
       s.state \in {"prepared", "promoted", "indeterminate"} =>
         \E r \in recorded : r.state = "reviewed"
  /\ last.preparation # None =>
       \E p \in recorded : p.state = "prepared" /\ p.preparation = last.preparation

Inductive == TypeOK /\ DigestOfLast /\ LastTellsAll /\ StepsRecorded /\ PromotionEarned

-----------------------------------------------------------------------------
Lifecycle == INSTANCE TransactionLifecycle
               WITH phase <- last.state, package <- last.preparation,
                    generation <- last.promotion

(* The recorded snapshots follow the documented lifecycle.                   *)
ImplementsLifecycle == Lifecycle!Spec
=============================================================================
