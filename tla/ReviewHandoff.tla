--------------------------- MODULE ReviewHandoff ---------------------------
(***************************************************************************)
(* The review handoff v2: its manifest (handoff.go), the digests of files  *)
(* and of the manifest itself, the inspection of an immutable snapshot     *)
(* (trust.Inspect) and of retained history (packagev3.InspectHistory).     *)
(* Operators only; ReviewArchive keeps such a package over time.           *)
(*                                                                         *)
(* A digest is what it is the digest of.  Texts that are trimmed or        *)
(* lower-cased before they are compared are [value, exact], exact being    *)
(* FALSE for a padded or upper-case spelling.  Paths are numbers in their  *)
(* sort order.  Diagnostics are abstracted to whether there is one.        *)
(***************************************************************************)
EXTENDS Integers, Sequences, SequencesExt

CONSTANTS CanonicalPaths,   \* clean relative paths
          MaxFiles,         \* 1024 in the code
          Blank             \* a text that is empty once trimmed

(* The blank text is not one the code writes. *)
ASSUME BlankAssumption ==
  /\ CanonicalPaths \subseteq Nat /\ MaxFiles \in Nat
  /\ Blank \notin {"v2", "v3", "host", "execution", "generated", "validated", "review_required",
                  "approved_for_sandbox", "approved_for_production", "rejected"}

Exact(v) == [value |-> v, exact |-> TRUE]

-----------------------------------------------------------------------------
(* The public review lifecycle. *)
ApprovalState(name, next) == [name |-> name, next |-> next]

DefaultReviewStateMachine ==
  << ApprovalState("generated", {"validated", "rejected"}),
     ApprovalState("validated", {"review_required", "rejected"}),
     ApprovalState("review_required",
                   {"approved_for_sandbox", "approved_for_production", "rejected"}),
     ApprovalState("approved_for_sandbox",
                   {"review_required", "approved_for_production", "rejected"}),
     ApprovalState("approved_for_production", {"rejected"}),
     ApprovalState("rejected", {"generated"}) >>

ReviewStateNames ==
  {"generated", "validated", "review_required", "approved_for_sandbox",
   "approved_for_production", "rejected"}

DefaultReviewExecutionPolicy(sideEffectful) ==
  IF sideEffectful
  THEN [sideEffectful |-> TRUE, next |-> "review_required", sandbox |-> "approved_for_sandbox",
        production |-> "approved_for_production", direct |-> FALSE]
  ELSE [sideEffectful |-> FALSE, next |-> Blank, sandbox |-> Blank, production |-> Blank,
        direct |-> FALSE]

(* cloneReviewHandoffInputs: sorted by path, inputs of one path in order.    *)
InPathOrder(inputs, order) ==
  \A i, j \in DOMAIN inputs : i < j =>
    \/ inputs[order[i]].path < inputs[order[j]].path
    \/ inputs[order[i]].path = inputs[order[j]].path /\ order[i] < order[j]

SortInputs(inputs) ==
  LET order == CHOOSE o \in [DOMAIN inputs -> DOMAIN inputs] : InPathOrder(inputs, o)
  IN  [i \in DOMAIN inputs |-> inputs[order[i]]]

(* Defaults for what is left out, inputs sorted by path.                     *)
NewReviewHandoff(m) ==
  [m EXCEPT !.version = Exact(IF m.version.value = Blank THEN "v2" ELSE m.version.value),
            !.generatedState = IF m.generatedState = Blank THEN "generated" ELSE m.generatedState,
            !.approvalStates =
              IF m.approvalStates = <<>> THEN DefaultReviewStateMachine ELSE m.approvalStates,
            !.inputs = SortInputs(m.inputs)]

-----------------------------------------------------------------------------
(* ValidateReviewHandoff finds nothing to report. *)
validateReviewHandoffInputs(inputs) ==
  /\ inputs # <<>>
  /\ \A i \in DOMAIN inputs :
       /\ inputs[i].path \in CanonicalPaths
       /\ \A j \in 1..(i - 1) : inputs[j].path # inputs[i].path
       /\ inputs[i].sha256.value # Blank

validateReviewOwnerSplit(split) ==
  /\ DOMAIN split # {} /\ Blank \notin DOMAIN split
  /\ \A owner \in DOMAIN split : split[owner] # {} /\ Blank \notin split[owner]

Declared(states) == {states[i].name : i \in DOMAIN states}

validateReviewApprovalStates(states) ==
  /\ Blank \notin Declared(states) /\ IsInjective([i \in DOMAIN states |-> states[i].name])
  /\ \A i \in DOMAIN states : states[i].next \subseteq Declared(states)

ReviewStateMachineHasRequiredStates(states) == ReviewStateNames \subseteq Declared(states)

PolicyAllowed(policy) ==
  /\ ~policy.direct
  /\ policy.sideEffectful => policy = DefaultReviewExecutionPolicy(TRUE)

ValidateReviewHandoff(m) ==
  /\ m.version.value = "v2" /\ m.generatedState = "generated"
  /\ validateReviewHandoffInputs(m.inputs)
  /\ validateReviewOwnerSplit(m.owners)
  /\ validateReviewApprovalStates(m.approvalStates)
  /\ ReviewStateMachineHasRequiredStates(m.approvalStates)
  /\ ~m.valuesAllowed /\ PolicyAllowed(m.policy)

-----------------------------------------------------------------------------
(* The digest of the normalised manifest, only its own digest cleared.       *)
ReviewHandoffSelfDigest(m, self) ==
  LET copy == NewReviewHandoff(m) IN
  [copy EXCEPT !.inputs = [i \in DOMAIN copy.inputs |->
     IF copy.inputs[i].path = self
     THEN [copy.inputs[i] EXCEPT !.sha256 = Exact(Blank)] ELSE copy.inputs[i]]]

(* files maps a path to its digest: unique, canonical and in path order.     *)
DigestFiles(scope, files) == [scope |-> scope, files |-> files]

Required(m) == {m.inputs[i].path : i \in {i \in DOMAIN m.inputs : m.inputs[i].required}}

(* The digest an input must declare: the manifest's own is its self digest.  *)
DeclaredDigest(request, m, path) ==
  IF path = request.manifestPath THEN ReviewHandoffSelfDigest(m, path)
  ELSE request.files[path]

(* trust.Inspect: the required inputs are exactly the files, each with the   *)
(* digest it declares.                                                       *)
TrustInspect(request) ==
  /\ DOMAIN request.files \subseteq CanonicalPaths
  /\ request.manifestPath \in DOMAIN request.files
  /\ LET m == request.files[request.manifestPath].manifest IN
     /\ Len(m.inputs) <= MaxFiles /\ ValidateReviewHandoff(m)
     /\ \A i \in DOMAIN m.inputs : LET input == m.inputs[i] IN
          input.required =>
            /\ input.path \in DOMAIN request.files
            /\ input.sha256.value = DeclaredDigest(request, m, input.path)
     /\ request.manifestPath \in Required(m) /\ Required(m) = DOMAIN request.files
     /\ request.requiredPaths \subseteq Required(m)

(* Mutant: the manifest enters the package digest by its self digest. *)
PackageDeclared(request) ==
  DigestFiles(request.scope,
    [p \in DOMAIN request.files |->
       IF p = request.manifestPath
       THEN ReviewHandoffSelfDigest(request.files[p].manifest, p) ELSE request.files[p]])

(* PackageSHA256 is over the exact bytes, those of the manifest included.    *)
PackageSHA256(request) == DigestFiles(request.scope, request.files)

(* The v2 branch of InspectHistory; v3 history is ReviewedPackage's          *)
(* inspectSnapshot and takes no legacy manifest path.                        *)
InspectHistory(request) ==
  /\ request.format = "v2" /\ request.requiredPaths # {}
  /\ \A p \in DOMAIN request.files : ~request.files[p].private
  /\ TrustInspect(request)
  /\ request.files[request.manifestPath].manifest.version = Exact(request.format)
  /\ PackageSHA256(request) = request.expected
=============================================================================
