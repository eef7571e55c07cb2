-------------------------- MODULE BrokerExecution --------------------------
(***************************************************************************)
(* From a published package to an admitted execution: the trusted host     *)
(* verifies files against the digest it retained, a human confirms the     *)
(* derived plan and issues an approval, and later, when the package, the   *)
(* worker, the credential revisions and the clock may all have moved on,   *)
(* CheckExecutionApproval decides whether the plan may run.                *)
(*                                                                         *)
(* The files, the clock, the worker selection, credential custody and the  *)
(* human are the host's; every decision about them is packagev3's,         *)
(* approval's or authority's.  An approval's scope and reviewer are part   *)
(* of the package digest it names.  No check reads executed: a behaviour   *)
(* ends with its first execution.                                          *)
(***************************************************************************)
EXTENDS ReviewedPackage

CONSTANTS Forgeries,   \* files that Build did not produce
          Revisions,   \* credential revisions
          MaxTime      \* bound on the clock

ASSUME BrokerAssumption ==
  Forgeries \subseteq Files /\ Revisions # {} /\ MaxTime \in Nat

VARIABLES
  verified,   \* VerifiedPackage, or None
  worker,     \* the selected worker
  custody,    \* current revision of each credential
  confirmed,  \* the plan the human confirmed (ExpectedPlanSHA256), or None
  approval,   \* the approval last issued, or None
  now,
  shown,      \* history: what the world was when that approval was issued
  executed    \* history: what was executed, or None

vars == <<verified, worker, custody, confirmed, approval, now, shown, executed>>

-----------------------------------------------------------------------------
(* authority.Validate and ValidateAt.  The identities of run, owner, grant  *)
(* and occurrence come from the seed and go through both unchanged.         *)
AuthorityValid(a) == a.approvedAt < a.expiresAt

Current(a, t) == AuthorityValid(a) /\ a.approvedAt <= t /\ t < a.expiresAt

(* DeriveBrokerAuthority succeeds. *)
BrokerDerivable(v, w, seed, credentials, t) ==
  /\ PlanDerivable(v, w) /\ v.assessment.outcome = "compatible"
  /\ \A n \in DOMAIN v.inputs.operations :
       LET op == v.inputs.operations[n] IN
       op.kind = "http" /\ op.alternatives = 1 /\ op.supported
  /\ Needs(v.inputs) = DOMAIN credentials
  /\ Current(seed, t)

(* Mutant: bindings keep the scheme but not its revision. *)
BindingsUnversioned(op, credentials) == op.schemes

Bindings(op, credentials) == [s \in op.schemes |-> credentials[s]]

DeriveBrokerAuthority(v, w, seed, credentials) ==
  [package |-> v, executor |-> w.binary,
   approvedAt |-> seed.approvedAt, expiresAt |-> seed.expiresAt,
   operations |-> [n \in DOMAIN v.inputs.operations |->
                     [leaf |-> Leaf(v, w, n),
                      bindings |-> Bindings(v.inputs.operations[n], credentials)]]]

BrokerAuthority ==
  [package: Files, executor: STRING, approvedAt: Nat, expiresAt: Nat,
   operations: Seq([leaf: [operation: Operation, constraints: Contents \X Nat \X Workers],
                    bindings: UNION {[S -> Revisions] : S \in SUBSET Schemes}])]

(* None is the absence of an authority, or of an expiry. *)
ASSUME AbsenceAssumption == None \notin BrokerAuthority /\ None \notin Nat

(* Mutant: the window is cleared with what can be derived. *)
SeedCleared(a) == [approvedAt |-> 0, expiresAt |-> 0]

(* CheckBrokerAuthority clears what it can derive, derives it and compares. *)
Seed(a) == [approvedAt |-> a.approvedAt, expiresAt |-> a.expiresAt]

CheckBrokerAuthority(v, w, a, credentials, t) ==
  /\ Current(a, t)
  /\ BrokerDerivable(v, w, Seed(a), credentials, t)
  /\ DeriveBrokerAuthority(v, w, Seed(a), credentials) = a

-----------------------------------------------------------------------------
(* approval.Validate and CheckExecutionApproval. *)
Tiers == {"sandbox", "production"}

ValidateTierState(tier, state) ==
  \/ tier = "sandbox" /\ state \in {"approved_for_sandbox", "approved_for_production"}
  \/ tier = "production" /\ state = "approved_for_production"

ApprovalValid(a, package, tier, t) ==
  /\ (a.version = "v1" /\ a.broker = None) \/ (a.version = "v2" /\ a.broker # None)
  /\ a.broker # None =>
       /\ Current(a.broker, t) /\ a.broker.package = package
       /\ a.broker.approvedAt = a.approvedAt /\ a.broker.expiresAt = a.expiresAt
  /\ a.expiresAt # None => t < a.expiresAt
  /\ a.package = package
  /\ ValidateTierState(tier, a.state)

(* An execution needs an explicit expiry, whatever the approval version.    *)
InWindow(a, t) ==
  a.expiresAt # None /\ a.approvedAt <= t /\ a.approvedAt < a.expiresAt /\ t < a.expiresAt

(* Mutant: the plan is derivable, but not the one that was confirmed. *)
PlanUnconfirmed(v, w) == PlanDerivable(v, w)

PlanConfirmed(v, w) == PlanDerivable(v, w) /\ DeriveExecutionPlan(v, w) = confirmed

CheckExecutionApproval(v, w, a, credentials, tier, t) ==
  /\ PlanConfirmed(v, w)
  /\ ApprovalValid(a, v, tier, t) /\ InWindow(a, t)
  /\ "browser" \notin Kinds(v.inputs)
  /\ IF "http" \in Kinds(v.inputs)
     THEN /\ "fnct" \notin Kinds(v.inputs) /\ a.version = "v2"
          /\ CheckBrokerAuthority(v, w, a.broker, credentials, t)
     ELSE a.version = "v1" /\ a.broker = None /\ DOMAIN credentials = {}

-----------------------------------------------------------------------------
Supplied(S) == [s \in S |-> custody[s]]

Init ==
  /\ verified = None
  /\ worker \in Workers /\ custody \in [Schemes -> Revisions]
  /\ confirmed = None /\ approval = None /\ shown = None
  /\ now = 0 /\ executed = None

(* Verify reads files handed to it, built or forged, against the digest the *)
(* host expects, and keeps its own copy; on an error there is no package.   *)
VerifyPackage(files, digest) ==
  /\ verified' = IF Verify(files, digest) THEN files ELSE None
  /\ UNCHANGED <<worker, custody, confirmed, approval, now, shown, executed>>

(* External: worker selection, credential rotation, time. *)
Select(w) ==
  /\ worker' = w
  /\ UNCHANGED <<verified, custody, confirmed, approval, now, shown, executed>>

Rotate(s, r) ==
  /\ custody' = [custody EXCEPT ![s] = r]
  /\ UNCHANGED <<verified, worker, confirmed, approval, now, shown, executed>>

Tick ==
  /\ now < MaxTime /\ now' = now + 1
  /\ UNCHANGED <<verified, worker, custody, confirmed, approval, shown, executed>>

(* The human confirms the plan rendered for the selected worker. *)
Confirm ==
  /\ PlanDerivable(verified, worker)
  /\ confirmed' = DeriveExecutionPlan(verified, worker)
  /\ UNCHANGED <<verified, worker, custody, approval, now, shown, executed>>

ShownAt(from, until, state) ==
  [content |-> verified.inputs, worker |-> worker, custody |-> custody,
   from |-> from, until |-> until, state |-> state]

(* The human approves a verified package: a v1 approval, perhaps without an *)
(* expiry, or a v2 approval whose broker authority is derived here.         *)
IssueV1(state, from, until) ==
  /\ verified # None
  /\ approval' = [version |-> "v1", package |-> verified, state |-> state,
                  approvedAt |-> from, expiresAt |-> until, broker |-> None]
  /\ shown' = ShownAt(from, until, state)
  /\ UNCHANGED <<verified, worker, custody, confirmed, now, executed>>

IssueV2(state, from, until, granted) ==
  LET seed == [approvedAt |-> from, expiresAt |-> granted]
      credentials == Supplied(Needs(verified.inputs)) IN
  /\ verified # None
  /\ BrokerDerivable(verified, worker, seed, credentials, now)
  /\ approval' = [version |-> "v2", package |-> verified, state |-> state,
                  approvedAt |-> from, expiresAt |-> until,
                  broker |-> DeriveBrokerAuthority(verified, worker, seed, credentials)]
  /\ shown' = ShownAt(from, until, state)
  /\ UNCHANGED <<verified, worker, custody, confirmed, now, executed>>

Execute(tier, S) ==
  /\ approval # None
  /\ CheckExecutionApproval(verified, worker, approval, Supplied(S), tier, now)
  /\ executed' = [content |-> verified.inputs, worker |-> worker, custody |-> custody,
                  supplied |-> S, at |-> now, tier |-> tier]
  /\ UNCHANGED <<verified, worker, custody, confirmed, approval, now, shown>>

(* Windows an approval may have: it may start later, and the authority may  *)
(* end at another time than the approval that carries it.                   *)
Starts == {now, now + 1}
Ends == {now + 1, now + 2}
Packages == {Build(c) : c \in {d \in Contents : d.clean}} \cup Forgeries
ApprovedStates == {"approved_for_sandbox", "approved_for_production"}

Next ==
  /\ executed = None
  /\ \/ \E files, digest \in Packages : VerifyPackage(files, digest)
     \/ Confirm \/ Tick
     \/ \E w \in Workers : Select(w)
     \/ \E s \in Schemes, r \in Revisions : Rotate(s, r)
     \/ \E state \in ApprovedStates, from \in Starts :
          \/ \E until \in Ends \cup {None} : IssueV1(state, from, until)
          \/ \E until, granted \in Ends : IssueV2(state, from, until, granted)
     \/ \E tier \in Tiers, S \in SUBSET Schemes : Execute(tier, S)

Spec == Init /\ [][Next]_vars

-----------------------------------------------------------------------------
(* What runs is what was approved: the same bytes, inside a window that has *)
(* an end, in a tier the human allowed; and an HTTP plan runs with the      *)
(* worker and the credential revisions of the moment of approval, however   *)
(* often worker, credentials, package and clock changed in between.         *)
ExecutedAsApproved ==
  executed # None =>
    /\ executed.content = shown.content
    /\ shown.until # None /\ shown.from <= executed.at /\ executed.at < shown.until
    /\ executed.tier = "production" => shown.state = "approved_for_production"
    /\ "http" \in Kinds(executed.content) =>
         /\ executed.worker = shown.worker
         /\ \A s \in Needs(executed.content) : executed.custody[s] = shown.custody[s]

(* "Approval v1's package digest alone is insufficient for a changed        *)
(* worker": what runs is the plan the human confirmed, with its worker.     *)
ExecutedAsConfirmed ==
  executed # None =>
    /\ confirmed # None
    /\ confirmed.package.inputs = executed.content /\ confirmed.worker = executed.worker

(* Whatever the package's own assessment and inventory claim, no byte that  *)
(* is incompatible or unclean runs, HTTP runs only when fully compatible,   *)
(* a function runs only on its own runtime revision, and exactly the        *)
(* credentials the operations need are supplied.                            *)
ExecutedIsFit ==
  executed # None =>
    LET c == executed.content IN
    /\ c.clean /\ c.fit # "incompatible"
    /\ Kinds(c) = {"http"} \/ Kinds(c) = {"fnct"}
    /\ Kinds(c) = {"http"} => c.fit = "compatible" /\ executed.supplied = Needs(c)
    /\ Kinds(c) = {"fnct"} => c.runtime = executed.worker.revision /\ executed.supplied = {}

(* An approval keeps working for as long as nothing it binds has changed:   *)
(* deriving the authority again gives the authority that was approved.      *)
Regular(a, c) ==
  IF Kinds(c) = {"fnct"} THEN a.version = "v1"
  ELSE a.version = "v2" /\ a.broker.expiresAt = a.expiresAt

ApprovalKeepsWorking ==
  /\ approval # None /\ verified # None /\ confirmed # None
  /\ verified = approval.package /\ worker = shown.worker /\ custody = shown.custody
  /\ confirmed.package = verified /\ confirmed.worker = worker
  /\ Regular(approval, verified.inputs)
  /\ shown.until # None /\ shown.from <= now /\ now < shown.until
  => CheckExecutionApproval(verified, worker, approval, Supplied(Needs(verified.inputs)),
                            "sandbox", now)
=============================================================================
