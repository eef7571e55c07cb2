----------------------- MODULE BrokerExecution_proofs -----------------------
(* What executes is what was approved and confirmed: for any packages,       *)
(* workers, credentials and revisions, and any length of time.               *)
EXTENDS BrokerExecution, TLAPS

WorldInv == worker \in Workers /\ custody \in [Schemes -> Revisions] /\ now \in Nat

(* A verified package holds clean contents and their true assessment. *)
VerifiedInv ==
  verified # None =>
    /\ verified \in Files /\ verified.inputs.clean
    /\ verified.assessment.outcome = verified.inputs.fit

(* The approval on file says what was shown when it was issued. *)
ApprovalInv ==
  approval # None =>
    /\ approval.package.inputs = shown.content
    /\ approval.approvedAt = shown.from /\ approval.expiresAt = shown.until
    /\ approval.state = shown.state

(* A confirmed plan could be derived, and is a plan for its own package and  *)
(* worker.                                                                   *)
ConfirmedInv ==
  confirmed # None =>
    /\ PlanDerivable(confirmed.package, confirmed.worker)
    /\ confirmed = DeriveExecutionPlan(confirmed.package, confirmed.worker)

(* An approval is well formed, and the authority it carries could be derived *)
(* when it was issued.                                                       *)
ShownCredentials == [s \in Needs(approval.package.inputs) |-> shown.custody[s]]

IssuedInv ==
  approval # None =>
    /\ approval.package \in Files /\ approval.state \in ApprovedStates
    /\ approval.approvedAt \in Nat /\ approval.expiresAt \in Nat \cup {None}
    /\ approval.version = "v1" => approval.broker = None
    /\ approval.version = "v2" =>
         /\ approval.broker \in BrokerAuthority
         /\ approval.broker.approvedAt = approval.approvedAt
         /\ approval.broker =
              DeriveBrokerAuthority(approval.package, shown.worker, Seed(approval.broker),
                                    ShownCredentials)
         /\ \E t : BrokerDerivable(approval.package, shown.worker, Seed(approval.broker),
                                   ShownCredentials, t)

(* Nothing moves after an execution. *)
ExecutedInv ==
  executed # None =>
    /\ approval # None
    /\ executed.content = verified.inputs /\ executed.worker = worker
    /\ executed.custody = custody /\ executed.at = now
    /\ CheckExecutionApproval(verified, worker, approval, Supplied(executed.supplied),
                              executed.tier, now)

IInv == WorldInv /\ VerifiedInv /\ ConfirmedInv /\ ApprovalInv /\ IssuedInv /\ ExecutedInv

-----------------------------------------------------------------------------
LEMMA InitIInv == Init => IInv
  BY DEF Init, IInv, WorldInv, VerifiedInv, ConfirmedInv, ApprovalInv, IssuedInv, ExecutedInv

(* The credentials an operation sequence needs are credential names. *)
LEMMA NeedsAreSchemes ==
  ASSUME NEW c \in Contents PROVE Needs(c) \in SUBSET Schemes
<1>1. c.operations \in Seq(Operation)
  BY PackageAssumption DEF Content
<1>2. ASSUME NEW n \in DOMAIN c.operations PROVE c.operations[n].schemes \subseteq Schemes
  <2>1. c.operations[n] \in Operation
    BY <1>1
  <2>. QED  BY <2>1 DEF Operation
<1>. QED  BY <1>2 DEF Needs

LEMMA PackagesAreFiles ==
  ASSUME NEW files \in Packages PROVE files \in Files
<1>1. ASSUME NEW c \in Contents PROVE Build(c) \in Files
  <2>1. c \in Content /\ c.operations \in Seq(Operation)
    BY PackageAssumption DEF Content
  <2>2. Assess(c) \in Assessment
    BY <2>1 DEF Assess, Assessment, Content
  <2>3. declaredCredentials(c) \in SUBSET Schemes
    BY NeedsAreSchemes DEF declaredCredentials
  <2>. QED  BY <2>2, <2>3 DEF Build, Files, Handoff
<1>. QED  BY <1>1, BrokerAssumption DEF Packages

(* An authority derived for files, a worker and revisions is an authority.   *)
LEMMA AuthorityType ==
  ASSUME NEW v \in Files, NEW w \in Workers, NEW seed,
         seed.approvedAt \in Nat, seed.expiresAt \in Nat,
         NEW c \in [Needs(v.inputs) -> Revisions]
  PROVE  DeriveBrokerAuthority(v, w, seed, c) \in BrokerAuthority
<1>. DEFINE ops == v.inputs.operations
            L == [operation: Operation, constraints: Contents \X Nat \X Workers]
            B == UNION {[S -> Revisions] : S \in SUBSET Schemes}
            Op(n) == [leaf |-> Leaf(v, w, n), bindings |-> Bindings(ops[n], c)]
<1>1. v.inputs \in Contents /\ ops \in Seq(Operation) /\ DOMAIN ops = 1 .. Len(ops)
  BY PackageAssumption DEF Files, Content
<1>2. w.binary \in STRING
  BY PackageAssumption DEF Worker
<1>3. ASSUME NEW n \in DOMAIN ops PROVE Op(n) \in [leaf: L, bindings: B]
  <2>1. ops[n] \in Operation /\ n \in Nat
    BY <1>1
  <2>2. Leaf(v, w, n) \in L
    BY <1>1, <2>1 DEF Leaf
  <2>3. ops[n].schemes \in SUBSET Schemes /\ ops[n].schemes \subseteq Needs(v.inputs)
    BY <2>1 DEF Operation, Needs
  <2>4. Bindings(ops[n], c) \in [ops[n].schemes -> Revisions]
    BY <2>3 DEF Bindings
  <2>5. Bindings(ops[n], c) \in B
    BY <2>3, <2>4
  <2>. QED  BY <2>2, <2>5
<1>4. [n \in DOMAIN ops |-> Op(n)] \in Seq([leaf: L, bindings: B])
  <2>. HIDE DEF Op, L, B, ops
  <2>1. Len(ops) \in Nat
    BY <1>1
  <2>. QED  BY <1>1, <1>3, <2>1
<1>. QED  BY <1>2, <1>4 DEF DeriveBrokerAuthority, BrokerAuthority

LEMMA NextIInv == IInv /\ [Next]_vars => IInv'
<1>. SUFFICES ASSUME IInv, [Next]_vars PROVE IInv'
  OBVIOUS
<1>. USE DEF IInv
<1>0. CASE UNCHANGED vars
  BY <1>0 DEF vars, WorldInv, VerifiedInv, ConfirmedInv, ApprovalInv, IssuedInv, ExecutedInv,
     ShownCredentials, CheckExecutionApproval, PlanConfirmed, Supplied
<1>. SUFFICES ASSUME executed = None, Next PROVE IInv'
  BY <1>0 DEF Next
<1>a. ASSUME UNCHANGED <<approval, shown>> PROVE ApprovalInv' /\ IssuedInv'
  BY <1>a DEF ApprovalInv, IssuedInv, ShownCredentials
<1>b. ASSUME executed' = None PROVE ExecutedInv'
  BY <1>b DEF ExecutedInv
<1>c. ASSUME confirmed' = confirmed PROVE ConfirmedInv'
  BY <1>c DEF ConfirmedInv
<1>1. ASSUME NEW files \in Packages, NEW digest \in Packages, VerifyPackage(files, digest)
      PROVE  IInv'
  <2>1. ASSUME Verify(files, digest)
        PROVE  files.inputs.clean /\ files.assessment.outcome = files.inputs.fit
    BY <2>1 DEF Verify, inspectSnapshot, Assess
  <2>2. files \in Files
    BY PackagesAreFiles
  <2>3. VerifiedInv' /\ WorldInv'
    BY <1>1, <2>1, <2>2 DEF VerifyPackage, VerifiedInv, WorldInv
  <2>. QED  BY <1>1, <1>a, <1>b, <1>c, <2>3 DEF VerifyPackage
<1>2. ASSUME NEW w \in Workers, Select(w) PROVE IInv'
  BY <1>2, <1>a, <1>b, <1>c DEF Select, WorldInv, VerifiedInv
<1>3. ASSUME NEW s \in Schemes, NEW r \in Revisions, Rotate(s, r) PROVE IInv'
  BY <1>3, <1>a, <1>b, <1>c DEF Rotate, WorldInv, VerifiedInv
<1>4. CASE Tick
  BY <1>4, <1>a, <1>b, <1>c DEF Tick, WorldInv, VerifiedInv
<1>5. CASE Confirm
  <2>1. confirmed'.package = verified /\ confirmed'.worker = worker
    BY <1>5 DEF Confirm, DeriveExecutionPlan
  <2>2. ConfirmedInv'
    BY <1>5, <2>1 DEF Confirm, ConfirmedInv
  <2>. QED  BY <1>5, <1>a, <1>b, <2>2 DEF Confirm, WorldInv, VerifiedInv
<1>d. Starts \subseteq Nat /\ Ends \subseteq Nat
  BY DEF WorldInv, Starts, Ends
<1>6. ASSUME NEW state \in ApprovedStates, NEW from \in Starts, NEW until \in Ends \cup {None},
             IssueV1(state, from, until)
      PROVE  IInv'
  <2>1. WorldInv' /\ VerifiedInv' /\ ApprovalInv'
    BY <1>6 DEF IssueV1, ShownAt, WorldInv, VerifiedInv, ApprovalInv
  <2>2. IssuedInv'
    BY <1>6, <1>d DEF IssueV1, VerifiedInv, IssuedInv
  <2>. QED  BY <1>6, <1>b, <1>c, <2>1, <2>2 DEF IssueV1
<1>7. ASSUME NEW state \in ApprovedStates, NEW from \in Starts, NEW until \in Ends,
             NEW granted \in Ends, IssueV2(state, from, until, granted)
      PROVE  IInv'
  <2>. DEFINE seed == [approvedAt |-> from, expiresAt |-> granted]
              credentials == [s \in Needs(verified.inputs) |-> custody[s]]
  <2>1. /\ verified \in Files /\ approval'.package = verified /\ approval'.state = state
        /\ approval'.approvedAt = from /\ approval'.expiresAt = until
        /\ approval'.version = "v2"
        /\ shown' = ShownAt(from, until, state)
        /\ UNCHANGED <<verified, worker, custody, confirmed, now, executed>>
    BY <1>7 DEF IssueV2, VerifiedInv
  <2>2. /\ approval'.broker = DeriveBrokerAuthority(verified, worker, seed, credentials)
        /\ BrokerDerivable(verified, worker, seed, credentials, now)
    BY <1>7 DEF IssueV2, Supplied
  <2>3. Seed(approval'.broker) = seed
    BY <2>2 DEF Seed, DeriveBrokerAuthority
  <2>4. /\ shown'.content = verified.inputs /\ shown'.worker = worker
        /\ shown'.custody = custody /\ shown'.from = from /\ shown'.until = until
        /\ shown'.state = state
    BY <2>1 DEF ShownAt
  <2>5. ShownCredentials' = credentials
    BY <2>1, <2>4 DEF ShownCredentials
  <2>6. approval'.broker \in BrokerAuthority
    <3>1. Needs(verified.inputs) \subseteq Schemes
      BY <2>1, NeedsAreSchemes DEF Files
    <3>2. credentials \in [Needs(verified.inputs) -> Revisions]
      BY <3>1 DEF WorldInv
    <3>. HIDE DEF credentials
    <3>. QED  BY <1>d, <2>1, <2>2, <3>2, AuthorityType DEF WorldInv
  <2>7. approval'.broker.approvedAt = from
    BY <2>2 DEF DeriveBrokerAuthority
  <2>8. IssuedInv'
    <3>. HIDE DEF seed, credentials
    <3>. QED  BY <1>d, <2>1, <2>2, <2>3, <2>4, <2>5, <2>6, <2>7 DEF IssuedInv
  <2>9. WorldInv' /\ VerifiedInv' /\ ApprovalInv'
    BY <2>1, <2>4 DEF WorldInv, VerifiedInv, ApprovalInv
  <2>. QED  BY <1>b, <1>c, <2>1, <2>8, <2>9
<1>8. ASSUME NEW tier \in Tiers, NEW S \in SUBSET Schemes, Execute(tier, S)
      PROVE  IInv'
  <2>1. ExecutedInv'
    BY <1>8 DEF Execute, ExecutedInv, CheckExecutionApproval, PlanConfirmed, Supplied
  <2>2. WorldInv' /\ VerifiedInv'
    BY <1>8 DEF Execute, WorldInv, VerifiedInv
  <2>. QED  BY <1>8, <1>a, <1>c, <2>1, <2>2 DEF Execute
<1>. QED  BY <1>1, <1>2, <1>3, <1>4, <1>5, <1>6, <1>7, <1>8 DEF Next

(* Every reachable approval is the record of what was shown, and every       *)
(* execution passed CheckExecutionApproval in the state it happened in.      *)
THEOREM SpecInductive == Spec => []IInv
  BY InitIInv, NextIInv, PTL DEF Spec

-----------------------------------------------------------------------------
(* One authority cannot be derived for two workers, nor for two revisions of *)
(* a credential it binds.                                                    *)
LEMMA AuthorityBindsWorld ==
  ASSUME NEW v, v.inputs \in Contents, NEW w1, NEW w2, NEW s1, NEW s2, NEW c1, NEW c2,
         DeriveBrokerAuthority(v, w1, s1, c1) = DeriveBrokerAuthority(v, w2, s2, c2)
  PROVE  w1 = w2 /\ \A s \in Needs(v.inputs) : c1[s] = c2[s]
<1>. DEFINE ops == v.inputs.operations
            Op(w, c) == [n \in DOMAIN ops |->
                           [leaf |-> Leaf(v, w, n), bindings |-> Bindings(ops[n], c)]]
<1>1. Op(w1, c1) = Op(w2, c2)
  BY DEF DeriveBrokerAuthority
<1>2. ASSUME NEW n \in DOMAIN ops
      PROVE  Leaf(v, w1, n) = Leaf(v, w2, n) /\ Bindings(ops[n], c1) = Bindings(ops[n], c2)
  <2>1. Op(w1, c1)[n] = Op(w2, c2)[n]
    BY <1>1
  <2>. QED  BY <2>1
<1>3. 1 \in DOMAIN ops
  BY PackageAssumption DEF Content
<1>4. w1 = w2
  <2>1. <<v.inputs, 1, w1>> = <<v.inputs, 1, w2>>
    BY <1>2, <1>3 DEF Leaf
  <2>. QED  BY <2>1
<1>5. ASSUME NEW s \in Needs(v.inputs) PROVE c1[s] = c2[s]
  <2>1. PICK n \in DOMAIN ops : s \in ops[n].schemes
    BY DEF Needs
  <2>2. Bindings(ops[n], c1)[s] = Bindings(ops[n], c2)[s]
    BY <1>2
  <2>. QED  BY <2>1, <2>2 DEF Bindings
<1>. QED  BY <1>4, <1>5

LEMMA ApprovedFromIInv == IInv => ExecutedAsApproved
<1>. SUFFICES ASSUME IInv, executed # None PROVE ExecutedAsApproved
  BY DEF ExecutedAsApproved
<1>. DEFINE credentials == Supplied(executed.supplied)
<1>1. /\ approval # None
      /\ executed.content = verified.inputs /\ executed.worker = worker
      /\ executed.custody = custody /\ executed.at = now
      /\ CheckExecutionApproval(verified, worker, approval, credentials, executed.tier, now)
  BY DEF IInv, ExecutedInv
<1>2. /\ PlanConfirmed(verified, worker) /\ InWindow(approval, now)
      /\ ApprovalValid(approval, verified, executed.tier, now)
  BY <1>1 DEF CheckExecutionApproval
<1>3. /\ approval.package = verified /\ approval.package.inputs = shown.content
      /\ approval.approvedAt = shown.from /\ approval.expiresAt = shown.until
      /\ approval.state = shown.state
  BY <1>1, <1>2 DEF IInv, ApprovalInv, ApprovalValid
<1>4. executed.content = shown.content
  BY <1>1, <1>3
<1>5. shown.until # None /\ shown.from <= executed.at /\ executed.at < shown.until
  BY <1>1, <1>2, <1>3 DEF InWindow
<1>6. executed.tier = "production" => shown.state = "approved_for_production"
  BY <1>2, <1>3 DEF ApprovalValid, ValidateTierState
<1>7. ASSUME "http" \in Kinds(executed.content)
      PROVE  /\ executed.worker = shown.worker
             /\ \A s \in Needs(executed.content) : executed.custody[s] = shown.custody[s]
  <2>1. approval.version = "v2" /\ CheckBrokerAuthority(verified, worker, approval.broker, credentials, now)
    BY <1>1, <1>7 DEF CheckExecutionApproval
  <2>. DEFINE approved == [s \in Needs(verified.inputs) |-> shown.custody[s]]
  <2>2. approval.broker =
          DeriveBrokerAuthority(verified, shown.worker, Seed(approval.broker), approved)
    BY <1>1, <1>3, <2>1 DEF IInv, IssuedInv, ShownCredentials
  <2>3. /\ DeriveBrokerAuthority(verified, worker, Seed(approval.broker), credentials) = approval.broker
        /\ BrokerDerivable(verified, worker, Seed(approval.broker), credentials, now)
    BY <2>1 DEF CheckBrokerAuthority
  <2>4. verified.inputs \in Contents
    BY <1>2 DEF IInv, VerifiedInv, PlanConfirmed, PlanDerivable, Files
  <2>5. worker = shown.worker /\ \A s \in Needs(verified.inputs) : credentials[s] = approved[s]
    <3>. HIDE DEF credentials, approved
    <3>. QED  BY <2>2, <2>3, <2>4, AuthorityBindsWorld
  <2>6. Needs(verified.inputs) = executed.supplied
    BY <2>3 DEF BrokerDerivable, Supplied
  <2>7. \A s \in Needs(verified.inputs) : credentials[s] = custody[s]
    BY <2>6 DEF Supplied
  <2>. QED  BY <1>1, <2>5, <2>7
<1>. QED  BY <1>4, <1>5, <1>6, <1>7 DEF ExecutedAsApproved

(* What executes is the approved content, in the approved window and tier,   *)
(* and HTTP with the worker and credential revisions of the approval.        *)
THEOREM SpecExecutedAsApproved == Spec => []ExecutedAsApproved
  BY SpecInductive, ApprovedFromIInv, PTL


LEMMA FitFromIInv == IInv => ExecutedIsFit
<1>. SUFFICES ASSUME IInv, executed # None PROVE ExecutedIsFit
  BY DEF ExecutedIsFit
<1>. DEFINE c == verified.inputs
            credentials == Supplied(executed.supplied)
<1>1. /\ executed.content = c /\ executed.worker = worker
      /\ CheckExecutionApproval(verified, worker, approval, credentials, executed.tier, now)
  BY DEF IInv, ExecutedInv
<1>2. PlanDerivable(verified, worker) /\ "browser" \notin Kinds(c)
  BY <1>1 DEF CheckExecutionApproval, PlanConfirmed
<1>3. c \in Contents /\ c.clean /\ verified.assessment.outcome = c.fit
  BY <1>2 DEF PlanDerivable, IInv, VerifiedInv, Files
<1>4. c.fit # "incompatible" /\ ("fnct" \in Kinds(c) => c.runtime = worker.revision)
  BY <1>2, <1>3 DEF PlanDerivable
<1>5. Kinds(c) \subseteq OperationKinds /\ Kinds(c) # {}
  <2>1. c.operations \in Seq(Operation) /\ Len(c.operations) > 0
    BY <1>3, PackageAssumption DEF Content
  <2>2. 1 \in DOMAIN c.operations
    BY <2>1
  <2>3. ASSUME NEW n \in DOMAIN c.operations PROVE c.operations[n].kind \in OperationKinds
    <3>1. c.operations[n] \in Operation
      BY <2>1
    <3>. QED  BY <3>1 DEF Operation
  <2>. QED  BY <2>2, <2>3 DEF Kinds
<1>6. DOMAIN credentials = executed.supplied
  BY DEF Supplied
<1>7. CASE "http" \in Kinds(c)
  <2>1. BrokerDerivable(verified, worker, Seed(approval.broker), credentials, now)
    BY <1>1, <1>7 DEF CheckExecutionApproval, CheckBrokerAuthority
  <2>2. c.fit = "compatible" /\ Needs(c) = executed.supplied
    BY <1>3, <1>6, <2>1 DEF BrokerDerivable
  <2>3. Kinds(c) = {"http"}
    BY <1>7, <2>1 DEF BrokerDerivable, Kinds
  <2>. QED  BY <1>1, <1>3, <2>2, <2>3 DEF ExecutedIsFit
<1>8. CASE "http" \notin Kinds(c)
  <2>1. DOMAIN credentials = {}
    BY <1>1, <1>8 DEF CheckExecutionApproval
  <2>2. Kinds(c) = {"fnct"}
    BY <1>2, <1>5, <1>8 DEF OperationKinds
  <2>. QED  BY <1>1, <1>3, <1>4, <1>6, <2>1, <2>2 DEF ExecutedIsFit
<1>. QED  BY <1>7, <1>8

(* Whatever a package claims about itself, only fit contents execute, on a   *)
(* worker with their runtime and with exactly the credentials they need.     *)
THEOREM SpecExecutedIsFit == Spec => []ExecutedIsFit
  BY SpecInductive, FitFromIInv, PTL

-----------------------------------------------------------------------------
(* A plan derived from files is a plan: in particular it is not None.        *)
LEMMA PlanType ==
  ASSUME NEW v \in Files, NEW w \in Workers PROVE DeriveExecutionPlan(v, w) \in Plan
<1>. DEFINE ops == v.inputs.operations
            L == [operation: Operation, constraints: Contents \X Nat \X Workers]
<1>1. v.inputs \in Contents /\ ops \in Seq(Operation) /\ DOMAIN ops = 1 .. Len(ops)
  BY PackageAssumption DEF Files, Content
<1>2. ASSUME NEW n \in DOMAIN ops PROVE Leaf(v, w, n) \in L
  BY <1>1 DEF Leaf
<1>3. [n \in DOMAIN ops |-> Leaf(v, w, n)] \in Seq(L)
  <2>. HIDE DEF L, ops
  <2>1. Len(ops) \in Nat
    BY <1>1
  <2>. QED  BY <1>1, <1>2, <2>1
<1>. QED  BY <1>3 DEF DeriveExecutionPlan, Plan

LEMMA ConfirmedFromIInv == IInv => ExecutedAsConfirmed
<1>. SUFFICES ASSUME IInv, executed # None PROVE ExecutedAsConfirmed
  BY DEF ExecutedAsConfirmed
<1>1. /\ executed.content = verified.inputs /\ executed.worker = worker
      /\ PlanDerivable(verified, worker) /\ DeriveExecutionPlan(verified, worker) = confirmed
  BY DEF IInv, ExecutedInv, CheckExecutionApproval, PlanConfirmed
<1>2. verified \in Files /\ worker \in Workers
  BY <1>1 DEF IInv, WorldInv, VerifiedInv, PlanDerivable
<1>3. confirmed # None
  BY <1>1, <1>2, PlanType, NoneAssumption
<1>4. confirmed.package = verified /\ confirmed.worker = worker
  BY <1>1 DEF DeriveExecutionPlan
<1>. QED  BY <1>1, <1>3, <1>4 DEF ExecutedAsConfirmed

(* What executes is the plan the human confirmed, on the confirmed worker.   *)
THEOREM SpecExecutedAsConfirmed == Spec => []ExecutedAsConfirmed
  BY SpecInductive, ConfirmedFromIInv, PTL

LEMMA KeepsWorkingFromIInv == IInv => ApprovalKeepsWorking
<1>. DEFINE c == verified.inputs
            credentials == Supplied(Needs(c))
<1>. SUFFICES ASSUME IInv, approval # None, verified # None, confirmed # None,
                     verified = approval.package, worker = shown.worker,
                     custody = shown.custody, confirmed.package = verified,
                     confirmed.worker = worker, Regular(approval, c),
                     shown.until # None, shown.from <= now, now < shown.until
              PROVE  CheckExecutionApproval(verified, worker, approval, credentials,
                                            "sandbox", now)
  BY DEF ApprovalKeepsWorking
<1>1. PlanConfirmed(verified, worker)
  BY DEF IInv, ConfirmedInv, PlanConfirmed
<1>2. /\ verified \in Files /\ approval.state \in ApprovedStates
      /\ approval.approvedAt = shown.from /\ approval.expiresAt = shown.until
      /\ shown.from \in Nat /\ shown.until \in Nat /\ now \in Nat
  BY DEF IInv, WorldInv, ApprovalInv, IssuedInv
<1>3. InWindow(approval, now)
  BY <1>2 DEF InWindow
<1>4. ValidateTierState("sandbox", approval.state)
  BY <1>2 DEF ValidateTierState, ApprovedStates
<1>5. /\ c \in Contents /\ 1 \in DOMAIN c.operations
      /\ \A n \in DOMAIN c.operations :
           c.operations[n].kind = "fnct" => c.operations[n].schemes = {}
  BY <1>2, PackageAssumption DEF Files, Content
<1>6. DOMAIN credentials = Needs(c)
  BY DEF Supplied
<1>7. CASE Kinds(c) = {"fnct"}
  <2>1. approval.version = "v1" /\ approval.broker = None
    BY <1>7 DEF Regular, IInv, IssuedInv
  <2>2. \A n \in DOMAIN c.operations : c.operations[n].schemes = {}
    BY <1>5, <1>7 DEF Kinds
  <2>3. Needs(c) = {}
    BY <2>2 DEF Needs
  <2>4. ApprovalValid(approval, verified, "sandbox", now)
    BY <1>2, <1>4, <2>1 DEF ApprovalValid
  <2>. QED  BY <1>1, <1>3, <1>6, <1>7, <2>1, <2>3, <2>4 DEF CheckExecutionApproval
<1>8. CASE Kinds(c) # {"fnct"}
  <2>. DEFINE b == approval.broker
  <2>1. approval.version = "v2" /\ b.expiresAt = approval.expiresAt
    BY <1>8 DEF Regular
  <2>2. ShownCredentials = credentials
    BY DEF ShownCredentials, Supplied
  <2>3. PICK t : /\ b \in BrokerAuthority /\ b.approvedAt = approval.approvedAt
                 /\ b = DeriveBrokerAuthority(verified, worker, Seed(b), credentials)
                 /\ BrokerDerivable(verified, worker, Seed(b), credentials, t)
    BY <2>1, <2>2 DEF IInv, IssuedInv
  <2>4. b # None
    BY <2>3, AbsenceAssumption
  <2>5. Current(b, now) /\ Current(Seed(b), now)
    BY <1>2, <2>1, <2>3 DEF Current, AuthorityValid, Seed
  <2>6. b.package = verified
    BY <2>3 DEF DeriveBrokerAuthority
  <2>7. ApprovalValid(approval, verified, "sandbox", now)
    BY <1>2, <1>4, <2>1, <2>3, <2>4, <2>5, <2>6 DEF ApprovalValid
  <2>8. BrokerDerivable(verified, worker, Seed(b), credentials, now)
    BY <2>3, <2>5 DEF BrokerDerivable
  <2>9. Kinds(c) = {"http"}
    BY <1>5, <2>3 DEF BrokerDerivable, Kinds
  <2>10. CheckBrokerAuthority(verified, worker, b, credentials, now)
    BY <2>3, <2>5, <2>8 DEF CheckBrokerAuthority
  <2>. QED  BY <1>1, <1>3, <2>1, <2>7, <2>9, <2>10 DEF CheckExecutionApproval
<1>. QED  BY <1>7, <1>8

(* An approval goes on working while what it binds stays as it was.          *)
THEOREM SpecApprovalKeepsWorking == Spec => []ApprovalKeepsWorking
  BY SpecInductive, KeepsWorkingFromIInv, PTL
=============================================================================
