--------------------- MODULE BrowserAuthorization_proofs ---------------------
(* A browser attempt is admitted on the reviewed terms and with its own      *)
(* authority only: for any number of attempts, sessions and deadlines.       *)
EXTENDS BrowserAuthorization, TLAPS

(* The receipt on file says what was reviewed. *)
ReceiptInv ==
  receipt # None =>
    /\ receipt.plan.package.inputs = reviewed.content /\ receipt.worker = reviewed.worker
    /\ receipt.deadline = reviewed.deadline /\ receipt.session = reviewed.session
    /\ receipt.approvedAt = reviewed.at
    /\ \A s \in DOMAIN receipt.credentials : receipt.credentials[s] = reviewed.custody[s]

(* The expected configuration is always the latest attempt's. *)
ConfigInv == config # None => config.attempt = attempts

(* Nothing moves after an admission. *)
AdmittedInv ==
  admitted # None =>
    /\ CheckBrowserAuthority(verified, worker, config, receipt, confirmed, now, authority)
    /\ admitted.content = verified.inputs /\ admitted.worker = worker /\ admitted.at = now
    /\ admitted.attempt = authority.config.attempt
    /\ admitted.deadline = authority.config.deadline
    /\ admitted.session = authority.config.session
    /\ admitted.credentials = authority.config.credentials

WorldInv == now \in Nat /\ (receipt # None => receipt.approvedAt \in Nat)

ConfigType == config # None => config.session \in Sessions \cup {None}

(* An authority could be derived, at some moment up to now, from the package *)
(* and the receipt its own configuration names.                              *)
DerivedThen(c, t) ==
  /\ t \in Nat /\ t <= now /\ c.receipt.approvedAt \in Nat
  /\ c.session \in Sessions \cup {None}
  /\ AuthorityDerivable(c.plan.package, c.worker, c, c.receipt, c.plan, t)

AuthorityInv ==
  authority # None =>
    /\ authority = DeriveBrowserAuthority(authority.config)
    /\ \E t : DerivedThen(authority.config, t)

IInv == WorldInv /\ ReceiptInv /\ ConfigInv /\ ConfigType /\ AuthorityInv /\ AdmittedInv

LEMMA InitIInv == Init => IInv
  BY DEF Init, IInv, WorldInv, ReceiptInv, ConfigInv, ConfigType, AuthorityInv, AdmittedInv

(* As time passes, an authority that could be derived remains one. *)
LEMMA AuthorityAges ==
  ASSUME AuthorityInv, now \in Nat, now' \in Nat, now <= now', authority' = authority
  PROVE  AuthorityInv'
<1>1. ASSUME NEW c, NEW t, DerivedThen(c, t) PROVE DerivedThen(c, t)'
  BY <1>1 DEF DerivedThen
<1>. QED  BY <1>1 DEF AuthorityInv

LEMMA NextIInv == IInv /\ [Next]_vars => IInv'
<1>. SUFFICES ASSUME IInv, [Next]_vars PROVE IInv'
  OBVIOUS
<1>. USE DEF IInv
<1>0. CASE UNCHANGED vars
  BY <1>0, AuthorityAges DEF vars, WorldInv, ReceiptInv, ConfigInv, ConfigType, AdmittedInv
<1>. SUFFICES ASSUME admitted = None, Next PROVE IInv'
  BY <1>0 DEF Next
<1>1. ASSUME NEW files \in Packages, NEW digest \in Packages, VerifyPackage(files, digest)
      PROVE  IInv'
  BY <1>1, AuthorityAges DEF VerifyPackage, WorldInv, ReceiptInv, ConfigInv, ConfigType, AdmittedInv
<1>2. CASE Confirm
  BY <1>2, AuthorityAges DEF Confirm, WorldInv, ReceiptInv, ConfigInv, ConfigType, AdmittedInv
<1>3. CASE Tick
  BY <1>3, AuthorityAges DEF Tick, WorldInv, ReceiptInv, ConfigInv, ConfigType, AdmittedInv
<1>4. CASE Derive
  <2>1. /\ AuthorityDerivable(verified, worker, config, receipt, confirmed, now)
        /\ authority' = DeriveBrowserAuthority(config) /\ authority'.config = config
        /\ UNCHANGED <<now, receipt, reviewed, attempts, config, admitted>>
    BY <1>4 DEF Derive, DeriveBrowserAuthority
  <2>2. /\ config # None /\ receipt # None /\ config.receipt = receipt
        /\ config.plan = confirmed /\ config.worker = worker
        /\ config.plan.package = verified
    BY <2>1 DEF AuthorityDerivable, CheckBrowserApproval, DeriveExecutionPlan
  <2>3. DerivedThen(config, now)'
    BY <2>1, <2>2 DEF DerivedThen, WorldInv, ConfigType
  <2>4. AuthorityInv'
    BY <2>1, <2>3 DEF AuthorityInv
  <2>. QED  BY <2>1, <2>4 DEF WorldInv, ReceiptInv, ConfigInv, ConfigType, AdmittedInv
<1>5. CASE Admit
  BY <1>5, AuthorityAges DEF Admit, WorldInv, ReceiptInv, ConfigInv, ConfigType, AdmittedInv
<1>6. ASSUME NEW w \in Workers, Select(w) PROVE IInv'
  BY <1>6, AuthorityAges DEF Select, WorldInv, ReceiptInv, ConfigInv, ConfigType, AdmittedInv
<1>7. ASSUME NEW s \in Schemes, NEW r \in Revisions, Rotate(s, r) PROVE IInv'
  BY <1>7, AuthorityAges DEF Rotate, WorldInv, ReceiptInv, ConfigInv, ConfigType, AdmittedInv
<1>8. ASSUME NEW deadline \in Deadlines, NEW session \in Sessions \cup {None},
             Finalize(deadline, session)
      PROVE  IInv'
  <2>. DEFINE plan == DeriveExecutionPlan(verified, worker)
  <2>1. /\ receipt' = [plan |-> plan, worker |-> worker, deadline |-> deadline,
                       calls |-> Calls(plan),
                       credentials |-> [s \in Slots(Calls(plan)) |-> custody[s]],
                       session |-> session, approvedAt |-> now]
        /\ reviewed' = [content |-> verified.inputs, worker |-> worker, custody |-> custody,
                        deadline |-> deadline, session |-> session, at |-> now]
        /\ UNCHANGED <<attempts, config, authority, now, admitted>>
    BY <1>8 DEF Finalize, Config, ReviewBrowserConfig
  <2>2. plan.package = verified
    BY DEF DeriveExecutionPlan
  <2>3. ReceiptInv'
    <3>. HIDE DEF plan
    <3>. QED  BY <2>1, <2>2 DEF ReceiptInv
  <2>4. receipt'.approvedAt = now
    BY <2>1
  <2>. QED  BY <2>1, <2>3, <2>4, AuthorityAges DEF WorldInv, ConfigInv, ConfigType, AdmittedInv
<1>9. ASSUME NEW deadline \in Deadlines, NEW session \in Sessions \cup {None},
             OpenAttempt(deadline, session)
      PROVE  IInv'
  <2>1. config'.attempt = attempts' /\ config'.session = session
    BY <1>9 DEF OpenAttempt, Config
  <2>. QED  BY <1>9, <2>1, AuthorityAges
            DEF OpenAttempt, WorldInv, ReceiptInv, ConfigInv, ConfigType, AdmittedInv
<1>. QED  BY <1>1, <1>2, <1>3, <1>4, <1>5, <1>6, <1>7, <1>8, <1>9 DEF Next

(* The receipt is the record of the review, the configuration the latest     *)
(* attempt's, an authority was once derivable from its own configuration,    *)
(* and an admission passed CheckBrowserAuthority where it stands.            *)
THEOREM SpecInductive == Spec => []IInv
  BY InitIInv, NextIInv, PTL DEF Spec

(* What an accepted authority was compared with. *)
LEMMA AdmissionFacts ==
  ASSUME IInv, admitted # None
  PROVE  /\ config # None /\ receipt # None
         /\ authority.config = config
         /\ confirmed = DeriveExecutionPlan(verified, worker) /\ config.plan = confirmed
         /\ config.worker = worker /\ SessionCurrent(config.session, now)
         /\ receipt = ReviewBrowserConfig(config, receipt.approvedAt)
         /\ receipt.approvedAt <= now /\ now < config.deadline
  BY DEF IInv, AdmittedInv, CheckBrowserAuthority, AuthorityDerivable, SameAuthority,
     DeriveBrowserAuthority, CheckBrowserApproval

LEMMA ReviewedFromIInv == IInv => AdmittedAsReviewed
<1>. SUFFICES ASSUME IInv, admitted # None PROVE AdmittedAsReviewed
  BY DEF AdmittedAsReviewed
<1>1. /\ admitted.content = verified.inputs /\ admitted.worker = worker /\ admitted.at = now
      /\ admitted.deadline = config.deadline /\ admitted.session = config.session
      /\ admitted.credentials = config.credentials
  BY AdmissionFacts DEF IInv, AdmittedInv
<1>2. /\ receipt.plan = config.plan /\ receipt.worker = config.worker
      /\ receipt.deadline = config.deadline /\ receipt.session = config.session
      /\ receipt.credentials = config.credentials
  BY AdmissionFacts DEF ReviewBrowserConfig
<1>3. config.plan.package = verified
  BY AdmissionFacts DEF DeriveExecutionPlan
<1>4. /\ verified.inputs = reviewed.content /\ config.worker = reviewed.worker
      /\ config.deadline = reviewed.deadline /\ config.session = reviewed.session
      /\ receipt.approvedAt = reviewed.at
      /\ \A s \in DOMAIN config.credentials : config.credentials[s] = reviewed.custody[s]
  BY <1>2, <1>3, AdmissionFacts DEF IInv, ReceiptInv
<1>. QED  BY <1>1, <1>4, AdmissionFacts DEF AdmittedAsReviewed, SessionCurrent

(* No attempt is admitted on terms other than those reviewed: bytes, worker, *)
(* session, credential revisions and deadline.                               *)
THEOREM SpecAdmittedAsReviewed == Spec => []AdmittedAsReviewed
  BY SpecInductive, ReviewedFromIInv, PTL

LEMMA CurrentFromIInv == IInv => AdmittedIsCurrent
<1>. SUFFICES ASSUME IInv, admitted # None PROVE AdmittedIsCurrent
  BY DEF AdmittedIsCurrent
<1>1. admitted.attempt = attempts
  BY AdmissionFacts DEF IInv, AdmittedInv, ConfigInv
<1>2. confirmed.package = verified /\ confirmed.worker = worker
  BY AdmissionFacts DEF DeriveExecutionPlan
<1>3. admitted.content = verified.inputs /\ admitted.worker = worker
  BY DEF IInv, AdmittedInv
<1>. QED  BY <1>1, <1>2, <1>3 DEF AdmittedIsCurrent

(* An earlier attempt's authority never admits a later attempt, and the plan *)
(* admitted is the one confirmed for the worker selected at that moment.     *)
THEOREM SpecAdmittedIsCurrent == Spec => []AdmittedIsCurrent
  BY SpecInductive, CurrentFromIInv, PTL

LEMMA KeepsWorkingFromIInv == IInv => AuthorityKeepsWorking
<1>. SUFFICES ASSUME IInv, authority # None, config = authority.config,
                     receipt = config.receipt, confirmed = config.plan,
                     confirmed.package = verified, worker = config.worker,
                     now < config.deadline
              PROVE  CheckBrowserAuthority(verified, worker, config, receipt, confirmed,
                                           now, authority)
  BY DEF AuthorityKeepsWorking
<1>1. PICK t \in Nat :
        /\ t <= now /\ receipt.approvedAt \in Nat /\ config.session \in Sessions \cup {None}
        /\ AuthorityDerivable(verified, worker, config, receipt, confirmed, t)
  BY DEF IInv, AuthorityInv, DerivedThen
<1>2. receipt.approvedAt <= now
  BY <1>1 DEF AuthorityDerivable, IInv, WorldInv
<1>3. SessionCurrent(config.session, now)
  <2>. SUFFICES ASSUME config.session # None PROVE config.session.created <= now
    BY DEF SessionCurrent
  <2>1. config.session.created \in Nat
    BY <1>1, BrowserAssumption DEF Session
  <2>2. config.session.created <= t
    BY <1>1 DEF AuthorityDerivable, SessionCurrent
  <2>. QED  BY <1>1, <2>1, <2>2 DEF IInv, WorldInv
<1>4. AuthorityDerivable(verified, worker, config, receipt, confirmed, now)
  BY <1>1, <1>2, <1>3 DEF AuthorityDerivable
<1>5. authority = DeriveBrowserAuthority(config)
  BY DEF IInv, AuthorityInv
<1>. QED  BY <1>4, <1>5 DEF CheckBrowserAuthority, SameAuthority, AuthorityDerivable

(* An authority admits its attempt until the deadline while package, worker, *)
(* plan and receipt stay, whatever happens to credentials and the session.   *)
THEOREM SpecAuthorityKeepsWorking == Spec => []AuthorityKeepsWorking
  BY SpecInductive, KeepsWorkingFromIInv, PTL
=============================================================================
