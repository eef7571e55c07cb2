------------------------ MODULE BrowserAuthorization ------------------------
(***************************************************************************)
(* How one browser attempt is authorised.  A human finalises a receipt     *)
(* (BrowserApprovalV1) for a plan, worker, deadline, credential revisions  *)
(* and session; the host then opens attempts, each with a configuration of *)
(* its own that names the receipt by digest; packagev3 derives an authority *)
(* for the current attempt and later checks a submitted one against it.    *)
(*                                                                         *)
(* The receipt cannot name the attempt (it is finalised first and its      *)
(* digest is in the configuration), so one receipt serves every retry of   *)
(* the run, and only the authority tells the attempts apart.  An attempt   *)
(* number stands for the launch nonce, containment lease and host facts;   *)
(* a plan stands for the package, handoff, inputs, workflow and supplement *)
(* digests the configuration repeats.  The behaviour ends with the first   *)
(* admission: no check reads admitted.                                     *)
(***************************************************************************)
EXTENDS ReviewedPackage

CONSTANTS Revisions,    \* credential revisions
          Sessions,     \* saved sessions a configuration may bind
          Deadlines,    \* deadlines a configuration may have
          MaxAttempts,  \* bound on attempts
          MaxTime       \* bound on the clock

Session == [generation: Nat \ {0}, created: Nat, expires: Nat]

ASSUME BrowserAssumption ==
  /\ Revisions # {} /\ Sessions \subseteq Session /\ Deadlines \subseteq Nat
  /\ MaxAttempts \in Nat /\ MaxTime \in Nat

VARIABLES
  verified,    \* VerifiedPackage, or None
  worker,      \* the selected worker
  custody,     \* current revision of each credential
  confirmed,   \* ConfirmedPlanSHA256, or None
  receipt,     \* FinalizedApproval, or None
  reviewed,    \* history: what the world was when it was finalised
  attempts,    \* attempts opened so far
  config,      \* ExpectedConfig of the current attempt, or None
  authority,   \* the authority last derived, for whichever attempt, or None
  now,
  admitted     \* history: the admission, or None

vars == <<verified, worker, custody, confirmed, receipt, reviewed, attempts, config,
          authority, now, admitted>>

-----------------------------------------------------------------------------
(* The calls of a plan, in order, and the credential names their slots use. *)
Calls(plan) == plan.operations
Slots(calls) == UNION {calls[n].operation.schemes : n \in DOMAIN calls}

ConfigValid(c) ==
  /\ c.calls # <<>>
  /\ DOMAIN c.credentials = Slots(c.calls)
  /\ c.session # None =>
       c.session.created < c.session.expires /\ c.session.created < c.deadline

(* ReviewBrowserConfig: all of a configuration but its attempt and receipt. *)
ReviewBrowserConfig(c, at) ==
  [plan |-> c.plan, worker |-> c.worker, deadline |-> c.deadline, calls |-> c.calls,
   credentials |-> c.credentials, session |-> c.session, approvedAt |-> at]

ReceiptValid(r) == r.approvedAt < r.deadline /\ ConfigValid(r)

(* Mutant: the receipt is named, but what it reviewed is not compared. *)
ReceiptNamedOnly(r, c) == ReceiptValid(r) /\ ConfigValid(c) /\ c.receipt = r

CheckBrowserApproval(r, c) ==
  /\ ReceiptValid(r) /\ ConfigValid(c)
  /\ c.receipt = r
  /\ r = ReviewBrowserConfig(c, r.approvedAt)

(* Mutant: a saved session past its own expiry ends the execution too. *)
SessionUnexpired(session, t) ==
  session # None => session.created <= t /\ t < session.expires

(* A session may have expired: whether saved state is usable is decided     *)
(* when it is acquired.  It may not be created in the future.               *)
SessionCurrent(session, t) == session # None => session.created <= t

(* DeriveBrowserAuthority succeeds.  The window starts with the receipt and *)
(* ends with the configuration's deadline.                                  *)
AuthorityDerivable(v, w, c, r, plan, t) ==
  /\ PlanDerivable(v, w) /\ c # None /\ r # None
  /\ ReceiptValid(r) /\ r.approvedAt <= t /\ t < c.deadline
  /\ SessionCurrent(c.session, t)
  /\ v.inputs.browser /\ ConfigValid(c)
  /\ plan = DeriveExecutionPlan(v, w) /\ c.plan = plan /\ c.worker = w
  /\ CheckBrowserApproval(r, c)
  /\ c.calls = Calls(plan)

DeriveBrowserAuthority(c) == [config |-> c]

(* Mutant: an authority is good for every attempt its receipt covers. *)
SameReview(expected, submitted) ==
  expected.config.receipt = submitted.config.receipt

SameAuthority(expected, submitted) == expected = submitted

CheckBrowserAuthority(v, w, c, r, plan, t, submitted) ==
  /\ AuthorityDerivable(v, w, c, r, plan, t)
  /\ ConfigValid(submitted.config)
  /\ SameAuthority(DeriveBrowserAuthority(c), submitted)

-----------------------------------------------------------------------------
Init ==
  /\ verified = None /\ worker \in Workers /\ custody \in [Schemes -> Revisions]
  /\ confirmed = None /\ receipt = None /\ reviewed = None
  /\ attempts = 0 /\ config = None /\ authority = None
  /\ now = 0 /\ admitted = None

VerifyPackage(files, digest) ==
  /\ verified' = IF Verify(files, digest) THEN files ELSE None
  /\ UNCHANGED <<worker, custody, confirmed, receipt, reviewed, attempts, config,
                 authority, now, admitted>>

(* External: worker selection, credential rotation, time. *)
Select(w) ==
  /\ worker' = w
  /\ UNCHANGED <<verified, custody, confirmed, receipt, reviewed, attempts, config,
                 authority, now, admitted>>

Rotate(s, r) ==
  /\ custody' = [custody EXCEPT ![s] = r]
  /\ UNCHANGED <<verified, worker, confirmed, receipt, reviewed, attempts, config,
                 authority, now, admitted>>

Tick ==
  /\ now < MaxTime /\ now' = now + 1
  /\ UNCHANGED <<verified, worker, custody, confirmed, receipt, reviewed, attempts,
                 config, authority, admitted>>

Confirm ==
  /\ PlanDerivable(verified, worker)
  /\ confirmed' = DeriveExecutionPlan(verified, worker)
  /\ UNCHANGED <<verified, worker, custody, receipt, reviewed, attempts, config,
                 authority, now, admitted>>

(* What the host puts into a configuration: the plan of the moment, the     *)
(* credential revisions of the moment, a deadline and a session it chooses. *)
Config(attempt, approval, deadline, session) ==
  LET plan == DeriveExecutionPlan(verified, worker) IN
  [attempt |-> attempt, receipt |-> approval, plan |-> plan, worker |-> worker,
   deadline |-> deadline, calls |-> Calls(plan),
   credentials |-> [s \in Slots(Calls(plan)) |-> custody[s]], session |-> session]

(* The human finalises the review of a draft. *)
Finalize(deadline, session) ==
  /\ PlanDerivable(verified, worker)
  /\ receipt' = ReviewBrowserConfig(Config(0, None, deadline, session), now)
  /\ ReceiptValid(receipt')
  /\ reviewed' = [content |-> verified.inputs, worker |-> worker, custody |-> custody,
                  deadline |-> deadline, session |-> session, at |-> now]
  /\ UNCHANGED <<verified, worker, custody, confirmed, attempts, config, authority,
                 now, admitted>>

(* The host opens an attempt; nothing stops it from asking for a later      *)
(* deadline or another session than those reviewed.                         *)
OpenAttempt(deadline, session) ==
  /\ receipt # None /\ PlanDerivable(verified, worker) /\ attempts < MaxAttempts
  /\ attempts' = attempts + 1
  /\ config' = Config(attempts', receipt, deadline, session)
  /\ UNCHANGED <<verified, worker, custody, confirmed, receipt, reviewed, authority,
                 now, admitted>>

Derive ==
  /\ AuthorityDerivable(verified, worker, config, receipt, confirmed, now)
  /\ authority' = DeriveBrowserAuthority(config)
  /\ UNCHANGED <<verified, worker, custody, confirmed, receipt, reviewed, attempts,
                 config, now, admitted>>

Admit ==
  /\ authority # None
  /\ CheckBrowserAuthority(verified, worker, config, receipt, confirmed, now, authority)
  /\ admitted' = [content |-> verified.inputs, worker |-> worker, at |-> now,
                  attempt |-> authority.config.attempt,
                  deadline |-> authority.config.deadline,
                  session |-> authority.config.session,
                  credentials |-> authority.config.credentials]
  /\ UNCHANGED <<verified, worker, custody, confirmed, receipt, reviewed, attempts,
                 config, authority, now>>

Packages == {Build(c) : c \in {d \in Contents : d.clean}}

Next ==
  /\ admitted = None
  /\ \/ \E files, digest \in Packages : VerifyPackage(files, digest)
     \/ Confirm \/ Tick \/ Derive \/ Admit
     \/ \E w \in Workers : Select(w)
     \/ \E s \in Schemes, r \in Revisions : Rotate(s, r)
     \/ \E deadline \in Deadlines, session \in Sessions \cup {None} :
          Finalize(deadline, session) \/ OpenAttempt(deadline, session)

Spec == Init /\ [][Next]_vars

-----------------------------------------------------------------------------
(* An admission is what the human reviewed: bytes, worker, session,         *)
(* credential revisions and deadline, however many attempts were opened, on *)
(* whatever terms, since the review.  No attempt renews the deadline, and   *)
(* none is admitted with a session created after the admission.             *)
AdmittedAsReviewed ==
  admitted # None =>
    /\ admitted.content = reviewed.content /\ admitted.worker = reviewed.worker
    /\ admitted.session = reviewed.session /\ admitted.deadline = reviewed.deadline
    /\ \A s \in DOMAIN admitted.credentials :
         admitted.credentials[s] = reviewed.custody[s]
    /\ reviewed.at <= admitted.at /\ admitted.at < reviewed.deadline
    /\ admitted.session # None => admitted.session.created <= admitted.at

(* The authority that admits is the current attempt's, not that of an       *)
(* earlier attempt under the same receipt, and it admits the plan that was  *)
(* confirmed for the worker that is selected at that moment.                *)
AdmittedIsCurrent ==
  admitted # None =>
    /\ admitted.attempt = attempts
    /\ confirmed.package = verified /\ confirmed.worker = worker
    /\ admitted.content = verified.inputs /\ admitted.worker = worker

(* A derived authority keeps admitting its attempt until the deadline, as   *)
(* long as package, worker, plan and receipt stay: credential rotation and  *)
(* the expiry of the saved session do not end it.                           *)
AuthorityKeepsWorking ==
  /\ authority # None /\ config = authority.config /\ receipt = config.receipt
  /\ verified # None /\ confirmed = config.plan
  /\ confirmed.package = verified /\ worker = config.worker
  /\ now < config.deadline
  => CheckBrowserAuthority(verified, worker, config, receipt, confirmed, now, authority)
=============================================================================
