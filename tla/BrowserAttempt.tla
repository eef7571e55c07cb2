--------------------------- MODULE BrowserAttempt ---------------------------
(***************************************************************************)
(* The independently expected attempt and the trusted host witnesses that  *)
(* runevidence.ObserveBrowserReport is given, and the checks it makes on   *)
(* them before it reads the first trace event: BrowserConfigV1.Validate,   *)
(* sessionAccessMatches / expectedSessionBinding, credentialLeaseMatches,  *)
(* the launch and join witnesses and the time window.  The trace itself,   *)
(* with its bound of 4096 events, is read by BrowserTrace.                 *)
(*                                                                         *)
(* An attempt is one record.  Names, digests and leases are abstracted to  *)
(* what the checks tell apart:                                             *)
(*   calls        the approved inventory, in order (a leaf is its index)   *)
(*     named        SessionName = Session.Name                             *)
(*     source       SourceID with its SourceSHA256                         *)
(*     auth         AuthenticationSourceID of an action                    *)
(*     slots        the call's credential slot bindings                    *)
(*   session      Config.Session and the rights it requests                *)
(*   access       the observed SessionAccess witness                       *)
(*   independent  ExpectedSessionBinding, the host's own expectation       *)
(*   joinLease    Join.SessionAccessLeaseID is present                     *)
(*   durable      DurableBindingCount                                      *)
(*   lease        the credential lease witness (with current revisions)    *)
(*   permission   the leaf a valid one-use SavePermission names, else 0    *)
(*   nonDispatch  the NonDispatch witness and whether it is complete       *)
(*   facts        identities, launch and join facts all match              *)
(*   timely       the report times respect deadline and session window     *)
(***************************************************************************)
EXTENDS Integers, Sequences

CONSTANTS Sources,   \* digests of reviewed sources
          NoSource,  \* the empty digest
          Slots      \* credential slot bindings (slot, symbolic name)

ASSUME SourceAssumption == NoSource \notin Sources

Kinds == {"authentication", "registration", "action"}

Call == [kind: Kinds, named: BOOLEAN, reuse: BOOLEAN, save: BOOLEAN,
         source: Sources, auth: Sources \cup {NoSource}, slots: SUBSET Slots]

Digest == Sources \cup {NoSource}

Attempt ==
  [calls: Seq(Call),
   session: [present: BOOLEAN, reuse: BOOLEAN, save: BOOLEAN],
   access: [present: BOOLEAN, outcome: {"fresh", "reuse"}, reuse: BOOLEAN,
            save: BOOLEAN, authentication: Digest, profile: Digest],
   independent: [present: BOOLEAN, authentication: Digest, profile: Digest],
   joinLease: BOOLEAN, durable: 0..1,
   lease: [present: BOOLEAN, slots: SUBSET Slots],
   permission: Nat,
   nonDispatch: [present: BOOLEAN, complete: BOOLEAN],
   facts: BOOLEAN, timely: BOOLEAN]

-----------------------------------------------------------------------------
(* BrowserCallV1.Validate, as far as rights and sessions go. *)
CallValid(c) ==
  CASE c.kind = "action" ->
         c.slots = {} /\ ~c.save /\ (c.auth = NoSource => ~c.named /\ ~c.reuse)
    [] c.kind = "authentication" -> c.auth = NoSource
    [] c.kind = "registration" ->
         ~c.named /\ c.auth = NoSource /\ ~c.reuse /\ ~c.save

(* BrowserConfigV1.Validate: a right of a call needs the same right of the  *)
(* session it names, at most one call may save, and the session asks for    *)
(* exactly the union of its calls' rights.                                  *)
ConfigValid(a) ==
  /\ a.calls # <<>>
  /\ \A i \in DOMAIN a.calls :
       LET c == a.calls[i] IN
       /\ CallValid(c)
       /\ c.reuse \/ c.save =>
            /\ a.session.present /\ c.named
            /\ c.reuse => a.session.reuse
            /\ c.save => a.session.save
  /\ \A i, j \in DOMAIN a.calls : a.calls[i].save /\ a.calls[j].save => i = j
  /\ a.session.present =>
       /\ a.session.reuse = (\E i \in DOMAIN a.calls : a.calls[i].named /\ a.calls[i].reuse)
       /\ a.session.save = (\E i \in DOMAIN a.calls : a.calls[i].named /\ a.calls[i].save)

Named(a, kind) == {i \in DOMAIN a.calls : a.calls[i].named /\ a.calls[i].kind = kind}

(* expectedSessionBinding: the session's one authentication source and one  *)
(* action profile, completed from the host's own expectation where the plan *)
(* has no such leaf, and equal to that expectation wherever it is given.    *)
BindingMatches(a, authentication, profile) ==
  /\ \A i, j \in Named(a, "authentication") : i = j
  /\ \A i \in Named(a, "action") :
       /\ \E j \in Named(a, "authentication") : a.calls[j].source = a.calls[i].auth
       /\ a.calls[i].source = profile
  /\ \A i \in Named(a, "authentication") : a.calls[i].source = authentication
  /\ Named(a, "authentication") = {} \/ Named(a, "action") = {} => a.independent.present
  /\ authentication # NoSource /\ profile # NoSource
  /\ a.independent.present =>
       /\ a.independent.authentication = authentication
       /\ a.independent.profile = profile

(* sessionAccessMatches: observed rights may only narrow approved ones.     *)
SessionAccessMatches(a) ==
  /\ a.session.present /\ a.joinLease
  /\ a.access.reuse => a.session.reuse
  /\ a.access.save => a.session.save
  /\ a.access.outcome = "reuse" => a.access.reuse
  /\ BindingMatches(a, a.access.authentication, a.access.profile)

CredentialBindings(a) == UNION {a.calls[i].slots : i \in DOMAIN a.calls}

(* credentialLeaseMatches: exactly the bindings of the whole plan.          *)
CredentialLeaseMatches(a) == a.lease.present /\ a.lease.slots = CredentialBindings(a)

RequiresAccess(a) == a.session.present /\ (a.session.reuse \/ a.session.save)

(* Everything ObserveBrowserReport checks before its loop, but for the       *)
(* length of the trace, which BrowserTrace checks as it reads (OneEvent).    *)
Admitted(a) ==
  /\ ConfigValid(a)
  /\ a.facts /\ a.timely
  /\ RequiresAccess(a) => a.joinLease
  /\ IF a.access.present
     THEN a.durable = 1 /\ SessionAccessMatches(a)
     ELSE ~RequiresAccess(a) /\ ~a.joinLease
=============================================================================
