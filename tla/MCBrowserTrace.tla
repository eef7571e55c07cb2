--------------------------- MODULE MCBrowserTrace ---------------------------
(* Small instances of BrowserTrace and BrowserEvidence: the attempts       *)
(* each run submits.                                                        *)
EXTENDS BrowserEvidence, TLC

CONSTANTS s1, s2, s3, k1

call(kind, named, reuse, save, source, auth, slots) ==
  [kind |-> kind, named |-> named, reuse |-> reuse, save |-> save,
   source |-> source, auth |-> auth, slots |-> slots]

Auth(named, reuse, save) == call("authentication", named, reuse, save, s1, NoSource, {k1})
OtherAuth == call("authentication", FALSE, FALSE, FALSE, s3, NoSource, {})
Act(named, reuse) == call("action", named, reuse, FALSE, s2, s1, {})
FreeAct == call("action", FALSE, FALSE, FALSE, s2, NoSource, {})
Register == call("registration", FALSE, FALSE, FALSE, s3, NoSource, {})

NoAccess == [present |-> FALSE, outcome |-> "fresh", reuse |-> FALSE, save |-> FALSE,
             authentication |-> NoSource, profile |-> NoSource]

Plain(calls, proof) ==
  [calls |-> calls, session |-> [present |-> FALSE, reuse |-> FALSE, save |-> FALSE],
   access |-> NoAccess,
   independent |-> [present |-> FALSE, authentication |-> NoSource, profile |-> NoSource],
   joinLease |-> FALSE, durable |-> 0, lease |-> [present |-> TRUE, slots |-> {k1}],
   permission |-> 0, nonDispatch |-> proof, facts |-> TRUE, timely |-> TRUE]

NoProof == [present |-> FALSE, complete |-> FALSE]
Proof == [present |-> TRUE, complete |-> TRUE]

(* Sessionless plans: registration first, challenged authentication, and    *)
(* an action with runtime confirmation.                                     *)
DispatchAttempts ==
  {Plain(<<Register, Auth(FALSE, FALSE, FALSE), FreeAct>>, NoProof),
   Plain(<<Auth(FALSE, FALSE, FALSE), FreeAct>>, NoProof),
   Plain(<<Register, FreeAct>>, NoProof), Plain(<<FreeAct, FreeAct>>, Proof)}

(* One saved session: every combination of requested and observed rights,   *)
(* of access outcome, credential lease and, for an observed save right,     *)
(* save permission.  A plan that saves has an authentication that may not.   *)
Accesses ==
  {NoAccess} \cup
  [present: {TRUE}, outcome: {"fresh", "reuse"}, reuse: BOOLEAN, save: BOOLEAN,
   authentication: {s1}, profile: {s2}]

SessionAttempts ==
  UNION {
  {[calls |-> IF c[2] THEN <<Auth(TRUE, c[1], TRUE), OtherAuth, Act(TRUE, c[1])>>
              ELSE <<Auth(TRUE, c[1], FALSE), Act(TRUE, c[1])>>,
    session |-> [present |-> TRUE, reuse |-> reuse, save |-> save],
    access |-> access,
    independent |-> [present |-> FALSE, authentication |-> NoSource, profile |-> NoSource],
    joinLease |-> access.present, durable |-> IF access.present THEN 1 ELSE 0,
    lease |-> [present |-> leased, slots |-> {k1}],
    permission |-> permission, nonDispatch |-> NoProof, facts |-> TRUE, timely |-> TRUE] :
     c \in BOOLEAN \X BOOLEAN, reuse \in BOOLEAN, save \in BOOLEAN,
     leased \in BOOLEAN, permission \in IF access.save THEN 0..1 ELSE {0}} :
  access \in Accesses}

AllAttempts == DispatchAttempts \cup SessionAttempts

(* Requests and questions are only compared for equality. *)
MessageSymmetry == Permutations(Requests) \cup Permutations(Questions)

(* For the honest host: the dispatch plans and a saved session with every    *)
(* right observed.                                                           *)
HonestAttempts ==
  DispatchAttempts \cup
  {a \in SessionAttempts : /\ a.session.reuse /\ a.session.save /\ a.access.present
                           /\ a.lease.present /\ a.permission = 1}
=============================================================================
