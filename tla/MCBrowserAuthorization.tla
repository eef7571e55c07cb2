----------------------- MODULE MCBrowserAuthorization -----------------------
(* An instance of BrowserAuthorization with two packages, two workers, two   *)
(* credential revisions, two deadlines and a saved session that is created   *)
(* after the first possible review and expires before the last deadline.     *)
(* Not all of it varies at once: while the terms are other than the plain    *)
(* ones, package and worker stay the first.                                  *)
EXTENDS BrowserAuthorization

CONSTANT password

Visit(schemes) ==
  [kind |-> "browser", complete |-> TRUE, alternatives |-> 1, schemes |-> schemes,
   supported |-> TRUE]

Bytes(name, operations) ==
  [name |-> name, operations |-> operations, fit |-> "indeterminate", clean |-> TRUE,
   sequence |-> TRUE, runtime |-> "", browser |-> TRUE]

Login == Bytes("login", <<Visit({password}), Visit({})>>)
Look == Bytes("look", <<Visit({})>>)

W(closure) == [binary |-> "b1", closure |-> closure, revision |-> "r1", valid |-> TRUE]

TwoContents == {Login, Look}
TwoWorkers == {W("c1"), W("c2")}
AllAdmitted == Workers \X Contents
OneSession == {[generation |-> 1, created |-> 1, expires |-> 2]}

Configs == {a.config : a \in {authority} \ {None}} \cup ({config} \ {None})

PlainTerms ==
  /\ now <= 1 /\ custody = [s \in Schemes |-> 1]
  /\ \A t \in Configs \cup ({receipt} \ {None}) :
       t.deadline = 2 /\ t.session = None /\ \A s \in DOMAIN t.credentials : t.credentials[s] = 1

FirstIdentity ==
  /\ worker = W("c1")
  /\ verified # None => verified.inputs = Login
  /\ \A p \in {t.plan : t \in Configs \cup ({receipt} \ {None})} \cup ({confirmed} \ {None}) :
       p.worker = worker /\ p.package.inputs = Login

Focus == PlainTerms \/ FirstIdentity

MCSpec == Init /\ [][Next /\ Focus']_vars
=============================================================================
