------------------------- MODULE MCBrokerExecution -------------------------
(* Small instances of BrokerExecution.                                       *)
EXTENDS BrokerExecution

CONSTANT key

Op(kind, schemes) ==
  [kind |-> kind, complete |-> TRUE, alternatives |-> 1, schemes |-> schemes,
   supported |-> TRUE]

Bytes(name, operations, fit, browser) ==
  [name |-> name, operations |-> operations, fit |-> fit, clean |-> TRUE,
   sequence |-> TRUE, runtime |-> "r1", browser |-> browser]

Order == Bytes("order", <<Op("http", {}), Op("http", {key})>>, "compatible", FALSE)
Refund == Bytes("refund", <<Op("http", {key})>>, "incompatible", FALSE)
Draft == Bytes("draft", <<Op("http", {key})>>, "indeterminate", FALSE)
Function == Bytes("function", <<Op("fnct", {})>>, "indeterminate", FALSE)
Mixed == Bytes("mixed", <<Op("fnct", {}), Op("http", {key})>>, "compatible", FALSE)

W(binary, closure, revision) ==
  [binary |-> binary, closure |-> closure, revision |-> revision, valid |-> TRUE]

First == W("b1", "c1", "r1")
Upgraded == W("b1", "c2", "r2")

(* The records of c, except for the outcome and the inventory they claim. *)
Claiming(c, outcome, credentials) ==
  LET assessment == [of |-> c, outcome |-> outcome] IN
  [inputs |-> c, manifest |-> c, assessment |-> assessment,
   handoff |-> [of |-> c, assessment |-> assessment, credentials |-> credentials]]

(* HTTP packages that are fit, unfit and undecided, a pure function and a    *)
(* mixture; the function's runtime is admitted on every worker, so that only *)
(* the revision tells them apart.                                            *)
SomeContents == {Order, Refund, Draft, Function, Mixed}
SomeWorkers == {First, Upgraded}
AllAdmitted == Workers \X Contents

(* Besides what Build makes: an incompatible package that claims to be       *)
(* compatible, an inventory that hides its credential, and bytes that the    *)
(* manifest does not list.                                                   *)
SomeForgeries ==
  {Claiming(Refund, "compatible", {key}), Claiming(Order, "compatible", {}),
   [Build(Order) EXCEPT !.inputs = Refund]}
=============================================================================
