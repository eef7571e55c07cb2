------------------------- MODULE MCExecutionReport -------------------------
(* Small instances of ExecutionReport: every combination of outcomes and     *)
(* times over two steps, and every single-step document.                     *)
EXTENDS ExecutionReport

CONSTANTS a, b, run1, run2

Line(name, operation, invocation, outcome, start, finish, code) ==
  [step |-> name, operation |-> operation, invocation |-> invocation, outcome |-> outcome,
   start |-> start, finish |-> finish, code |-> code]

Document(identity, status, start, finish, code, steps) ==
  [identity |-> identity, wellFormed |-> TRUE, status |-> status, start |-> start,
   finish |-> finish, code |-> code, steps |-> steps]

Unstarted(name) == Line(name, name, name, "not_started", None, None, None)

YearOne == -1

Coded(name, outcome, start, finish) ==
  Line(name, name, name, outcome, start, finish,
       IF outcome = "failed" THEN "operation_failed" ELSE None)

Lines(name) ==
  {Coded(name, outcome, start, finish) :
     outcome \in Outcomes, start \in Times \cup {None}, finish \in Times \cup {None}}

Headers ==
  {Document(run1, "incomplete", 0, None, None, <<>>)}
  \cup {Document(run1, "success", start, finish, None, <<>>) :
          start \in Times, finish \in Times}
  \cup {Document(run1, "error", 0, finish, "cancelled", <<>>) : finish \in Times}

TimedReports ==
  {[h EXCEPT !.steps = <<l, k>>] : h \in Headers, l \in Lines(a), k \in Lines(b)}

-----------------------------------------------------------------------------
(* Names, headers and fields that do not fit, and inventories that are not  *)
(* the report's, are observed, or repeat a name.                            *)
OddLines ==
  {Line(s, o, i, outcome, 0, finish, code) :
     s \in {a, b, Malformed}, o \in {a, b}, i \in {a, b},
     outcome \in Outcomes \cup {"other"}, finish \in {0, None, Malformed},
     code \in {None, "operation_failed", "other"}}

OddHeaders ==
  {[identity |-> id, wellFormed |-> ok, status |-> status, start |-> start,
    finish |-> 0, code |-> code, steps |-> <<>>] :
     id \in {run1, run2}, ok \in BOOLEAN, status \in {"success", "error", "other"},
     start \in {0, Malformed}, code \in {None, "cancelled", "other"}}

OddReports ==
  {Document(run1, "incomplete", 0, None, None, <<l>>) : l \in OddLines}
  \cup {Document(run1, "error", 0, 0, "cancelled", <<Coded(a, "succeeded", 0, 0), l>>) :
          l \in OddLines}
  \cup {[h EXCEPT !.steps = [n \in 1..k |-> Coded(IF n = 1 THEN a ELSE b, "succeeded", 0, 0)]] :
          h \in OddHeaders, k \in 0..3}

SomeReports == TimedReports \cup OddReports

SomeInventories ==
  {[identity |-> run1, wellFormed |-> TRUE, steps |-> steps] :
     steps \in {<<Unstarted(a), Unstarted(b)>>, <<Unstarted(a)>>, <<>>,
                <<Unstarted(a), Unstarted(a)>>,
                <<Unstarted(a), Coded(b, "succeeded", 0, 0)>>,
                <<Unstarted(a), Line(b, b, b, "not_started", 0, None, None)>>}}

-----------------------------------------------------------------------------
(* Reports dated around the instant IsZero recognises. *)
EarlyTimes == {YearOne, 0, 1}

PlainInventory ==
  {[identity |-> run1, wellFormed |-> TRUE, steps |-> <<Unstarted(a), Unstarted(b)>>]}
=============================================================================
