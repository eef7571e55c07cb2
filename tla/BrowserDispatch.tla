--------------------------- MODULE BrowserDispatch ---------------------------
(***************************************************************************)
(* What observed browser evidence promises its reader, without the trace:  *)
(* the leaves of one attempt are dispatched in order, each at most once and *)
(* only while everything before it is known to have succeeded; an outcome  *)
(* becomes known only while the attempt is not halted and never changes    *)
(* afterwards; and what is published is either exactly that knowledge or   *)
(* uncertainty about every leaf.                                           *)
(***************************************************************************)
EXTENDS Integers

VARIABLES status,     \* what is known of each leaf
          halted,     \* no dispatch and no new knowledge any more
          published   \* "open", or the published outcomes by leaf

vars == <<status, halted, published>>

Leaf == DOMAIN status
Open == published.state = "open"

Init ==
  /\ status = [i \in DOMAIN status |-> "not_started"]
  /\ halted = FALSE
  /\ published = [state |-> "open", outcomes |-> [i \in DOMAIN status |-> "unknown"]]

Dispatch(i) ==
  /\ Open /\ ~halted /\ status[i] = "not_started"
  /\ \A j \in Leaf : j < i => status[j] = "succeeded"
  /\ status' = [status EXCEPT ![i] = "unknown"]
  /\ UNCHANGED <<halted, published>>

Succeed(i) ==
  /\ Open /\ ~halted /\ status[i] = "unknown"
  /\ status' = [status EXCEPT ![i] = "succeeded"]
  /\ UNCHANGED <<halted, published>>

Fail(i) ==
  /\ Open /\ ~halted /\ status[i] = "unknown"
  /\ status' = [status EXCEPT ![i] = "failed"]
  /\ halted' = TRUE
  /\ UNCHANGED published

Halt ==
  /\ Open /\ ~halted
  /\ halted' = TRUE
  /\ UNCHANGED <<status, published>>

Publish ==
  /\ Open
  /\ published' = [state |-> "known", outcomes |-> status]
  /\ UNCHANGED <<status, halted>>

Withhold ==
  /\ Open
  /\ published' = [published EXCEPT !.state = "uncertain"]
  /\ UNCHANGED <<status, halted>>

Next ==
  \/ \E i \in Leaf : Dispatch(i) \/ Succeed(i) \/ Fail(i)
  \/ Halt \/ Publish \/ Withhold

Spec == Init /\ [][Next]_vars
=============================================================================
