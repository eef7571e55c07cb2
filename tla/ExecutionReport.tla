-------------------------- MODULE ExecutionReport --------------------------
(***************************************************************************)
(* udonreport: ObserveV5 on one expected inventory and one executor        *)
(* report.  ReportV5.Validate reads a document step by step, carrying the  *)
(* latest time seen (previous) and whether the sequence has stopped; it is *)
(* run on the inventory first and on the decoded report second, and only   *)
(* then are the two compared.  One action checks the header, one a step.   *)
(*                                                                         *)
(* Times are integers.  ZeroTime is the instant Go's time.IsZero names: a  *)
(* parsed finish equal to it is taken for "no finish".  wellFormed stands  *)
(* for strict JSON, the size limit, versions, identifiers and digests of   *)
(* the header; identity for the run, workflow and digest it names.         *)
(***************************************************************************)
EXTENDS Integers, Sequences

CONSTANTS Inventories,  \* expected inventories
          Reports,      \* decoded reports that may be submitted
          Names,        \* valid step and operation identifiers
          Times,        \* instants that parse
          ZeroTime,     \* the instant IsZero recognises
          None,         \* an absent field
          Malformed,    \* a field that does not parse
          Identities,   \* run, workflow and digest
          MaxSteps      \* 256 in the code

(* Instant 0 is the fixed start the inventory check gives its own report.   *)
ASSUME TimesAssumption ==
  /\ Times \subseteq Int /\ 0 \in Times /\ ZeroTime \in Int
  /\ None \notin Int /\ Malformed \notin Int
ASSUME MaxStepsAssumption == MaxSteps \in Nat

Outcomes == {"not_started", "unknown", "succeeded", "failed"}
TimeField == Times \cup {None, Malformed}
NameField == Names \cup {Malformed}
StepV5 ==
  [step: NameField, operation: NameField, invocation: NameField,
   outcome: Outcomes \cup {"other"}, start: TimeField, finish: TimeField,
   code: {None, "operation_failed", "other"}]
ReportV5 ==
  [identity: Identities, wellFormed: BOOLEAN,
   status: {"incomplete", "success", "error", "other"},
   start: TimeField, finish: TimeField,
   code: {None, "execution_failed", "checkpoint_failed", "cancelled", "other"},
   steps: Seq(StepV5)]
InventoryV5 == [identity: Identities, wellFormed: BOOLEAN, steps: Seq(StepV5)]

ASSUME InputsAssumption == Reports \subseteq ReportV5 /\ Inventories \subseteq InventoryV5

VARIABLES inventory, report,
          reading,   \* "inventory", "report", or "done"
          index,     \* steps of the document already accepted, -1 before its header
          previous,  \* latest time seen in the document
          stopped,   \* a step was not started, unknown or failed
          state      \* observation state: "none" until decided

vars == <<inventory, report, reading, index, previous, stopped, state>>

-----------------------------------------------------------------------------
(* InventoryV5.Validate builds an incomplete report of its own. *)
AsReport(i) ==
  [identity |-> i.identity, wellFormed |-> i.wellFormed, status |-> "incomplete",
   start |-> 0, finish |-> None, code |-> None, steps |-> i.steps]

Subject == IF reading = "inventory" THEN AsReport(inventory) ELSE report

HeaderValid(r) ==
  /\ r.wellFormed /\ Len(r.steps) \in 1..MaxSteps /\ r.start \in Times
  /\ CASE r.status = "incomplete" -> r.finish = None /\ r.code = None
       [] r.status = "success" ->
            r.finish \in Times /\ r.start <= r.finish /\ r.code = None
       [] r.status = "error" ->
            /\ r.finish \in Times /\ r.start <= r.finish
            /\ r.code \in {"execution_failed", "checkpoint_failed", "cancelled"}
       [] OTHER -> FALSE

(* Identifiers are valid, the invocation is the step, neither name repeats. *)
NamesValid(r, n) ==
  LET s == r.steps[n] IN
  /\ s.step \in Names /\ s.operation \in Names /\ s.invocation = s.step
  /\ \A m \in 1..(n - 1) :
       r.steps[m].step # s.step /\ r.steps[m].operation # s.operation

(* !finish.IsZero() && t.After(finish), negated. *)
WithinFinish(r, t) == r.finish # None /\ r.finish # ZeroTime => t <= r.finish

StartValid(r, s) ==
  /\ ~stopped
  /\ s.start \in Times /\ previous <= s.start /\ WithinFinish(r, s.start)

StepValid(r, n) ==
  LET s == r.steps[n] IN
  /\ NamesValid(r, n)
  /\ CASE s.outcome = "not_started" -> s.start = None /\ s.finish = None /\ s.code = None
       [] s.outcome = "unknown" -> StartValid(r, s) /\ s.finish = None /\ s.code = None
       [] s.outcome \in {"succeeded", "failed"} ->
            /\ StartValid(r, s)
            /\ s.finish \in Times /\ s.start <= s.finish /\ WithinFinish(r, s.finish)
            /\ s.code = IF s.outcome = "failed" THEN "operation_failed" ELSE None
       [] OTHER -> FALSE
  /\ r.status = "success" => s.outcome = "succeeded"

(* Mutant: an unknown outcome does not stop the sequence. *)
UnknownContinues(s) == stopped \/ s.outcome \in {"not_started", "failed"}

Stops(s) == stopped \/ s.outcome \in {"not_started", "unknown", "failed"}

Latest(s) ==
  CASE s.outcome = "not_started" -> previous
    [] s.outcome = "unknown" -> s.start
    [] OTHER -> s.finish

(* ObserveV5 compares identity and the names of every step, in order. *)
NamesMatch ==
  /\ report.identity = inventory.identity
  /\ Len(report.steps) = Len(inventory.steps)
  /\ \A n \in 1..Len(inventory.steps) :
       /\ report.steps[n].step = inventory.steps[n].step
       /\ report.steps[n].operation = inventory.steps[n].operation
       /\ report.steps[n].invocation = inventory.steps[n].invocation

-----------------------------------------------------------------------------
Init ==
  /\ inventory \in Inventories /\ report \in Reports
  /\ reading = "inventory" /\ index = -1 /\ previous = 0 /\ stopped = FALSE
  /\ state = "none"

(* Any refusal makes the observation UnknownV5(inventory, "invalid"). *)
Refuse ==
  /\ reading' = "done" /\ state' = "invalid"
  /\ UNCHANGED <<inventory, report, index, previous, stopped>>

(* InventoryV5.Validate first refuses any observed outcome. *)
HeaderAccepted ==
  /\ HeaderValid(Subject)
  /\ reading = "inventory" =>
       \A n \in 1..Len(inventory.steps) : inventory.steps[n].outcome = "not_started"

CheckHeader ==
  /\ reading \in {"inventory", "report"} /\ index = -1
  /\ \/ /\ HeaderAccepted
        /\ index' = 0 /\ previous' = Subject.start /\ stopped' = FALSE
        /\ UNCHANGED <<inventory, report, reading, state>>
     \/ ~HeaderAccepted /\ Refuse

CheckStep ==
  /\ reading \in {"inventory", "report"} /\ index >= 0 /\ index < Len(Subject.steps)
  /\ \/ /\ StepValid(Subject, index + 1)
        /\ LET s == Subject.steps[index + 1] IN
             index' = index + 1 /\ previous' = Latest(s) /\ stopped' = Stops(s)
        /\ UNCHANGED <<inventory, report, reading, state>>
     \/ ~StepValid(Subject, index + 1) /\ Refuse

(* The document is valid: go on to the report, or compare it. *)
Finish ==
  /\ reading \in {"inventory", "report"} /\ index = Len(Subject.steps)
  /\ IF reading = "inventory"
     THEN reading' = "report" /\ index' = -1 /\ UNCHANGED state
     ELSE /\ reading' = "done" /\ UNCHANGED index
          /\ state' = IF NamesMatch THEN "validated" ELSE "mismatched"
  /\ UNCHANGED <<inventory, report, previous, stopped>>

Next == CheckHeader \/ CheckStep \/ Finish

Spec == Init /\ [][Next]_vars

-----------------------------------------------------------------------------
(* The reference: what a consistent document is, without reading it in order. *)
Started(s) == s.outcome \in {"unknown", "succeeded", "failed"}
Ended(s) == s.outcome \in {"succeeded", "failed"}

UniqueNames(steps) ==
  \A m, n \in 1..Len(steps) :
    /\ steps[n].step \in Names /\ steps[n].operation \in Names
    /\ steps[n].invocation = steps[n].step
    /\ m # n => steps[m].step # steps[n].step /\ steps[m].operation # steps[n].operation

FieldsFit(s) ==
  /\ s.outcome \in Outcomes
  /\ IF Started(s) THEN s.start \in Times ELSE s.start = None
  /\ IF Ended(s) THEN s.finish \in Times ELSE s.finish = None
  /\ s.code = IF s.outcome = "failed" THEN "operation_failed" ELSE None

Timely(r, s) ==
  /\ Started(s) => r.start <= s.start /\ (r.finish # None => s.start <= r.finish)
  /\ Ended(s) => s.start <= s.finish /\ (r.finish # None => s.finish <= r.finish)

(* Nothing starts before everything earlier has succeeded and ended. *)
Causal(steps) ==
  \A m, n \in 1..Len(steps) :
    m < n /\ Started(steps[n]) =>
      steps[m].outcome = "succeeded" /\ steps[m].finish <= steps[n].start

Consistent(r) ==
  /\ HeaderValid(r) /\ UniqueNames(r.steps)
  /\ \A n \in 1..Len(r.steps) :
       /\ FieldsFit(r.steps[n]) /\ Timely(r, r.steps[n])
       /\ r.status = "success" => r.steps[n].outcome = "succeeded"
  /\ Causal(r.steps)

Expected(i) ==
  /\ i.wellFormed /\ Len(i.steps) \in 1..MaxSteps /\ UniqueNames(i.steps)
  /\ \A n \in 1..Len(i.steps) : i.steps[n].outcome = "not_started" /\ FieldsFit(i.steps[n])

(* The one-pass check accepts exactly the reports that are consistent as a  *)
(* whole and name exactly the expected inventory: the step it accepts next  *)
(* never contradicts one accepted before, and no consistent report is lost. *)
ValidatedIffConsistent ==
  reading = "done" /\ report.finish # ZeroTime =>
    (state = "validated" <=> Expected(inventory) /\ Consistent(report) /\ NamesMatch)

(* "Validate checks ... timestamp consistency": in a validated report       *)
(* nothing starts or ends after the report's own finish.                    *)
FinishBoundsSteps ==
  state = "validated" /\ report.finish # None =>
    \A n \in 1..Len(report.steps) : Timely(report, report.steps[n])

-----------------------------------------------------------------------------
(* The inductive strengthening the proofs use. *)
TypeOK ==
  /\ inventory \in InventoryV5 /\ report \in ReportV5
  /\ reading \in {"inventory", "report", "done"}
  /\ index \in Int /\ -1 <= index
  /\ reading # "done" => index <= Len(Subject.steps)
  /\ previous \in Times /\ stopped \in BOOLEAN
  /\ state \in {"none", "validated", "invalid", "mismatched"}

(* Whether the first k steps are consistent by the reference's rules... *)
PrefixConsistent(r, k) ==
  /\ HeaderValid(r)
  /\ \A n \in 1..k :
       /\ NamesValid(r, n) /\ FieldsFit(r.steps[n])
       /\ r.finish # ZeroTime => Timely(r, r.steps[n])
       /\ r.status = "success" => r.steps[n].outcome = "succeeded"
  /\ \A m, n \in 1..k :
       m < n /\ Started(r.steps[n]) =>
         r.steps[m].outcome = "succeeded" /\ r.steps[m].finish <= r.steps[n].start

(* ... and whether p and st summarise them: p is the latest time seen, and  *)
(* was really seen; st says that some step did not succeed.                 *)
Summarised(r, k, p, st) ==
  /\ r.start <= p
  /\ \A n \in 1..k : Ended(r.steps[n]) => r.steps[n].finish <= p
  /\ \/ p = r.start
     \/ \E n \in 1..k : r.steps[n].outcome # "succeeded"
     \/ \E n \in 1..k : Ended(r.steps[n]) /\ r.steps[n].finish = p
  /\ st <=> \E n \in 1..k : r.steps[n].outcome # "succeeded"

AllUnstarted == \A n \in 1..Len(inventory.steps) : inventory.steps[n].outcome = "not_started"

PrefixRead ==
  reading \in {"inventory", "report"} /\ index >= 0 =>
    /\ PrefixConsistent(Subject, index) /\ Summarised(Subject, index, previous, stopped)
    /\ reading = "inventory" => AllUnstarted

(* Each phase and each result is justified by the reference. *)
ResultJustified ==
  /\ reading = "report" => Expected(inventory)
  /\ state = "none" <=> reading # "done"
  /\ report.finish # ZeroTime =>
       /\ state = "validated" => Expected(inventory) /\ Consistent(report) /\ NamesMatch
       /\ state = "mismatched" => ~NamesMatch
       /\ state = "invalid" => ~Expected(inventory) \/ ~Consistent(report)

Inductive == TypeOK /\ PrefixRead /\ ResultJustified
=============================================================================
