----------------------- MODULE ExecutionReport_proofs -----------------------
(***************************************************************************)
(* Proofs about ExecutionReport, for documents of any length and times of  *)
(* any size: the one-pass check accepts exactly the consistent reports.    *)
(***************************************************************************)
EXTENDS ExecutionReport, TLAPS

(* The report InventoryV5.Validate builds is a report. *)
LEMMA AsReportType ==
  ASSUME NEW i \in InventoryV5
  PROVE  AsReport(i) \in ReportV5 /\ AsReport(i).steps = i.steps
PROOF BY TimesAssumption DEF AsReport, InventoryV5, ReportV5, TimeField

(* A document's steps are records; lengths are natural numbers. *)
LEMMA StepsType ==
  ASSUME NEW r \in ReportV5
  PROVE  /\ r.steps \in Seq(StepV5) /\ Len(r.steps) \in Nat
         /\ \A n \in 1..Len(r.steps) : r.steps[n] \in StepV5
PROOF BY DEF ReportV5

(* Accepting a step extends the consistent prefix and its summary. *)
LEMMA StepAccepted ==
  ASSUME NEW r \in ReportV5, NEW k \in Nat, k < Len(r.steps),
         previous \in Times, stopped \in BOOLEAN,
         PrefixConsistent(r, k), Summarised(r, k, previous, stopped), StepValid(r, k + 1)
  PROVE  LET s == r.steps[k + 1] IN
         /\ PrefixConsistent(r, k + 1) /\ Summarised(r, k + 1, Latest(s), Stops(s))
         /\ Latest(s) \in Times /\ Stops(s) \in BOOLEAN
<1> DEFINE s == r.steps[k + 1]
<1> USE TimesAssumption, StepsType
<1>1. s \in StepV5 /\ r.start \in Times
  BY DEF PrefixConsistent, HeaderValid
<1>2. NamesValid(r, k + 1) /\ (r.status = "success" => s.outcome = "succeeded")
  BY DEF StepValid
<1>3. s.outcome \in Outcomes
  BY DEF StepValid, Outcomes
<1>4. /\ s.outcome = "not_started" => s.start = None /\ s.finish = None /\ s.code = None
      /\ s.outcome = "unknown" => StartValid(r, s) /\ s.finish = None /\ s.code = None
      /\ Ended(s) =>
           /\ StartValid(r, s) /\ s.finish \in Times /\ s.start <= s.finish
           /\ WithinFinish(r, s.finish)
           /\ s.code = IF s.outcome = "failed" THEN "operation_failed" ELSE None
  BY DEF StepValid, Ended
<1>5. FieldsFit(s)
  BY <1>3, <1>4 DEF FieldsFit, Started, Ended, Outcomes, StartValid
<1>6. Started(s) => StartValid(r, s)
  BY <1>4 DEF Started, Ended
<1>7. r.finish # ZeroTime => Timely(r, s)
  <2>1. Started(s) => r.start <= s.start
    <3>1. ASSUME Started(s)
          PROVE  /\ r.start \in Int /\ previous \in Int /\ s.start \in Int
                 /\ r.start <= previous /\ previous <= s.start
      BY <1>1, <1>6, <3>1 DEF StartValid, Summarised
    <3> QED
      BY <3>1
  <2> QED
    BY <2>1, <1>4, <1>6 DEF Timely, Ended, StartValid, WithinFinish
<1>8. ASSUME NEW m \in 1..k, Started(s)
      PROVE  r.steps[m].outcome = "succeeded" /\ r.steps[m].finish <= s.start
  <2>1. ~stopped /\ previous <= s.start /\ s.start \in Times
    BY <1>6, <1>8 DEF StartValid
  <2>2. r.steps[m].outcome = "succeeded"
    BY <2>1 DEF Summarised
  <2>3. r.steps[m].finish <= previous /\ r.steps[m].finish \in Times
    BY <2>2 DEF Summarised, PrefixConsistent, FieldsFit, Ended
  <2>4. r.steps[m].finish \in Int /\ previous \in Int /\ s.start \in Int
    BY <2>1, <2>3
  <2> QED
    BY <2>1, <2>2, <2>3, <2>4
<1>9. PrefixConsistent(r, k + 1)
  <2>1. \A n \in 1..(k + 1) : n \in 1..k \/ n = k + 1
    OBVIOUS
  <2>2. ASSUME NEW m \in 1..(k + 1), NEW n \in 1..(k + 1), m < n, Started(r.steps[n])
        PROVE  r.steps[m].outcome = "succeeded" /\ r.steps[m].finish <= r.steps[n].start
    <3>1. CASE n = k + 1
      BY <1>8, <2>2, <3>1
    <3>2. CASE n \in 1..k
      BY <2>2, <3>2 DEF PrefixConsistent
    <3> QED
      BY <2>1, <3>1, <3>2
  <2>3. \A n \in 1..(k + 1) :
          /\ NamesValid(r, n) /\ FieldsFit(r.steps[n])
          /\ r.finish # ZeroTime => Timely(r, r.steps[n])
          /\ r.status = "success" => r.steps[n].outcome = "succeeded"
    BY <2>1, <1>2, <1>5, <1>7 DEF PrefixConsistent
  <2> QED
    BY <2>2, <2>3 DEF PrefixConsistent
<1>10. Latest(s) \in Times /\ Stops(s) \in BOOLEAN /\ previous <= Latest(s)
  BY <1>3, <1>4, <1>6 DEF Latest, Stops, Ended, Started, StartValid, Outcomes
<1>11. Stops(s) <=> \E n \in 1..(k + 1) : r.steps[n].outcome # "succeeded"
  <2>1. Stops(s) <=> stopped \/ s.outcome # "succeeded"
    BY <1>3 DEF Stops, Outcomes
  <2>2. stopped <=> \E n \in 1..k : r.steps[n].outcome # "succeeded"
    BY DEF Summarised
  <2>3. (\E n \in 1..(k + 1) : r.steps[n].outcome # "succeeded") <=>
          s.outcome # "succeeded" \/ \E n \in 1..k : r.steps[n].outcome # "succeeded"
    OBVIOUS
  <2> QED
    BY <2>1, <2>2, <2>3
<1>12. \A n \in 1..(k + 1) : Ended(r.steps[n]) => r.steps[n].finish <= Latest(s)
  <2> SUFFICES ASSUME NEW n \in 1..(k + 1), Ended(r.steps[n])
               PROVE  r.steps[n].finish <= Latest(s)
    OBVIOUS
  <2>1. CASE n = k + 1
    BY <2>1, <1>4 DEF Latest, Ended
  <2>2. CASE n \in 1..k
    <3>1. r.steps[n].finish <= previous /\ r.steps[n].finish \in Times
      BY <2>2 DEF Summarised, PrefixConsistent, FieldsFit
    <3>2. /\ r.steps[n].finish \in Int /\ previous \in Int /\ Latest(s) \in Int
          /\ previous <= Latest(s)
      BY <3>1, <1>10
    <3> QED
      BY <3>1, <3>2
  <2> QED
    BY <2>1, <2>2
<1>13. \/ Latest(s) = r.start
       \/ \E n \in 1..(k + 1) : r.steps[n].outcome # "succeeded"
       \/ \E n \in 1..(k + 1) : Ended(r.steps[n]) /\ r.steps[n].finish = Latest(s)
  <2>1. CASE s.outcome = "succeeded"
    BY <2>1 DEF Latest, Ended
  <2>2. CASE s.outcome # "succeeded"
    BY <2>2
  <2> QED
    BY <2>1, <2>2
<1>14. r.start <= Latest(s)
  <2>1. r.start \in Int /\ previous \in Int /\ Latest(s) \in Int
    BY <1>1, <1>10
  <2>2. r.start <= previous /\ previous <= Latest(s)
    BY <1>10 DEF Summarised
  <2> QED
    BY <2>1, <2>2
<1>15. Summarised(r, k + 1, Latest(s), Stops(s))
  BY <1>11, <1>12, <1>13, <1>14 DEF Summarised
<1> QED
  BY <1>9, <1>10, <1>15

(* In a consistent document no step is refused. *)
LEMMA StepNeeded ==
  ASSUME NEW r \in ReportV5, NEW k \in Nat, k < Len(r.steps),
         previous \in Times, stopped \in BOOLEAN,
         PrefixConsistent(r, k), Summarised(r, k, previous, stopped),
         Consistent(r), r.finish # ZeroTime
  PROVE  StepValid(r, k + 1)
<1> DEFINE s == r.steps[k + 1]
<1> USE TimesAssumption, StepsType
<1>1. k + 1 \in 1..Len(r.steps) /\ \A m \in 1..k : m \in 1..Len(r.steps)
  OBVIOUS
<1>2. FieldsFit(s) /\ Timely(r, s) /\ (r.status = "success" => s.outcome = "succeeded")
  BY <1>1 DEF Consistent
<1>3. NamesValid(r, k + 1)
  BY <1>1 DEF Consistent, UniqueNames, NamesValid
<1>4. ASSUME Started(s) PROVE StartValid(r, s)
  <2>1. \A m \in 1..k : r.steps[m].outcome = "succeeded" /\ r.steps[m].finish <= s.start
    BY <1>1, <1>4 DEF Consistent, Causal
  <2>2. ~stopped
    BY <2>1 DEF Summarised
  <2>3. s.start \in Times /\ r.start <= s.start
    BY <1>2, <1>4 DEF FieldsFit, Timely
  <2>4. previous <= s.start
    BY <2>1, <2>3 DEF Summarised
  <2>5. WithinFinish(r, s.start)
    BY <1>2, <1>4 DEF Timely, WithinFinish
  <2> QED
    BY <2>2, <2>3, <2>4, <2>5 DEF StartValid
<1>5. Ended(s) => WithinFinish(r, s.finish) /\ s.finish \in Times /\ s.start <= s.finish
  BY <1>2 DEF Timely, WithinFinish, FieldsFit
<1> QED
  BY <1>2, <1>3, <1>4, <1>5 DEF StepValid, FieldsFit, Started, Ended, Outcomes

(* A fully read document is consistent. *)
LEMMA WholePrefix ==
  ASSUME NEW r \in ReportV5, PrefixConsistent(r, Len(r.steps)), r.finish # ZeroTime
  PROVE  Consistent(r)
<1> USE StepsType
<1>1. UniqueNames(r.steps)
  <2> SUFFICES ASSUME NEW m \in 1..Len(r.steps), NEW n \in 1..Len(r.steps)
               PROVE  /\ r.steps[n].step \in Names /\ r.steps[n].operation \in Names
                      /\ r.steps[n].invocation = r.steps[n].step
                      /\ m # n => /\ r.steps[m].step # r.steps[n].step
                                  /\ r.steps[m].operation # r.steps[n].operation
    BY DEF UniqueNames
  <2>1. NamesValid(r, m) /\ NamesValid(r, n)
    BY DEF PrefixConsistent
  <2>2. CASE m < n
    BY <2>1, <2>2 DEF NamesValid
  <2>3. CASE n < m
    BY <2>1, <2>3 DEF NamesValid
  <2> QED
    BY <2>1, <2>2, <2>3 DEF NamesValid
<1> QED
  BY <1>1 DEF PrefixConsistent, Consistent, Causal

(* An expected inventory is a consistent report of unstarted steps. *)
LEMMA ExpectedConsistent ==
  ASSUME NEW i \in InventoryV5
  PROVE  Expected(i) <=>
           /\ Consistent(AsReport(i))
           /\ \A n \in 1..Len(i.steps) : i.steps[n].outcome = "not_started"
<1> DEFINE r == AsReport(i)
<1>1. r \in ReportV5 /\ r.steps = i.steps /\ r.status = "incomplete" /\ r.finish = None
      /\ r.code = None /\ r.start = 0 /\ r.wellFormed = i.wellFormed
  BY AsReportType DEF AsReport
<1>2. HeaderValid(r) <=> i.wellFormed /\ Len(i.steps) \in 1..MaxSteps
  BY <1>1, TimesAssumption DEF HeaderValid
<1>3. ASSUME \A n \in 1..Len(i.steps) : i.steps[n].outcome = "not_started"
      PROVE  Causal(i.steps) /\ \A n \in 1..Len(i.steps) : Timely(r, i.steps[n])
  BY <1>3 DEF Causal, Timely, Started, Ended
<1> HIDE DEF r
<1> QED
  BY <1>1, <1>2, <1>3 DEF Expected, Consistent, r

-----------------------------------------------------------------------------
(* The document being read is a report, whichever it is. *)
LEMMA SubjectType ==
  ASSUME TypeOK
  PROVE  /\ Subject \in ReportV5 /\ Len(Subject.steps) \in Nat
         /\ reading = "inventory" => Subject = AsReport(inventory) /\ Subject.finish = None
         /\ reading # "inventory" => Subject = report
PROOF BY AsReportType, StepsType DEF TypeOK, Subject, AsReport

(* Every initial state satisfies the inductive invariant. *)
LEMMA InitInductive == Init => Inductive
<1> SUFFICES ASSUME Init PROVE Inductive
  OBVIOUS
<1>1. TypeOK
  <2>1. inventory \in InventoryV5 /\ report \in ReportV5 /\ Len(Subject.steps) \in Nat
    BY InputsAssumption, AsReportType, StepsType DEF Init, Subject
  <2>2. index = -1 /\ -1 <= Len(Subject.steps)
    BY <2>1 DEF Init
  <2>3. previous \in Times /\ stopped \in BOOLEAN
    BY TimesAssumption DEF Init
  <2>4. state \in {"none", "validated", "invalid", "mismatched"} /\ reading = "inventory"
    BY DEF Init
  <2> QED
    BY <2>1, <2>2, <2>3, <2>4 DEF TypeOK
<1> QED
  BY <1>1 DEF Init, Inductive, PrefixRead, ResultJustified

(* Accepting or refusing a header keeps the invariant. *)
LEMMA CheckHeaderInductive ==
  ASSUME Inductive, CheckHeader PROVE Inductive'
<1> USE SubjectType DEF Inductive
<1>1. TypeOK
  OBVIOUS
<1>2. CASE HeaderAccepted /\ index' = 0 /\ previous' = Subject.start /\ stopped' = FALSE
           /\ UNCHANGED <<inventory, report, reading, state>>
  <2>1. Subject' = Subject
    BY <1>2 DEF Subject
  <2>2. HeaderValid(Subject) /\ (reading = "inventory" => AllUnstarted)
    BY <1>2 DEF HeaderAccepted, AllUnstarted
  <2>3. TypeOK'
    <3>1. previous' \in Times /\ stopped' \in BOOLEAN
      BY <1>2, <2>2 DEF HeaderValid
    <3>2. index' = 0 /\ 0 <= Len(Subject.steps)
      BY <1>1, <1>2
    <3> QED
      BY <1>1, <1>2, <2>1, <3>1, <3>2 DEF TypeOK
  <2>4. PrefixConsistent(Subject, 0) /\ Summarised(Subject, 0, Subject.start, FALSE)
    BY <2>2, TimesAssumption DEF PrefixConsistent, Summarised, HeaderValid
  <2>5. PrefixRead'
    BY <1>2, <2>1, <2>2, <2>4 DEF PrefixRead, AllUnstarted
  <2>6. ResultJustified'
    BY <1>2, <2>1 DEF ResultJustified, NamesMatch
  <2> QED
    BY <2>3, <2>5, <2>6
<1>3. CASE ~HeaderAccepted /\ Refuse
  <2>1. reading \in {"inventory", "report"} /\ state = "none"
    BY DEF CheckHeader, ResultJustified
  <2>2. ~Expected(inventory) \/ ~Consistent(report)
    <3>1. CASE reading = "inventory"
      BY <1>1, <1>3, <3>1, ExpectedConsistent DEF HeaderAccepted, Consistent, TypeOK
    <3>2. CASE reading = "report"
      BY <1>1, <1>3, <3>2 DEF HeaderAccepted, Consistent
    <3> QED
      BY <2>1, <3>1, <3>2
  <2>3. TypeOK' /\ PrefixRead'
    BY <1>1, <1>3 DEF Refuse, TypeOK, PrefixRead
  <2>4. ResultJustified'
    BY <1>3, <2>2 DEF Refuse, ResultJustified
  <2> QED
    BY <2>3, <2>4
<1> QED
  BY <1>2, <1>3 DEF CheckHeader

(* Accepting or refusing a step keeps the invariant. *)
LEMMA CheckStepInductive ==
  ASSUME Inductive, CheckStep PROVE Inductive'
<1> USE SubjectType DEF Inductive
<1>1. /\ TypeOK /\ index \in Nat /\ index < Len(Subject.steps)
      /\ PrefixConsistent(Subject, index) /\ Summarised(Subject, index, previous, stopped)
      /\ reading \in {"inventory", "report"} /\ (reading = "inventory" => AllUnstarted)
      /\ Subject \in ReportV5
  BY DEF CheckStep, TypeOK, PrefixRead
<1> DEFINE s == Subject.steps[index + 1]
<1>2. CASE /\ StepValid(Subject, index + 1) /\ index' = index + 1
           /\ previous' = Latest(s) /\ stopped' = Stops(s)
           /\ UNCHANGED <<inventory, report, reading, state>>
  <2>1. Subject' = Subject
    BY <1>2 DEF Subject
  <2>2. /\ PrefixConsistent(Subject, index + 1)
        /\ Summarised(Subject, index + 1, Latest(s), Stops(s))
        /\ Latest(s) \in Times /\ Stops(s) \in BOOLEAN
    BY <1>1, <1>2, StepAccepted DEF TypeOK
  <2>3. TypeOK'
    BY <1>1, <1>2, <2>1, <2>2 DEF TypeOK
  <2>4. PrefixRead'
    BY <1>1, <1>2, <2>1, <2>2 DEF PrefixRead, AllUnstarted
  <2>5. ResultJustified'
    BY <1>2 DEF ResultJustified, NamesMatch
  <2> QED
    BY <2>3, <2>4, <2>5
<1>3. CASE ~StepValid(Subject, index + 1) /\ Refuse
  <2>1. Subject.finish # ZeroTime => ~Consistent(Subject)
    BY <1>1, <1>3, StepNeeded DEF TypeOK
  <2>2. report.finish # ZeroTime => ~Expected(inventory) \/ ~Consistent(report)
    <3>1. CASE reading = "inventory"
      <4>1. Subject.finish # ZeroTime /\ Subject = AsReport(inventory)
        BY <1>1, <3>1, TimesAssumption
      <4> QED
        BY <1>1, <2>1, <4>1, ExpectedConsistent DEF TypeOK
    <3>2. CASE reading = "report"
      BY <1>1, <2>1, <3>2
    <3> QED
      BY <1>1, <3>1, <3>2
  <2>3. TypeOK' /\ PrefixRead'
    BY <1>1, <1>3 DEF Refuse, TypeOK, PrefixRead
  <2>4. ResultJustified'
    BY <1>3, <2>2 DEF Refuse, ResultJustified, NamesMatch
  <2> QED
    BY <2>3, <2>4
<1> QED
  BY <1>2, <1>3 DEF CheckStep

(* A fully read document leads on to the report or to the comparison. *)
LEMMA FinishInductive ==
  ASSUME Inductive, Finish PROVE Inductive'
<1> USE SubjectType DEF Inductive
<1>1. /\ TypeOK /\ index = Len(Subject.steps) /\ PrefixConsistent(Subject, index)
      /\ reading \in {"inventory", "report"} /\ (reading = "inventory" => AllUnstarted)
      /\ Subject \in ReportV5 /\ state = "none"
  BY DEF Finish, TypeOK, PrefixRead, ResultJustified
<1>2. Subject.finish # ZeroTime => Consistent(Subject)
  BY <1>1, WholePrefix
<1>3. CASE reading = "inventory"
  <2>1. Expected(inventory)
    BY <1>1, <1>2, <1>3, ExpectedConsistent, TimesAssumption DEF TypeOK, AllUnstarted
  <2>2. Len(report.steps) \in Nat
    BY <1>1, StepsType DEF TypeOK
  <2>3. TypeOK'
    BY <1>1, <1>3, <2>2 DEF Finish, TypeOK, Subject
  <2> QED
    BY <1>1, <1>3, <2>1, <2>3 DEF Finish, PrefixRead, ResultJustified
<1>4. CASE reading = "report"
  <2>1. Expected(inventory) /\ (report.finish # ZeroTime => Consistent(report))
    BY <1>1, <1>2, <1>4 DEF ResultJustified
  <2>2. TypeOK' /\ PrefixRead'
    BY <1>1, <1>4 DEF Finish, TypeOK, PrefixRead
  <2>3. ResultJustified'
    BY <1>4, <2>1 DEF Finish, ResultJustified, NamesMatch
  <2> QED
    BY <2>2, <2>3
<1> QED
  BY <1>1, <1>3, <1>4

(* The inductive invariant holds in every reachable state. *)
THEOREM SpecInductive == Spec => []Inductive
<1>1. Inductive /\ [Next]_vars => Inductive'
  <2> SUFFICES ASSUME Inductive, [Next]_vars PROVE Inductive'
    OBVIOUS
  <2>1. CASE UNCHANGED vars
    BY <2>1 DEF vars, Inductive, TypeOK, PrefixRead, ResultJustified, Subject, AllUnstarted,
       NamesMatch
  <2> QED
    BY <2>1, CheckHeaderInductive, CheckStepInductive, FinishInductive DEF Next
<1> QED
  BY <1>1, InitInductive, PTL DEF Spec

(* The one-pass check of an executor report accepts exactly the reports     *)
(* that are consistent as a whole and name the expected inventory.          *)
THEOREM SpecValidatedIffConsistent == Spec => []ValidatedIffConsistent
<1>1. Inductive => ValidatedIffConsistent
  BY DEF Inductive, TypeOK, ResultJustified, ValidatedIffConsistent
<1> QED
  BY <1>1, SpecInductive, PTL

=============================================================================
