------------------------ MODULE BrowserTrace_proofs ------------------------
(***************************************************************************)
(* Proofs about BrowserTrace, for every set of attempts, requests and      *)
(* questions and every bound.  The inductive invariant is ReaderInductive; its   *)
(* parts are framed first (which variables each part reads), then one      *)
(* lemma per action proves the parts that action can disturb.              *)
(***************************************************************************)
EXTENDS BrowserEvidence, TLAPS

(* What the observer does with its state, whatever the length of the trace. *)
ReaderNext == Frame \/ Event

(* The variables each part of the inductive invariant reads. *)
orderVars    == <<attempt, sent, outcomes, closedRegistration>>
resolveVars  == <<attempt, outcomes, resolved, lastMessage>>
pendingVars  == <<attempt, pending, launchDone, joinDone, stopped, ordinal, sent, outcomes,
                  lastStarted, closedRegistration, prompt, asked, granted>>
leavesVars   == <<attempt, sent, lastStarted, outcomes, lastMessage, ordinal>>
haltVars     == <<attempt, stopped, sent, outcomes, terminal>>
orderedVars  == <<attempt, joinDone, launchDone, released, verdict, credentialsLeased,
                  acquired, ordinal, lastStarted>>
savingVars   == <<attempt, candidate, outcomes, saved, humanDenied, joinDone,
                  generationCurrent>>
fallbackVars == <<attempt, fellBack, acquired>>
verdictVars  == <<attempt, nonDispatch, joinDone, ordinal, verdict, observation, outcomes,
                  sent, closedRegistration, successor>>

(* A plan has finitely many leaves, numbered from one. *)
LEMMA LeavesFinite ==
  ASSUME attempt \in Attempts
  PROVE  /\ Len(attempt.calls) \in Nat
         /\ attempt.calls \in Seq(Call)
         /\ \A i \in Leaves : i \in Nat /\ i > 0 /\ attempt.calls[i] \in Call
PROOF BY AttemptsAssumption DEF Attempt, Leaves

(* Each part is preserved by a step that leaves what it reads alone. *)
LEMMA FrameDispatchInOrder ==
  ASSUME DispatchInOrder, UNCHANGED orderVars PROVE DispatchInOrder'
PROOF BY DEF DispatchInOrder, orderVars, Leaves, Kind

LEMMA FrameResolvedByLastMessage ==
  ASSUME ResolvedByLastMessage, UNCHANGED resolveVars PROVE ResolvedByLastMessage'
PROOF BY DEF ResolvedByLastMessage, resolveVars, Leaves

LEMMA FramePendingJustified ==
  ASSUME PendingJustified, UNCHANGED pendingVars PROVE PendingJustified'
PROOF BY DEF PendingJustified, pendingVars, Leaves, EarlierComplete, Kind, CarriesQuestion

LEMMA FrameLeavesConsistent ==
  ASSUME LeavesConsistent, UNCHANGED leavesVars PROVE LeavesConsistent'
PROOF BY DEF LeavesConsistent, leavesVars, Leaves

LEMMA FrameStoppedIsTerminal ==
  ASSUME StoppedIsTerminal, UNCHANGED haltVars PROVE StoppedIsTerminal'
PROOF BY DEF StoppedIsTerminal, haltVars, Leaves

LEMMA FramePromptFresh ==
  ASSUME PromptFresh, UNCHANGED askVars PROVE PromptFresh'
PROOF BY DEF PromptFresh, askVars

LEMMA FrameStagesOrdered ==
  ASSUME StagesOrdered, UNCHANGED orderedVars PROVE StagesOrdered'
PROOF BY DEF StagesOrdered, orderedVars

LEMMA FrameSaveJustified ==
  ASSUME SaveJustified, UNCHANGED savingVars PROVE SaveJustified'
PROOF BY DEF SaveJustified, savingVars, MayStage, SaveAllowed, Kind

LEMMA FrameFallbackNarrowed ==
  ASSUME FallbackNarrowed, UNCHANGED fallbackVars PROVE FallbackNarrowed'
PROOF BY DEF FallbackNarrowed, fallbackVars

LEMMA FrameResultJustified ==
  ASSUME ResultJustified, UNCHANGED verdictVars PROVE ResultJustified'
PROOF BY DEF ResultJustified, verdictVars, ContextsClosed, Leaves, Kind

(* Every initial state satisfies the inductive invariant. *)
LEMMA InitInductive == Init => ReaderInductive
<1> SUFFICES ASSUME Init PROVE ReaderInductive
  OBVIOUS
<1> USE LeavesFinite
<1>1. ReaderTypeOK
  BY NoneAssumption DEF Init, ReaderTypeOK, Outcomes, Message, NoMessage, Prompt, NoPrompt, Leaves
<1>2. DispatchInOrder /\ ResolvedByLastMessage /\ PendingJustified /\ StoppedIsTerminal
  BY DEF Init, DispatchInOrder, ResolvedByLastMessage, PendingJustified, StoppedIsTerminal, Leaves
<1>3. LeavesConsistent
  BY DEF Init, LeavesConsistent, Leaves
<1>4. PromptFresh /\ StagesOrdered /\ SaveJustified /\ FallbackNarrowed
  BY DEF Init, PromptFresh, NoPrompt, StagesOrdered, SaveJustified, FallbackNarrowed
<1>5. ResultJustified
  BY DEF Init, ResultJustified
<1> QED
  BY <1>1, <1>2, <1>3, <1>4, <1>5 DEF ReaderInductive

(* The checks before the loop either open the reading or end it. *)
LEMMA AdmitInductive ==
  ASSUME ReaderInductive, Admit
  PROVE  ReaderInductive'
<1> USE LeavesFinite DEF ReaderInductive, resultVars, leafVars, stageVars, accessVars, stopVars,
      saveVars, sendVars, askVars, traceVars
<1>1. ReaderTypeOK'
  BY DEF ReaderTypeOK, Admit, Leaves
<1>2. StagesOrdered'
  BY <1>1 DEF ReaderTypeOK, Admit, StagesOrdered, Idle
<1>3. ResultJustified'
  BY <1>1 DEF ReaderTypeOK, Admit, ResultJustified, ContextsClosed, Leaves, Kind, Idle
<1>4. QED
  BY <1>1, <1>2, <1>3, FrameDispatchInOrder, FrameResolvedByLastMessage, FramePendingJustified, FrameLeavesConsistent, FrameStoppedIsTerminal, FramePromptFresh, FrameSaveJustified, FrameFallbackNarrowed
  DEF Admit, orderVars, resolveVars, pendingVars, leavesVars, haltVars, orderedVars, savingVars,
      fallbackVars, verdictVars

(* A refusal only ends the reading. *)
LEMMA RefuseInductive ==
  ASSUME ReaderInductive, Refuse
  PROVE  ReaderInductive'
<1> USE LeavesFinite DEF ReaderInductive, resultVars, leafVars, stageVars, accessVars, stopVars,
      saveVars, sendVars, askVars, traceVars
<1>1. ReaderTypeOK'
  BY DEF ReaderTypeOK, Refuse, Leaves
<1>2. StagesOrdered'
  BY <1>1 DEF ReaderTypeOK, Refuse, StagesOrdered, Idle
<1>3. ResultJustified'
  BY <1>1 DEF ReaderTypeOK, Refuse, ResultJustified, ContextsClosed, Leaves, Kind, Idle
<1>4. QED
  BY <1>1, <1>2, <1>3, FrameDispatchInOrder, FrameResolvedByLastMessage, FramePendingJustified, FrameLeavesConsistent, FrameStoppedIsTerminal, FramePromptFresh, FrameSaveJustified, FrameFallbackNarrowed
  DEF Refuse, orderVars, resolveVars, pendingVars, leavesVars, haltVars, orderedVars, savingVars,
      fallbackVars, verdictVars

(* The credential lease is taken before launch. *)
LEMMA CredentialLeaseInductive ==
  ASSUME ReaderInductive, CredentialLease
  PROVE  ReaderInductive'
<1> USE LeavesFinite DEF ReaderInductive, resultVars, leafVars, stageVars, accessVars, stopVars,
      saveVars, sendVars, askVars, traceVars
<1>1. ReaderTypeOK'
  BY DEF ReaderTypeOK, CredentialLease, Leaves
<1>2. StagesOrdered'
  BY <1>1 DEF ReaderTypeOK, CredentialLease, StagesOrdered, Idle
<1>3. QED
  BY <1>1, <1>2, FrameDispatchInOrder, FrameResolvedByLastMessage, FramePendingJustified, FrameLeavesConsistent, FrameStoppedIsTerminal, FramePromptFresh, FrameSaveJustified, FrameFallbackNarrowed, FrameResultJustified
  DEF CredentialLease, orderVars, resolveVars, pendingVars, leavesVars, haltVars, orderedVars, savingVars,
      fallbackVars, verdictVars

(* Session acquisition: a fallback has no rights left. *)
LEMMA SessionAcquireInductive ==
  ASSUME ReaderInductive, NEW i \in Leaves, NEW outcome \in {"fresh", "reuse"} \cup Fallen, SessionAcquire(i, outcome)
  PROVE  ReaderInductive'
<1> USE LeavesFinite DEF ReaderInductive, resultVars, leafVars, stageVars, accessVars, stopVars,
      saveVars, sendVars, askVars, traceVars
<1>1. ReaderTypeOK'
  BY DEF ReaderTypeOK, SessionAcquire, Leaves
<1>2. StagesOrdered'
  BY <1>1 DEF ReaderTypeOK, SessionAcquire, StagesOrdered, Idle
<1>3. FallbackNarrowed'
  BY DEF ReaderTypeOK, SessionAcquire, FallbackAllowed, Fallen, FallbackNarrowed
<1>4. QED
  BY <1>1, <1>2, <1>3, FrameDispatchInOrder, FrameResolvedByLastMessage, FramePendingJustified, FrameLeavesConsistent, FrameStoppedIsTerminal, FramePromptFresh, FrameSaveJustified, FrameResultJustified
  DEF SessionAcquire, orderVars, resolveVars, pendingVars, leavesVars, haltVars, orderedVars, savingVars,
      fallbackVars, verdictVars

(* Launch needs the lease and the observed access. *)
LEMMA LaunchInductive ==
  ASSUME ReaderInductive, Launch
  PROVE  ReaderInductive'
<1> USE LeavesFinite DEF ReaderInductive, resultVars, leafVars, stageVars, accessVars, stopVars,
      saveVars, sendVars, askVars, traceVars
<1>1. ReaderTypeOK'
  BY DEF ReaderTypeOK, Launch, Leaves
<1>2. PendingJustified'
  BY <1>1 DEF ReaderTypeOK, Launch, PendingJustified, Leaves, EarlierComplete, Kind, CarriesQuestion, Idle
<1>3. StagesOrdered'
  BY <1>1 DEF ReaderTypeOK, Launch, StagesOrdered, Idle
<1>4. QED
  BY <1>1, <1>2, <1>3, FrameDispatchInOrder, FrameResolvedByLastMessage, FrameLeavesConsistent, FrameStoppedIsTerminal, FramePromptFresh, FrameSaveJustified, FrameFallbackNarrowed, FrameResultJustified
  DEF Launch, orderVars, resolveVars, pendingVars, leavesVars, haltVars, orderedVars, savingVars,
      fallbackVars, verdictVars

(* A new question is unanswered and has a fresh number. *)
LEMMA QuestionInductive ==
  ASSUME ReaderInductive, NEW i \in Leaves, NEW kind \in QuestionKinds, NEW q \in Questions, Question(i, kind, q)
  PROVE  ReaderInductive'
<1> USE LeavesFinite DEF ReaderInductive, resultVars, leafVars, stageVars, accessVars, stopVars,
      saveVars, sendVars, askVars, traceVars
<1>1. ReaderTypeOK'
  BY DEF ReaderTypeOK, Question, NewPrompt, Prompt, Leaves
<1>2. PendingJustified'
  BY <1>1 DEF ReaderTypeOK, Question, Running, Idle, PendingJustified, Leaves, EarlierComplete, Kind, CarriesQuestion, Idle
<1>3. PromptFresh'
  BY <1>1, NoneAssumption DEF ReaderTypeOK, Grants, Question, NewPrompt, PromptFresh
<1>4. QED
  BY <1>1, <1>2, <1>3, FrameDispatchInOrder, FrameResolvedByLastMessage, FrameLeavesConsistent, FrameStoppedIsTerminal, FrameStagesOrdered, FrameSaveJustified, FrameFallbackNarrowed, FrameResultJustified
  DEF Question, Running, Idle, orderVars, resolveVars, pendingVars, leavesVars, haltVars, orderedVars, savingVars,
      fallbackVars, verdictVars

(* A private answer approves the current question. *)
LEMMA CheckpointInputInductive ==
  ASSUME ReaderInductive, NEW i \in Leaves, NEW q \in OptionalQuestion, CheckpointInput(i, q)
  PROVE  ReaderInductive'
<1> USE LeavesFinite DEF ReaderInductive, resultVars, leafVars, stageVars, accessVars, stopVars,
      saveVars, sendVars, askVars, traceVars
<1>1. ReaderTypeOK'
  <2>1. prompt' \in Prompt /\ prompt'.leaf = prompt.leaf
    BY DEF ReaderTypeOK, CheckpointInput, Prompt
  <2>2. prompt.question \in Questions
    BY DEF ReaderTypeOK, CheckpointInput, Answerable, Prompt
  <2>3. approved' \subseteq Grants
    BY <2>2 DEF ReaderTypeOK, CheckpointInput, Grants
  <2> QED
    BY <2>1, <2>3 DEF ReaderTypeOK, CheckpointInput, Leaves
<1>2. PendingJustified'
  BY <1>1 DEF ReaderTypeOK, CheckpointInput, Answerable, Idle, PendingJustified, Leaves, EarlierComplete, Kind, CarriesQuestion, Idle
<1>3. PromptFresh'
  BY <1>1 DEF ReaderTypeOK, CheckpointInput, Answerable, Idle, PromptFresh
<1>4. QED
  BY <1>1, <1>2, <1>3, FrameDispatchInOrder, FrameResolvedByLastMessage, FrameLeavesConsistent, FrameStoppedIsTerminal, FrameStagesOrdered, FrameSaveJustified, FrameFallbackNarrowed, FrameResultJustified
  DEF CheckpointInput, Answerable, Idle, orderVars, resolveVars, pendingVars, leavesVars, haltVars, orderedVars, savingVars,
      fallbackVars, verdictVars

(* An approval approves the current question. *)
LEMMA ApproveInductive ==
  ASSUME ReaderInductive, NEW i \in Leaves, NEW answer, NEW q \in OptionalQuestion, Approve(i, answer, q)
  PROVE  ReaderInductive'
<1> USE LeavesFinite DEF ReaderInductive, resultVars, leafVars, stageVars, accessVars, stopVars,
      saveVars, sendVars, askVars, traceVars
<1>1. ReaderTypeOK'
  <2>1. prompt' \in Prompt /\ prompt'.leaf = prompt.leaf
    BY DEF ReaderTypeOK, Approve, Prompt
  <2>2. prompt.question \in Questions
    BY DEF ReaderTypeOK, Approve, Answerable, Prompt
  <2>3. approved' \subseteq Grants
    BY <2>2 DEF ReaderTypeOK, Approve, Grants
  <2> QED
    BY SMTT(30), <2>1, <2>3 DEF ReaderTypeOK, Approve, Leaves
<1>2. PendingJustified'
  BY <1>1 DEF ReaderTypeOK, Approve, Answerable, Idle, PendingJustified, Leaves, EarlierComplete, Kind, CarriesQuestion, Idle
<1>3. PromptFresh'
  BY <1>1 DEF ReaderTypeOK, Approve, Answerable, Idle, PromptFresh
<1>4. QED
  BY <1>1, <1>2, <1>3, FrameDispatchInOrder, FrameResolvedByLastMessage, FrameLeavesConsistent, FrameStoppedIsTerminal, FrameStagesOrdered, FrameSaveJustified, FrameFallbackNarrowed, FrameResultJustified
  DEF Approve, Answerable, Idle, orderVars, resolveVars, pendingVars, leavesVars, haltVars, orderedVars, savingVars,
      fallbackVars, verdictVars

(* A denial stops the run before anything can have been saved. *)
LEMMA DenyInductive ==
  ASSUME ReaderInductive, NEW i \in Leaves, NEW q \in OptionalQuestion, Deny(i, q)
  PROVE  ReaderInductive'
<1> USE LeavesFinite DEF ReaderInductive, resultVars, leafVars, stageVars, accessVars, stopVars,
      saveVars, sendVars, askVars, traceVars
<1>1. ReaderTypeOK'
  <2>1. prompt' \in Prompt /\ prompt'.leaf = prompt.leaf
    BY DEF ReaderTypeOK, Deny, Prompt
  <2>2. terminal' \in [Leaves -> BOOLEAN]
    BY DEF ReaderTypeOK, Deny, StopExecution
  <2> QED
    BY SMTT(30), <2>1, <2>2 DEF ReaderTypeOK, Deny, Leaves
<1>2. PendingJustified'
  BY <1>1 DEF ReaderTypeOK, Deny, Answerable, Idle, PendingJustified, Leaves, EarlierComplete, Kind, CarriesQuestion, Idle
<1>3. StoppedIsTerminal'
  BY <1>1 DEF ReaderTypeOK, Deny, Answerable, Idle, StoppedIsTerminal, Leaves, StopExecution
<1>4. PromptFresh'
  BY <1>1 DEF ReaderTypeOK, Deny, Answerable, Idle, PromptFresh
<1>5. SaveJustified'
  BY <1>1 DEF ReaderTypeOK, Deny, Answerable, Idle, SaveJustified, SaveAllowed, MayStage, Kind
<1>6. QED
  BY <1>1, <1>2, <1>3, <1>4, <1>5, FrameDispatchInOrder, FrameResolvedByLastMessage, FrameLeavesConsistent, FrameStagesOrdered, FrameFallbackNarrowed, FrameResultJustified
  DEF Deny, Answerable, Idle, orderVars, resolveVars, pendingVars, leavesVars, haltVars, orderedVars, savingVars,
      fallbackVars, verdictVars

(* A recheck grants the approved question. *)
LEMMA AuthorityRecheckInductive ==
  ASSUME ReaderInductive, NEW i \in Leaves, NEW q \in OptionalQuestion, AuthorityRecheck(i, q)
  PROVE  ReaderInductive'
<1> USE LeavesFinite DEF ReaderInductive, resultVars, leafVars, stageVars, accessVars, stopVars,
      saveVars, sendVars, askVars, traceVars
<1>1. ReaderTypeOK'
  <2>1. prompt' \in Prompt /\ prompt'.leaf = prompt.leaf
    BY DEF ReaderTypeOK, AuthorityRecheck, Prompt
  <2>2. prompt.question \in Questions
    BY DEF ReaderTypeOK, AuthorityRecheck, Answerable, Prompt
  <2>3. granted' \subseteq Grants
    BY <2>2 DEF ReaderTypeOK, AuthorityRecheck, Grants
  <2> QED
    BY SMTT(30), <2>1, <2>3 DEF ReaderTypeOK, AuthorityRecheck, Leaves
<1>2. PendingJustified'
  BY <1>1 DEF ReaderTypeOK, AuthorityRecheck, Answerable, Idle, PendingJustified, Leaves, EarlierComplete, Kind, CarriesQuestion, Idle
<1>3. PromptFresh'
  BY <1>1 DEF ReaderTypeOK, AuthorityRecheck, Answerable, Idle, PromptFresh
<1>4. QED
  BY <1>1, <1>2, <1>3, FrameDispatchInOrder, FrameResolvedByLastMessage, FrameLeavesConsistent, FrameStoppedIsTerminal, FrameStagesOrdered, FrameSaveJustified, FrameFallbackNarrowed, FrameResultJustified
  DEF AuthorityRecheck, Answerable, Idle, orderVars, resolveVars, pendingVars, leavesVars, haltVars, orderedVars, savingVars,
      fallbackVars, verdictVars

(* A refused claim stops the run. *)
LEMMA ClaimRefusedInductive ==
  ASSUME ReaderInductive, ClaimRefused
  PROVE  ReaderInductive'
<1> USE LeavesFinite DEF ReaderInductive, resultVars, leafVars, stageVars, accessVars, stopVars,
      saveVars, sendVars, askVars, traceVars
<1>1. ReaderTypeOK'
  BY DEF ReaderTypeOK, ClaimRefused, Running, Stop, Leaves, StopExecution
<1>2. PendingJustified'
  BY <1>1 DEF ReaderTypeOK, ClaimRefused, Running, Stop, PendingJustified, Leaves, EarlierComplete, Kind, CarriesQuestion, Idle
<1>3. StoppedIsTerminal'
  BY <1>1 DEF ReaderTypeOK, ClaimRefused, Running, Stop, StoppedIsTerminal, Leaves, StopExecution
<1>4. QED
  BY <1>1, <1>2, <1>3, FrameDispatchInOrder, FrameResolvedByLastMessage, FrameLeavesConsistent, FramePromptFresh, FrameStagesOrdered, FrameSaveJustified, FrameFallbackNarrowed, FrameResultJustified
  DEF ClaimRefused, Running, Stop, orderVars, resolveVars, pendingVars, leavesVars, haltVars, orderedVars, savingVars,
      fallbackVars, verdictVars

(* A failed checkpoint stops the run. *)
LEMMA CheckpointFailureInductive ==
  ASSUME ReaderInductive, NEW i \in Leaves, CheckpointFailure(i)
  PROVE  ReaderInductive'
<1> USE LeavesFinite DEF ReaderInductive, resultVars, leafVars, stageVars, accessVars, stopVars,
      saveVars, sendVars, askVars, traceVars
<1>1. ReaderTypeOK'
  BY DEF ReaderTypeOK, CheckpointFailure, Running, Stop, Leaves, StopExecution
<1>2. PendingJustified'
  BY <1>1 DEF ReaderTypeOK, CheckpointFailure, Stop, PendingJustified, Leaves, EarlierComplete, Kind, CarriesQuestion, Idle
<1>3. StoppedIsTerminal'
  BY <1>1 DEF ReaderTypeOK, CheckpointFailure, Stop, StoppedIsTerminal, Leaves, StopExecution
<1>4. QED
  BY <1>1, <1>2, <1>3, FrameDispatchInOrder, FrameResolvedByLastMessage, FrameLeavesConsistent, FramePromptFresh, FrameStagesOrdered, FrameSaveJustified, FrameFallbackNarrowed, FrameResultJustified
  DEF CheckpointFailure, Stop, orderVars, resolveVars, pendingVars, leavesVars, haltVars, orderedVars, savingVars,
      fallbackVars, verdictVars

(* An initial claim is justified when it is made. *)
LEMMA ClaimInitialInductive ==
  ASSUME ReaderInductive, NEW i \in Leaves, NEW request \in Requests, NEW q \in OptionalQuestion, ClaimInitial(i, request, q)
  PROVE  ReaderInductive'
<1> USE LeavesFinite DEF ReaderInductive, resultVars, leafVars, stageVars, accessVars, stopVars,
      saveVars, sendVars, askVars, traceVars
<1>1. ReaderTypeOK'
  <2>1. InitialKind(Kind(i)) \in MessageKinds
    BY DEF ReaderTypeOK, InitialKind, Kind, Call, Kinds, MessageKinds
  <2>2. pending' \in Message
    BY <2>1 DEF ReaderTypeOK, ClaimInitial, Claim, Message
  <2> QED
    BY <2>2 DEF ReaderTypeOK, ClaimInitial, Claim, Leaves
<1>2. PendingJustified'
  BY NoneAssumption DEF ReaderTypeOK, Prompt, Running, Idle, ClaimInitial, Claim, Consented,
     PendingJustified, PromptFresh, NoPrompt, Leaves, EarlierComplete, Kind, CarriesQuestion
<1>3. QED
  BY <1>1, <1>2, FrameDispatchInOrder, FrameResolvedByLastMessage, FrameLeavesConsistent, FrameStoppedIsTerminal, FramePromptFresh, FrameStagesOrdered, FrameSaveJustified, FrameFallbackNarrowed, FrameResultJustified
  DEF ClaimInitial, Running, Claim, orderVars, resolveVars, pendingVars, leavesVars, haltVars, orderedVars, savingVars,
      fallbackVars, verdictVars

(* A continuation claim is justified when it is made. *)
LEMMA ClaimContinuationInductive ==
  ASSUME ReaderInductive, NEW i \in Leaves, NEW request \in Requests, NEW q \in OptionalQuestion, ClaimContinuation(i, request, q)
  PROVE  ReaderInductive'
<1> USE LeavesFinite DEF ReaderInductive, resultVars, leafVars, stageVars, accessVars, stopVars,
      saveVars, sendVars, askVars, traceVars
<1>1. ReaderTypeOK'
  <2>1. ContinuationKind(prompt.kind) \in MessageKinds
    BY DEF ClaimContinuation, QuestionKinds, ContinuationKind, MfaKinds, CheckpointKinds,
       MessageKinds
  <2>2. pending' \in Message
    BY <2>1 DEF ReaderTypeOK, ClaimContinuation, Claim, Message
  <2> QED
    BY <2>2 DEF ReaderTypeOK, ClaimContinuation, Claim, Leaves
<1>2. PendingJustified'
  BY NoneAssumption DEF ReaderTypeOK, Prompt, Running, Idle, ClaimContinuation, Claim, Consented,
     PendingJustified, PromptFresh, NoPrompt, Leaves, EarlierComplete, Kind, CarriesQuestion,
     QuestionKinds, MfaKinds, CheckpointKinds
<1>3. QED
  BY <1>1, <1>2, FrameDispatchInOrder, FrameResolvedByLastMessage, FrameLeavesConsistent, FrameStoppedIsTerminal, FramePromptFresh, FrameStagesOrdered, FrameSaveJustified, FrameFallbackNarrowed, FrameResultJustified
  DEF ClaimContinuation, Running, Claim, orderVars, resolveVars, pendingVars, leavesVars, haltVars, orderedVars, savingVars,
      fallbackVars, verdictVars

(* Sending extends the started prefix by at most one leaf and spends the question. *)
LEMMA SendInductive ==
  ASSUME ReaderInductive, NEW i \in Leaves, NEW q \in OptionalQuestion, Send(i, q)
  PROVE  ReaderInductive'
<1> USE LeavesFinite DEF ReaderInductive, resultVars, leafVars, stageVars, accessVars, stopVars,
      saveVars, sendVars, askVars, traceVars
<1>1. ReaderTypeOK'
  <2>1. prompt' \in Prompt /\ prompt'.leaf = 0 /\ pending' \in Message
    BY DEF Send, NoPrompt, Prompt, NoMessage, Message
  <2>2. ordinal' \in Nat /\ lastStarted' \in {0} \cup Leaves
    BY DEF ReaderTypeOK, Send, LastStarted, Message, Leaves
  <2>3. spent' \subseteq Grants
    BY DEF ReaderTypeOK, Send, PendingJustified, Prompt, Grants
  <2>4. /\ outcomes' \in [Leaves -> Outcomes] /\ sent' \in [Leaves -> BOOLEAN]
        /\ lastMessage' \in [Leaves -> Message]
    BY DEF ReaderTypeOK, Send, Outcomes
  <2> QED
    BY <2>1, <2>2, <2>3, <2>4 DEF ReaderTypeOK, Send, Leaves
<1>2. DispatchInOrder'
  <2> SUFFICES ASSUME NEW j \in Leaves, NEW k \in Leaves, j < k, sent'[k]
               PROVE  /\ outcomes'[j] = "succeeded"
                      /\ Kind(j) = "registration" => closedRegistration[j]
    BY DEF DispatchInOrder, Send, Leaves, Kind
  <2>1. CASE sent[k]
    <3>1. outcomes[j] = "succeeded" /\ (Kind(j) = "registration" => closedRegistration[j])
      BY <2>1 DEF DispatchInOrder
    <3>2. j # i
      BY <3>1 DEF Send, PendingJustified, LeavesConsistent
    <3> QED
      BY <3>1, <3>2 DEF Send, ReaderTypeOK
  <2>2. CASE ~sent[k]
    <3>1. k = i /\ EarlierComplete(i)
      BY <2>2 DEF Send, PendingJustified, ReaderTypeOK
    <3> QED
      BY <3>1 DEF Send, EarlierComplete, Leaves, ReaderTypeOK
  <2> QED
    BY <2>1, <2>2
<1>3. ResolvedByLastMessage'
  BY <1>1 DEF ReaderTypeOK, Send, ResolvedByLastMessage, Leaves
<1>4. PendingJustified'
  BY <1>1 DEF ReaderTypeOK, Send, PendingJustified, Leaves, EarlierComplete, Kind, CarriesQuestion, Idle
<1>5. LeavesConsistent'
  BY <1>1 DEF ReaderTypeOK, Send, LastStarted, PendingJustified, LeavesConsistent, Leaves
<1>6. StoppedIsTerminal'
  BY <1>1 DEF ReaderTypeOK, Send, StoppedIsTerminal, Leaves, StopExecution
<1>7. PromptFresh'
  BY <1>1 DEF ReaderTypeOK, Grants, Send, PromptFresh, NoPrompt, CarriesQuestion, PendingJustified
<1>8. StagesOrdered'
  BY <1>1 DEF ReaderTypeOK, Send, PendingJustified, StagesOrdered
<1>9. SaveJustified'
  BY <1>1 DEF ReaderTypeOK, Send, PendingJustified, LeavesConsistent, SaveJustified, SaveAllowed, MayStage, Kind, Leaves
<1>10. ResultJustified'
  BY <1>1 DEF ReaderTypeOK, Send, ResultJustified, ContextsClosed, Leaves, Kind, Idle
<1>11. QED
  BY <1>1, <1>2, <1>3, <1>4, <1>5, <1>6, <1>7, <1>8, <1>9, <1>10, FrameFallbackNarrowed
  DEF Send, orderVars, resolveVars, pendingVars, leavesVars, haltVars, orderedVars, savingVars,
      fallbackVars, verdictVars

(* A response settles an open leaf. *)
LEMMA ResponseInductive ==
  ASSUME ReaderInductive, NEW i \in Leaves, NEW n \in 1..ordinal, NEW outcome \in {"succeeded", "failed", "unknown"}, Response(i, n, outcome)
  PROVE  ReaderInductive'
<1> USE LeavesFinite DEF ReaderInductive, resultVars, leafVars, stageVars, accessVars, stopVars,
      saveVars, sendVars, askVars, traceVars
<1>1. ReaderTypeOK'
  BY BoundsAssumption DEF ReaderTypeOK, Response, Leaves, Outcomes, StopExecution
<1>2. DispatchInOrder'
  BY <1>1 DEF ReaderTypeOK, Response, DispatchInOrder, Leaves, Kind
<1>3. ResolvedByLastMessage'
  BY <1>1, BoundsAssumption DEF ReaderTypeOK, Response, AnswersLast, ResolvedByLastMessage, Leaves
<1>4. PendingJustified'
  BY <1>1 DEF ReaderTypeOK, Response, PendingJustified, Leaves, EarlierComplete, Kind, CarriesQuestion, Idle
<1>5. LeavesConsistent'
  BY <1>1 DEF ReaderTypeOK, Response, LeavesConsistent, Leaves
<1>6. StoppedIsTerminal'
  BY <1>1 DEF ReaderTypeOK, Response, StoppedIsTerminal, Leaves, StopExecution
<1>7. SaveJustified'
  BY <1>1 DEF ReaderTypeOK, Response, SaveJustified, SaveAllowed, MayStage, Kind
<1>8. ResultJustified'
  BY <1>1 DEF ReaderTypeOK, Response, ResultJustified, ContextsClosed, Leaves, Kind, Idle
<1>9. QED
  BY <1>1, <1>2, <1>3, <1>4, <1>5, <1>6, <1>7, <1>8, FramePromptFresh, FrameStagesOrdered, FrameFallbackNarrowed
  DEF Response, orderVars, resolveVars, pendingVars, leavesVars, haltVars, orderedVars, savingVars,
      fallbackVars, verdictVars

(* A driver error never touches a known outcome. *)
LEMMA DriverErrorInductive ==
  ASSUME ReaderInductive, NEW i \in Leaves, DriverError(i)
  PROVE  ReaderInductive'
<1> USE LeavesFinite DEF ReaderInductive, resultVars, leafVars, stageVars, accessVars, stopVars,
      saveVars, sendVars, askVars, traceVars
<1>1. ReaderTypeOK'
  BY DEF ReaderTypeOK, DriverError, Leaves, Outcomes, StopExecution
<1>2. DispatchInOrder'
  BY <1>1 DEF ReaderTypeOK, DriverError, DispatchInOrder, Leaves, Kind
<1>3. ResolvedByLastMessage'
  BY <1>1 DEF ReaderTypeOK, DriverError, ResolvedByLastMessage, Leaves
<1>4. PendingJustified'
  BY <1>1 DEF ReaderTypeOK, DriverError, PendingJustified, Leaves, EarlierComplete, Kind, CarriesQuestion, Idle
<1>5. LeavesConsistent'
  BY <1>1 DEF ReaderTypeOK, DriverError, LeavesConsistent, Leaves
<1>6. StoppedIsTerminal'
  BY <1>1 DEF ReaderTypeOK, DriverError, StoppedIsTerminal, Leaves, StopExecution
<1>7. SaveJustified'
  BY <1>1 DEF ReaderTypeOK, DriverError, SaveJustified, SaveAllowed, MayStage, Kind
<1>8. ResultJustified'
  BY <1>1 DEF ReaderTypeOK, DriverError, ResultJustified, ContextsClosed, Leaves, Kind, Idle
<1>9. QED
  BY <1>1, <1>2, <1>3, <1>4, <1>5, <1>6, <1>7, <1>8, FramePromptFresh, FrameStagesOrdered, FrameFallbackNarrowed
  DEF DriverError, orderVars, resolveVars, pendingVars, leavesVars, haltVars, orderedVars, savingVars,
      fallbackVars, verdictVars

(* Closing a context only adds knowledge. *)
LEMMA RegistrationContextCloseInductive ==
  ASSUME ReaderInductive, NEW i \in Leaves, RegistrationContextClose(i)
  PROVE  ReaderInductive'
<1> USE LeavesFinite DEF ReaderInductive, resultVars, leafVars, stageVars, accessVars, stopVars,
      saveVars, sendVars, askVars, traceVars
<1>1. ReaderTypeOK'
  BY SMTT(30) DEF ReaderTypeOK, RegistrationContextClose, Leaves
<1>2. DispatchInOrder'
  BY <1>1 DEF ReaderTypeOK, RegistrationContextClose, DispatchInOrder, Leaves, Kind
<1>3. PendingJustified'
  BY <1>1 DEF ReaderTypeOK, RegistrationContextClose, PendingJustified, Leaves, EarlierComplete, Kind, CarriesQuestion, Idle
<1>4. ResultJustified'
  BY <1>1 DEF ReaderTypeOK, RegistrationContextClose, ResultJustified, ContextsClosed, Leaves, Kind, Idle
<1>5. QED
  BY <1>1, <1>2, <1>3, <1>4, FrameResolvedByLastMessage, FrameLeavesConsistent, FrameStoppedIsTerminal, FramePromptFresh, FrameStagesOrdered, FrameSaveJustified, FrameFallbackNarrowed
  DEF RegistrationContextClose, orderVars, resolveVars, pendingVars, leavesVars, haltVars, orderedVars, savingVars,
      fallbackVars, verdictVars

(* A candidate is staged by a succeeded authentication. *)
LEMMA CandidateInductive ==
  ASSUME ReaderInductive, NEW i \in Leaves, Candidate(i)
  PROVE  ReaderInductive'
<1> USE LeavesFinite DEF ReaderInductive, resultVars, leafVars, stageVars, accessVars, stopVars,
      saveVars, sendVars, askVars, traceVars
<1>1. ReaderTypeOK'
  BY DEF ReaderTypeOK, Candidate, Leaves
<1>2. SaveJustified'
  BY <1>1 DEF ReaderTypeOK, Candidate, SaveJustified, SaveAllowed, MayStage, Kind
<1>3. QED
  BY <1>1, <1>2, FrameDispatchInOrder, FrameResolvedByLastMessage, FramePendingJustified, FrameLeavesConsistent, FrameStoppedIsTerminal, FramePromptFresh, FrameStagesOrdered, FrameFallbackNarrowed, FrameResultJustified
  DEF Candidate, orderVars, resolveVars, pendingVars, leavesVars, haltVars, orderedVars, savingVars,
      fallbackVars, verdictVars

(* Joining ends dispatch. *)
LEMMA JoinInductive ==
  ASSUME ReaderInductive, Join
  PROVE  ReaderInductive'
<1> USE LeavesFinite DEF ReaderInductive, resultVars, leafVars, stageVars, accessVars, stopVars,
      saveVars, sendVars, askVars, traceVars
<1>1. ReaderTypeOK'
  BY DEF ReaderTypeOK, Join, Leaves
<1>2. PendingJustified'
  BY <1>1 DEF ReaderTypeOK, Join, PendingJustified, Leaves, EarlierComplete, Kind, CarriesQuestion, Idle
<1>3. StagesOrdered'
  BY <1>1 DEF ReaderTypeOK, Join, StagesOrdered, Idle
<1>4. SaveJustified'
  BY <1>1 DEF ReaderTypeOK, Join, SaveJustified, SaveAllowed, MayStage, Kind
<1>5. ResultJustified'
  BY <1>1 DEF ReaderTypeOK, Join, ResultJustified, ContextsClosed, Leaves, Kind, Idle
<1>6. QED
  BY <1>1, <1>2, <1>3, <1>4, <1>5, FrameDispatchInOrder, FrameResolvedByLastMessage, FrameLeavesConsistent, FrameStoppedIsTerminal, FramePromptFresh, FrameFallbackNarrowed
  DEF Join, orderVars, resolveVars, pendingVars, leavesVars, haltVars, orderedVars, savingVars,
      fallbackVars, verdictVars

(* The generation recheck changes nothing else. *)
LEMMA GenerationRecheckInductive ==
  ASSUME ReaderInductive, GenerationRecheck
  PROVE  ReaderInductive'
<1> USE LeavesFinite DEF ReaderInductive, resultVars, leafVars, stageVars, accessVars, stopVars,
      saveVars, sendVars, askVars, traceVars
<1>1. ReaderTypeOK'
  BY DEF ReaderTypeOK, GenerationRecheck, Leaves
<1>2. SaveJustified'
  BY <1>1 DEF ReaderTypeOK, GenerationRecheck, SaveJustified, SaveAllowed, MayStage, Kind
<1>3. QED
  BY <1>1, <1>2, FrameDispatchInOrder, FrameResolvedByLastMessage, FramePendingJustified, FrameLeavesConsistent, FrameStoppedIsTerminal, FramePromptFresh, FrameStagesOrdered, FrameFallbackNarrowed, FrameResultJustified
  DEF GenerationRecheck, orderVars, resolveVars, pendingVars, leavesVars, haltVars, orderedVars, savingVars,
      fallbackVars, verdictVars

(* A save is allowed when it happens. *)
LEMMA SessionSaveInductive ==
  ASSUME ReaderInductive, NEW i \in Leaves, SessionSave(i)
  PROVE  ReaderInductive'
<1> USE LeavesFinite DEF ReaderInductive, resultVars, leafVars, stageVars, accessVars, stopVars,
      saveVars, sendVars, askVars, traceVars
<1>1. ReaderTypeOK'
  BY DEF ReaderTypeOK, SessionSave, Leaves
<1>2. SaveJustified'
  BY <1>1 DEF ReaderTypeOK, SessionSave, SaveJustified, SaveAllowed, MayStage, Kind
<1>3. QED
  BY <1>1, <1>2, FrameDispatchInOrder, FrameResolvedByLastMessage, FramePendingJustified, FrameLeavesConsistent, FrameStoppedIsTerminal, FramePromptFresh, FrameStagesOrdered, FrameFallbackNarrowed, FrameResultJustified
  DEF SessionSave, orderVars, resolveVars, pendingVars, leavesVars, haltVars, orderedVars, savingVars,
      fallbackVars, verdictVars

(* The release follows the join. *)
LEMMA SessionReleaseInductive ==
  ASSUME ReaderInductive, SessionRelease
  PROVE  ReaderInductive'
<1> USE LeavesFinite DEF ReaderInductive, resultVars, leafVars, stageVars, accessVars, stopVars,
      saveVars, sendVars, askVars, traceVars
<1>1. ReaderTypeOK'
  BY DEF ReaderTypeOK, SessionRelease, Leaves
<1>2. StagesOrdered'
  BY <1>1 DEF ReaderTypeOK, SessionRelease, StagesOrdered, Idle
<1>3. QED
  BY <1>1, <1>2, FrameDispatchInOrder, FrameResolvedByLastMessage, FramePendingJustified, FrameLeavesConsistent, FrameStoppedIsTerminal, FramePromptFresh, FrameSaveJustified, FrameFallbackNarrowed, FrameResultJustified
  DEF SessionRelease, orderVars, resolveVars, pendingVars, leavesVars, haltVars, orderedVars, savingVars,
      fallbackVars, verdictVars

(* A non-dispatch proof is taken after the join. *)
LEMMA NonDispatchInductive ==
  ASSUME ReaderInductive, NonDispatch
  PROVE  ReaderInductive'
<1> USE LeavesFinite DEF ReaderInductive, resultVars, leafVars, stageVars, accessVars, stopVars,
      saveVars, sendVars, askVars, traceVars
<1>1. ReaderTypeOK'
  BY DEF ReaderTypeOK, NonDispatch, Leaves
<1>2. ResultJustified'
  BY DEF ReaderTypeOK, NonDispatch, ResultJustified, ContextsClosed, Leaves, Kind, Idle, anySent
<1>3. QED
  BY <1>1, <1>2, FrameDispatchInOrder, FrameResolvedByLastMessage, FramePendingJustified, FrameLeavesConsistent, FrameStoppedIsTerminal, FramePromptFresh, FrameStagesOrdered, FrameSaveJustified, FrameFallbackNarrowed
  DEF NonDispatch, orderVars, resolveVars, pendingVars, leavesVars, haltVars, orderedVars, savingVars,
      fallbackVars, verdictVars

(* Acceptance publishes exactly the outcomes. *)
LEMMA AcceptInductive ==
  ASSUME ReaderInductive, NEW report \in [Leaves -> Outcomes], Accept(report)
  PROVE  ReaderInductive'
<1> USE LeavesFinite DEF ReaderInductive, resultVars, leafVars, stageVars, accessVars, stopVars,
      saveVars, sendVars, askVars, traceVars
<1>1. ReaderTypeOK'
  BY DEF ReaderTypeOK, Accept, Leaves
<1>2. StagesOrdered'
  BY <1>1 DEF ReaderTypeOK, Accept, StagesOrdered, Idle
<1>3. ResultJustified'
  BY <1>1 DEF ReaderTypeOK, Accept, ResultJustified, ContextsClosed, Leaves, Kind, Idle
<1>4. QED
  BY <1>1, <1>2, <1>3, FrameDispatchInOrder, FrameResolvedByLastMessage, FramePendingJustified, FrameLeavesConsistent, FrameStoppedIsTerminal, FramePromptFresh, FrameSaveJustified, FrameFallbackNarrowed
  DEF Accept, orderVars, resolveVars, pendingVars, leavesVars, haltVars, orderedVars, savingVars,
      fallbackVars, verdictVars
(* Every step preserves the inductive invariant, one case per action. *)
LEMMA ReaderNextInductive == ReaderInductive /\ [ReaderNext]_readerVars => ReaderInductive'
<1> SUFFICES ASSUME ReaderInductive, [ReaderNext]_readerVars PROVE ReaderInductive'
  OBVIOUS
<1>1. CASE UNCHANGED readerVars
  BY <1>1, FrameDispatchInOrder, FrameResolvedByLastMessage, FramePendingJustified,
     FrameLeavesConsistent, FrameStoppedIsTerminal, FramePromptFresh, FrameStagesOrdered,
     FrameSaveJustified, FrameFallbackNarrowed, FrameResultJustified
  DEF ReaderInductive, ReaderTypeOK, Leaves, readerVars, resultVars, leafVars, stageVars, accessVars, stopVars,
      saveVars, sendVars, askVars, orderVars, resolveVars, pendingVars, leavesVars, haltVars,
      orderedVars, savingVars, fallbackVars, verdictVars
<1>2. CASE ReaderNext
  <2>1. CASE Admit \/ Refuse \/ CredentialLease \/ Launch \/ ClaimRefused
    BY <2>1, AdmitInductive, RefuseInductive, CredentialLeaseInductive, LaunchInductive,
       ClaimRefusedInductive
  <2>2. CASE Join \/ GenerationRecheck \/ SessionRelease \/ NonDispatch
    BY <2>2, JoinInductive, GenerationRecheckInductive, SessionReleaseInductive,
       NonDispatchInductive
  <2>3. CASE \E i \in Leaves :
               \E outcome \in {"fresh", "reuse"} \cup Fallen : SessionAcquire(i, outcome)
    BY <2>3, SessionAcquireInductive
  <2>4. CASE \E i \in Leaves :
               \E kind \in QuestionKinds, q \in Questions : Question(i, kind, q)
    BY <2>4, QuestionInductive
  <2>5. CASE \E i \in Leaves, q \in OptionalQuestion :
               CheckpointInput(i, q) \/ Deny(i, q) \/ AuthorityRecheck(i, q) \/ Send(i, q)
    BY <2>5, CheckpointInputInductive, DenyInductive, AuthorityRecheckInductive, SendInductive
  <2>6. CASE \E i \in Leaves, q \in OptionalQuestion :
               \E answer \in {"approve", "continue"} : Approve(i, answer, q)
    BY <2>6, ApproveInductive
  <2>7. CASE \E i \in Leaves, q \in OptionalQuestion : \E request \in Requests :
               ClaimInitial(i, request, q) \/ ClaimContinuation(i, request, q)
    BY <2>7, ClaimInitialInductive, ClaimContinuationInductive
  <2>8. CASE \E i \in Leaves :
               \E n \in 1..ordinal, outcome \in {"succeeded", "failed", "unknown"} :
                 Response(i, n, outcome)
    BY <2>8, ResponseInductive
  <2>9. CASE \E i \in Leaves :
               \/ DriverError(i) \/ CheckpointFailure(i) \/ RegistrationContextClose(i)
               \/ Candidate(i) \/ SessionSave(i)
    BY <2>9, DriverErrorInductive, CheckpointFailureInductive,
       RegistrationContextCloseInductive, CandidateInductive, SessionSaveInductive
  <2>10. CASE \E i \in Leaves : Witness(i)
    BY <2>10, <1>1 DEF Witness
  <2>11. CASE \E report \in [Leaves -> Outcomes] : Accept(report)
    BY <2>11, AcceptInductive
  <2> QED
    BY <1>2, <2>1, <2>2, <2>3, <2>4, <2>5, <2>6, <2>7, <2>8, <2>9, <2>10, <2>11 DEF ReaderNext, Frame, Event
<1> QED
  BY <1>1, <1>2

-----------------------------------------------------------------------------
(* Only sending uses up a message ordinal or a granted question, and only a  *)
(* claim makes a message pending.                                            *)
LEMMA OnlyClaimAndSend ==
  ASSUME attempt \in Attempts, [ReaderNext]_readerVars
  PROVE  \/ UNCHANGED <<spent, ordinal, pending>>
         \/ UNCHANGED <<spent, ordinal>> /\ pending = NoMessage /\ pending' # NoMessage
         \/ \E i \in Leaves, q \in OptionalQuestion : Send(i, q)
<1> USE DEF resultVars, leafVars, stageVars, accessVars, stopVars, saveVars, sendVars,
      askVars, traceVars
<1>1. CASE UNCHANGED readerVars
  BY <1>1 DEF readerVars
<1>2. CASE Admit \/ Refuse \/ CredentialLease \/ Launch \/ ClaimRefused \/ Join
           \/ GenerationRecheck \/ SessionRelease \/ NonDispatch
  BY <1>2 DEF Admit, Refuse, CredentialLease, Launch, ClaimRefused, Stop, Join,
     GenerationRecheck, SessionRelease, NonDispatch
<1>3. CASE \E i \in Leaves :
             \/ \E outcome \in {"fresh", "reuse"} \cup Fallen : SessionAcquire(i, outcome)
             \/ \E kind \in QuestionKinds, q \in Questions : Question(i, kind, q)
             \/ \E n \in 1..ordinal, outcome \in {"succeeded", "failed", "unknown"} :
                  Response(i, n, outcome)
             \/ DriverError(i) \/ CheckpointFailure(i) \/ RegistrationContextClose(i)
             \/ Witness(i) \/ Candidate(i) \/ SessionSave(i)
  BY <1>3 DEF SessionAcquire, Question, Response, DriverError, CheckpointFailure, Stop,
     RegistrationContextClose, Witness, Candidate, SessionSave, readerVars
<1>4. CASE \E i \in Leaves, q \in OptionalQuestion :
             \/ CheckpointInput(i, q) \/ AuthorityRecheck(i, q) \/ Deny(i, q)
             \/ \E answer \in {"approve", "continue"} : Approve(i, answer, q)
  BY <1>4 DEF CheckpointInput, AuthorityRecheck, Deny, Approve
<1>5. CASE \E report \in [Leaves -> Outcomes] : Accept(report)
  BY <1>5 DEF Accept
<1>6. ASSUME NEW i \in Leaves, NEW q \in OptionalQuestion, NEW request \in Requests,
             ClaimInitial(i, request, q) \/ ClaimContinuation(i, request, q)
      PROVE  UNCHANGED <<spent, ordinal>> /\ pending = NoMessage /\ pending' # NoMessage
  <2>1. UNCHANGED <<spent, ordinal>> /\ pending = NoMessage
    BY <1>6 DEF ClaimInitial, ClaimContinuation, Claim, Running, Idle
  <2>2. pending'.leaf = i /\ i # 0 /\ NoMessage.leaf = 0
    BY <1>6, LeavesFinite DEF ClaimInitial, ClaimContinuation, Claim, NoMessage
  <2>. QED  BY <2>1, <2>2
<1> QED
  BY <1>1, <1>2, <1>3, <1>4, <1>5, <1>6 DEF ReaderNext, Frame, Event

(* A step of the observer is a step of the reader. *)
LEMMA NextReads == [Next]_vars => [ReaderNext]_readerVars
PROOF BY DEF Next, ReaderNext, vars

(* The claim and the send of a message are two events of the trace. *)
LEMMA EventsCountedNext ==
  ASSUME ReaderInductive, EventsCounted, [Next]_vars
  PROVE  EventsCounted'
<1>1. /\ ordinal \in Nat /\ MaxEvents \in Nat /\ events \in 0..MaxEvents
      /\ 2 * ordinal + (IF pending # NoMessage THEN 1 ELSE 0) <= events
      /\ attempt \in Attempts
  BY BoundsAssumption DEF ReaderInductive, ReaderTypeOK, EventsCounted, Owed
<1>2. CASE UNCHANGED <<events, ordinal, pending>>
  BY <1>2 DEF EventsCounted, Owed
<1>3. CASE events < MaxEvents /\ events' = events + 1
  <2>1. CASE UNCHANGED <<ordinal, pending>>
    BY <1>1, <1>3, <2>1 DEF EventsCounted, Owed
  <2>2. CASE UNCHANGED ordinal /\ pending = NoMessage /\ pending' # NoMessage
    BY <1>1, <1>3, <2>2 DEF EventsCounted, Owed
  <2>3. CASE \E i \in Leaves, q \in OptionalQuestion : Send(i, q)
    <3>1. pending # NoMessage /\ pending' = NoMessage /\ ordinal' = ordinal + 1
      BY <2>3 DEF ReaderInductive, PendingJustified, Send
    <3>. QED  BY <1>1, <1>3, <3>1 DEF EventsCounted, Owed
  <2>. QED  BY <1>1, <2>1, <2>2, <2>3, OnlyClaimAndSend, NextReads
<1>4. CASE UNCHANGED vars
  BY <1>2, <1>4 DEF vars, readerVars, sendVars
<1>5. CASE Frame /\ UNCHANGED events
  BY <1>2, <1>5 DEF Frame, Admit, Refuse, Accept, traceVars, sendVars
<1>6. CASE OneEvent /\ Event
  BY <1>3, <1>6 DEF OneEvent
<1>. QED  BY <1>4, <1>5, <1>6 DEF Next

(* What the theorems below use: the reader's part holds in every state. *)
LEMMA SpecReaderInductive == Spec => []ReaderInductive
<1>1. ReaderInductive /\ [Next]_vars => ReaderInductive'
  BY ReaderNextInductive, NextReads
<1>. QED  BY <1>1, InitInductive, PTL DEF Spec

(* The inductive invariant holds in every reachable state. *)
THEOREM SpecInductive == Spec => []Inductive
<1>1. Init => EventsCounted
  BY BoundsAssumption DEF Init, EventsCounted, Owed
<1>2. Inductive /\ [Next]_vars => Inductive'
  BY EventsCountedNext, ReaderNextInductive, NextReads DEF Inductive
<1>. QED  BY <1>1, <1>2, InitInductive, PTL DEF Spec, Inductive

-----------------------------------------------------------------------------
(* Type correctness of the observer's state and of its count of events.     *)
THEOREM SpecTypeOK == Spec => []TypeOK
<1>1. Inductive => TypeOK
  BY DEF Inductive, ReaderInductive, EventsCounted, TypeOK
<1> QED
  BY <1>1, SpecInductive, PTL

(* Leaves are dispatched in order, each after everything before it          *)
(* succeeded and every earlier registration context closed.                 *)
THEOREM SpecDispatchInOrder == Spec => []DispatchInOrder
<1>1. ReaderInductive => DispatchInOrder
  BY DEF ReaderInductive
<1> QED
  BY <1>1, SpecReaderInductive, PTL

(* A known outcome comes from the response to the leaf's last message.      *)
THEOREM SpecResolvedByLastMessage == Spec => []ResolvedByLastMessage
<1>1. ReaderInductive => ResolvedByLastMessage
  BY DEF ReaderInductive
<1> QED
  BY <1>1, SpecReaderInductive, PTL

(* Nothing is dispatched outside launch, lease and observed access.         *)
THEOREM SpecContainedDispatch == Spec => []ContainedDispatch
<1>1. ReaderInductive => ContainedDispatch
  <2> SUFFICES ASSUME ReaderInductive, ordinal > 0 PROVE
        /\ launchDone /\ credentialsLeased
        /\ attempt.access.present => acquired = attempt.access.outcome
        /\ acquired = "reuse" => attempt.session.reuse /\ attempt.access.reuse
    BY DEF ContainedDispatch
  <2> QED
    BY DEF ReaderInductive, StagesOrdered, Admitted, RequiresAccess, SessionAccessMatches
<1> QED
  BY <1>1, SpecReaderInductive, PTL

(* A save is of the staged candidate: the plan has one saving leaf.         *)
THEOREM SpecSaveFollowsCandidate == Spec => []SaveFollowsCandidate
<1>1. ReaderInductive => SaveFollowsCandidate
  <2> SUFFICES ASSUME ReaderInductive, saved # 0
               PROVE  /\ saved = candidate /\ joinDone /\ generationCurrent
                      /\ Kind(saved) = "authentication" /\ attempt.calls[saved].named
                      /\ outcomes[saved] = "succeeded"
    BY DEF SaveFollowsCandidate
  <2>1. SaveAllowed(saved) /\ MayStage(candidate) /\ outcomes[candidate] = "succeeded"
    BY DEF ReaderInductive, SaveJustified, SaveAllowed
  <2>2. saved \in Leaves /\ candidate \in Leaves
    BY <2>1 DEF ReaderInductive, ReaderTypeOK, SaveAllowed
  <2>3. ConfigValid(attempt)
    BY <2>1 DEF ReaderInductive, StagesOrdered, SaveAllowed, Admitted
  <2>4. Leaves = DOMAIN attempt.calls
    BY LeavesFinite DEF ReaderInductive, ReaderTypeOK, Leaves
  <2>5. saved = candidate /\ attempt.calls[saved].named
    BY <2>1, <2>2, <2>3, <2>4 DEF ConfigValid, SaveAllowed, MayStage
  <2> QED
    BY <2>1, <2>5 DEF SaveAllowed, MayStage, Kind
<1> QED
  BY <1>1, SpecReaderInductive, PTL

(* A denial, whenever it comes, withholds durable saving.                   *)
THEOREM SpecDenialWithholdsSave == Spec => []DenialWithholdsSave
<1>1. ReaderInductive => DenialWithholdsSave
  BY DEF ReaderInductive, SaveJustified, SaveAllowed, DenialWithholdsSave
<1> QED
  BY <1>1, SpecReaderInductive, PTL

(* A run that fell back stays fresh and never stages or saves.              *)
THEOREM SpecFallbackStaysFresh == Spec => []FallbackStaysFresh
<1>1. ReaderInductive => FallbackStaysFresh
  BY DEF ReaderInductive, FallbackNarrowed, StagesOrdered, SaveJustified, MayStage, SaveAllowed,
     FallbackStaysFresh, Fallen
<1> QED
  BY <1>1, SpecReaderInductive, PTL

(* A recorded non-dispatch proof stays true. *)
THEOREM SpecNonDispatchHolds == Spec => []NonDispatchHolds
<1>1. ReaderInductive => NonDispatchHolds
  BY LeavesFinite DEF ReaderInductive, ReaderTypeOK, ResultJustified, StagesOrdered, LeavesConsistent,
     NonDispatchHolds, Leaves
<1> QED
  BY <1>1, SpecReaderInductive, PTL

(* A validated result says only what the messages show. *)
THEOREM SpecEvidenceSound == Spec => []EvidenceSound
<1>1. ReaderInductive => EvidenceSound
  <2> SUFFICES ASSUME ReaderInductive PROVE EvidenceSound
    OBVIOUS
  <2> USE DEF ReaderInductive
  <2>1. CASE verdict # "validated"
    BY <2>1 DEF ResultJustified, EvidenceSound
  <2>2. CASE verdict = "validated"
    <3> SUFFICES ASSUME NEW i \in Leaves
                 PROVE  /\ outcomes[i] = "succeeded" =>
                             /\ sent[i] /\ resolved[i] = lastMessage[i].ordinal
                             /\ Kind(i) = "registration" => closedRegistration[i]
                        /\ outcomes[i] = "not_started" => lastMessage[i] = NoMessage
                        /\ successor => outcomes[i] = "not_started"
      BY <2>2 DEF ResultJustified, EvidenceSound
    <3>1. successor => outcomes[i] = "not_started"
      BY <2>2, LeavesFinite DEF ReaderTypeOK, ResultJustified, StagesOrdered, LeavesConsistent
    <3> QED
      BY <2>2, <3>1 DEF ResultJustified, ContextsClosed, LeavesConsistent,
         ResolvedByLastMessage
  <2> QED
    BY <2>1, <2>2
<1> QED
  BY <1>1, SpecReaderInductive, PTL

(* Whatever a document claims, of any leaf, it verifies only with what the   *)
(* messages show.                                                            *)
LEMMA VerifiedSaysObserved ==
  ASSUME EvidenceSound, NEW e, NEW dry, NEW report, VerifyBrowserRunEvidence(e, dry, report),
         NEW i \in Leaves
  PROVE  IF e.dry THEN e.steps.outcomes[i] = "unknown"
         ELSE /\ verdict = "validated"
              /\ e.steps.outcomes[i] = "succeeded" =>
                   /\ sent[i] /\ resolved[i] = lastMessage[i].ordinal
                   /\ Kind(i) = "registration" => closedRegistration[i]
              /\ e.steps.outcomes[i] = "not_started" => lastMessage[i] = NoMessage
<1>1. CASE e.dry
  BY <1>1 DEF VerifyBrowserRunEvidence, UnknownV5
<1>2. CASE ~e.dry
  <2>1. verdict = "validated" /\ e.steps = Validated(observation)
    BY <1>2 DEF VerifyBrowserRunEvidence, ObservedAgain
  <2>2. e.steps.outcomes = observation
    BY <2>1 DEF Validated
  <2>. QED  BY <1>2, <2>1, <2>2 DEF EvidenceSound
<1>. QED  BY <1>1, <1>2

(* Evidence that verifies says only what the messages show, whoever wrote    *)
(* it, for every plan and every end of an attempt.                           *)
THEOREM SpecEvidenceIsObserved == Spec => []EvidenceIsObserved
<1>1. EvidenceSound => EvidenceIsObserved
  BY VerifiedSaysObserved DEF EvidenceIsObserved
<1>. QED  BY <1>1, SpecEvidenceSound, PTL

-----------------------------------------------------------------------------
(* Which knowledge a step changes: nothing but Send, Response and           *)
(* DriverError touches an outcome, and those keep a settled leaf settled.   *)

(* A response is only taken while the run is not stopped. *)
LEMMA ResponseWhileRunning ==
  ASSUME ReaderInductive, NEW i \in Leaves, NEW n, NEW outcome, Response(i, n, outcome)
  PROVE  ~stopped /\ outcomes[i] = "unknown"
PROOF BY DEF ReaderInductive, Response, Open, StoppedIsTerminal

(* A driver error leaves every outcome as it was. *)
LEMMA DriverErrorKeepsOutcomes ==
  ASSUME ReaderInductive, NEW i \in Leaves, DriverError(i)
  PROVE  outcomes' = outcomes
<1>1. outcomes[i] = "unknown"
  BY DEF ReaderInductive, ReaderTypeOK, Outcomes, LeavesConsistent, DriverError
<1>2. outcomes \in [Leaves -> Outcomes]
  BY DEF ReaderInductive, ReaderTypeOK
<1> QED
  BY <1>1, <1>2 DEF DriverError

(* Steps of the observer as steps of the promise: what each action does to  *)
(* outcomes, stopped, verdict and observation.                              *)
LEMMA StepShape ==
  ASSUME ReaderInductive, [ReaderNext]_readerVars
  PROVE  \/ UNCHANGED <<outcomes, stopped, verdict, observation, sent, ordinal>>
         \/ verdict = "submitted" /\ verdict' = "reading"
              /\ UNCHANGED <<outcomes, stopped, observation, sent, ordinal>>
         \/ verdict \in {"submitted", "reading"} /\ verdict' = "invalid"
              /\ UNCHANGED <<outcomes, stopped, observation, sent, ordinal>>
         \/ verdict = "reading" /\ verdict' = "validated" /\ observation' = outcomes
              /\ UNCHANGED <<outcomes, stopped, sent, ordinal>>
         \/ verdict = "reading" /\ stopped'
              /\ UNCHANGED <<outcomes, verdict, observation, sent, ordinal>>
         \/ verdict = "reading" /\ (\E i \in Leaves, q \in OptionalQuestion : Send(i, q))
         \/ verdict = "reading"
              /\ \E i \in Leaves, n \in 1..ordinal :
                   \E outcome \in {"succeeded", "failed", "unknown"} :
                     Response(i, n, outcome)
<1> USE DEF resultVars, leafVars, stageVars, accessVars, stopVars, saveVars, sendVars,
      askVars, traceVars
<1>1. CASE UNCHANGED readerVars
  BY <1>1 DEF readerVars
<1>2. CASE ReaderNext
  <2>1. CASE Admit \/ Refuse
    BY <2>1 DEF Admit, Refuse
  <2>2. CASE CredentialLease \/ Launch \/ Join \/ GenerationRecheck \/ SessionRelease
             \/ NonDispatch
    BY <2>2 DEF CredentialLease, Launch, Join, GenerationRecheck, SessionRelease, NonDispatch
  <2>3. CASE \E i \in Leaves :
               \/ \E outcome \in {"fresh", "reuse"} \cup Fallen : SessionAcquire(i, outcome)
               \/ \E kind \in QuestionKinds, q \in Questions : Question(i, kind, q)
               \/ RegistrationContextClose(i) \/ Candidate(i) \/ SessionSave(i)
    BY <2>3 DEF SessionAcquire, Question, RegistrationContextClose, Candidate, SessionSave
  <2>4. CASE \E i \in Leaves, q \in OptionalQuestion :
               \/ CheckpointInput(i, q) \/ AuthorityRecheck(i, q)
               \/ \E answer \in {"approve", "continue"} : Approve(i, answer, q)
               \/ \E request \in Requests :
                    ClaimInitial(i, request, q) \/ ClaimContinuation(i, request, q)
    BY <2>4 DEF CheckpointInput, AuthorityRecheck, Approve, ClaimInitial, ClaimContinuation,
       Claim
  <2>5. CASE ClaimRefused \/ (\E i \in Leaves : CheckpointFailure(i))
             \/ \E i \in Leaves, q \in OptionalQuestion : Deny(i, q)
    BY <2>5 DEF ClaimRefused, CheckpointFailure, Stop, Deny, Running, Answerable, Idle
  <2>6. CASE \E i \in Leaves : DriverError(i)
    BY <2>6, DriverErrorKeepsOutcomes DEF DriverError, Idle
  <2>7. CASE \E i \in Leaves, q \in OptionalQuestion : Send(i, q)
    BY <2>7 DEF Send
  <2>8. CASE \E i \in Leaves :
               \E n \in 1..ordinal, outcome \in {"succeeded", "failed", "unknown"} :
                 Response(i, n, outcome)
    BY <2>8 DEF Response, Idle
  <2>9. CASE \E i \in Leaves : Witness(i)
    BY <2>9 DEF Witness, readerVars
  <2>10. CASE \E report \in [Leaves -> Outcomes] : Accept(report)
    BY <2>10 DEF Accept
  <2> QED
    BY <1>2, <2>1, <2>2, <2>3, <2>4, <2>5, <2>6, <2>7, <2>8, <2>9, <2>10 DEF ReaderNext, Frame, Event
<1> QED
  BY <1>1, <1>2

(* A stop is final: nothing is sent and no outcome changes after it, so a   *)
(* late success cannot replace uncertainty.                                 *)
THEOREM SpecStopLatches == Spec => StopLatches
<1>1. ReaderInductive /\ [Next]_vars =>
        [stopped => stopped' /\ outcomes' = outcomes /\ sent' = sent /\ ordinal' = ordinal]_vars
  <2> SUFFICES ASSUME ReaderInductive, [Next]_vars, stopped
               PROVE  stopped' /\ outcomes' = outcomes /\ sent' = sent /\ ordinal' = ordinal
    OBVIOUS
  <2> QED
    BY StepShape, ResponseWhileRunning, NextReads DEF Send
<1> QED
  BY <1>1, SpecReaderInductive, PTL DEF Spec, StopLatches

-----------------------------------------------------------------------------
(* Initial states of the observer are initial states of the promise. *)
LEMMA InitRefines == Init => Dispatch!Init
PROOF BY DEF Init, Dispatch!Init, Published, Leaves

(* Every step of the observer is a step of the promise or changes nothing   *)
(* the promise speaks of.                                                   *)
LEMMA NextRefines == ReaderInductive /\ [ReaderNext]_readerVars => [Dispatch!Next]_(Dispatch!vars)
<1> SUFFICES ASSUME ReaderInductive, [ReaderNext]_readerVars PROVE [Dispatch!Next]_(Dispatch!vars)
  OBVIOUS
<1> USE DEF Dispatch!vars, Dispatch!Open, Published
<1>1. CASE UNCHANGED <<outcomes, stopped, verdict, observation>>
  BY <1>1
<1>2. CASE /\ verdict = "submitted" /\ verdict' = "reading"
           /\ UNCHANGED <<outcomes, stopped, observation>>
  BY <1>2
<1>3. CASE /\ verdict \in {"submitted", "reading"} /\ verdict' = "invalid"
           /\ UNCHANGED <<outcomes, stopped, observation>>
  <2>1. Dispatch!Withhold
    BY <1>3 DEF Dispatch!Withhold
  <2> QED
    BY <2>1 DEF Dispatch!Next
<1>4. CASE /\ verdict = "reading" /\ verdict' = "validated" /\ observation' = outcomes
           /\ UNCHANGED <<outcomes, stopped>>
  <2>1. Dispatch!Publish
    BY <1>4 DEF Dispatch!Publish
  <2> QED
    BY <2>1 DEF Dispatch!Next
<1>5. CASE /\ verdict = "reading" /\ stopped' /\ UNCHANGED <<outcomes, verdict, observation>>
  <2>1. CASE stopped
    BY <1>5, <2>1 DEF ReaderInductive, ReaderTypeOK
  <2>2. CASE ~stopped
    <3>1. Dispatch!Halt
      BY <1>5, <2>2 DEF Dispatch!Halt
    <3> QED
      BY <3>1 DEF Dispatch!Next
  <2> QED
    BY <2>1, <2>2
<1>6. ASSUME NEW i \in Leaves, NEW q \in OptionalQuestion, Send(i, q)
      PROVE  [Dispatch!Next]_(Dispatch!vars)
  <2>1. outcomes \in [Leaves -> Outcomes] /\ verdict = "reading" /\ ~stopped
        /\ UNCHANGED <<stopped, verdict, observation>>
    BY <1>6 DEF ReaderInductive, ReaderTypeOK, Send, stopVars, resultVars
  <2>2. CASE sent[i]
    BY <1>6, <2>1, <2>2 DEF ReaderInductive, PendingJustified, Send
  <2>3. CASE ~sent[i]
    <3>1. outcomes[i] = "not_started" /\ EarlierComplete(i)
      BY <1>6, <2>3 DEF ReaderInductive, LeavesConsistent, PendingJustified, Send
    <3>2. \A j \in Leaves : j < i => outcomes[j] = "succeeded"
      BY <3>1, LeavesFinite DEF EarlierComplete, Leaves, ReaderInductive, ReaderTypeOK
    <3>3. Dispatch!Dispatch(i)
      BY <1>6, <2>1, <3>1, <3>2 DEF Dispatch!Dispatch, Dispatch!Leaf, Send
    <3> QED
      BY <2>1, <3>3 DEF Dispatch!Next, Dispatch!Leaf
  <2> QED
    BY <2>2, <2>3
<1>7. ASSUME NEW i \in Leaves, NEW n \in 1..ordinal,
             NEW outcome \in {"succeeded", "failed", "unknown"}, Response(i, n, outcome)
      PROVE  [Dispatch!Next]_(Dispatch!vars)
  <2>1. /\ outcomes \in [Leaves -> Outcomes] /\ verdict = "reading"
        /\ UNCHANGED <<verdict, observation>>
    BY <1>7 DEF ReaderInductive, ReaderTypeOK, Response, Idle, resultVars
  <2>2. ~stopped /\ outcomes[i] = "unknown"
    BY <1>7, ResponseWhileRunning
  <2>3. Dispatch!Succeed(i) \/ Dispatch!Fail(i) \/ Dispatch!Halt
    <3>1. CASE outcome = "succeeded"
      <4>1. stopped' = stopped
        BY <1>7, <2>2, <3>1 DEF ReaderInductive, ReaderTypeOK, Response
      <4> QED
        BY <1>7, <2>1, <2>2, <3>1, <4>1 DEF Response, Dispatch!Succeed
    <3>2. CASE outcome = "failed"
      BY <1>7, <2>1, <2>2, <3>2 DEF Response, Dispatch!Fail
    <3>3. CASE outcome = "unknown"
      BY <1>7, <2>1, <2>2, <3>3 DEF Response, Dispatch!Halt
    <3> QED
      BY <3>1, <3>2, <3>3
  <2> QED
    BY <2>1, <2>3 DEF Dispatch!Next, Dispatch!Leaf
<1> QED
  BY StepShape, <1>1, <1>2, <1>3, <1>4, <1>5, <1>6, <1>7

(* The observer implements the promise: in-order at-most-once dispatch, a   *)
(* halt that freezes knowledge, and an all-or-nothing published result.     *)
THEOREM SpecImplementsDispatch == Spec => ImplementsDispatch
PROOF BY InitRefines, NextRefines, NextReads, SpecReaderInductive, PTL
      DEF Spec, ImplementsDispatch, Dispatch!Spec

-----------------------------------------------------------------------------
(* A question the human answered carries at most one message, and only      *)
(* after its authority was rechecked.                                       *)
THEOREM SpecOneMessagePerGrant == Spec => OneMessagePerGrant
<1>1. ReaderInductive /\ [Next]_vars =>
        [/\ spent' \ spent \subseteq granted
         /\ ordinal' # ordinal /\ sent' = sent => spent' # spent]_vars
  <2> SUFFICES ASSUME ReaderInductive, [Next]_vars
               PROVE  /\ spent' \ spent \subseteq granted
                      /\ ordinal' # ordinal /\ sent' = sent => spent' # spent
    OBVIOUS
  <2>1. CASE UNCHANGED <<spent, ordinal>>
    BY <2>1
  <2>2. ASSUME NEW i \in Leaves, NEW q \in OptionalQuestion, Send(i, q)
        PROVE  /\ spent' \ spent \subseteq granted
               /\ ordinal' # ordinal /\ sent' = sent => spent' # spent
    <3>1. CarriesQuestion(i) =>
            /\ q = prompt.question /\ <<asked, q>> \in granted
            /\ <<asked, q>> \notin spent
      BY <2>2 DEF ReaderInductive, ReaderTypeOK, PendingJustified, PromptFresh, Send
    <3>2. spent' \ spent \subseteq granted
      BY <2>2, <3>1 DEF Send
    <3>3. sent' = sent => CarriesQuestion(i)
      BY <2>2 DEF ReaderInductive, ReaderTypeOK, Send, CarriesQuestion
    <3> QED
      BY <2>2, <3>1, <3>2, <3>3 DEF Send
  <2> QED
    BY <2>1, <2>2, OnlyClaimAndSend, NextReads DEF ReaderInductive, ReaderTypeOK
<1> QED
  BY <1>1, SpecReaderInductive, PTL DEF Spec, OneMessagePerGrant

=============================================================================
