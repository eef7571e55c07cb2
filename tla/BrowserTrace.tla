---------------------------- MODULE BrowserTrace ----------------------------
(***************************************************************************)
(* runevidence.ObserveBrowserReport: the automaton that reads a trusted    *)
(* host's trace of one browser attempt, event by event, and either         *)
(* validates the executor's report against it or returns conservative      *)
(* uncertainty.  The host may submit any sequence of events; each event    *)
(* kind the loop accepts is an action whose guard is the disjunction of    *)
(* refusals in its case, negated.  An event that meets none of them is     *)
(* Refuse: every refusal ends the reading with the verdict "invalid".      *)
(*                                                                         *)
(* The code refuses a trace of more than 4096 events before it reads one.  *)
(* Here the events come one at a time, so the same trace is refused when   *)
(* the event after the last permitted one would be read (OneEvent): every  *)
(* refusal returns the same uncertainty, whenever it is noticed.           *)
(*                                                                         *)
(* Leaves are numbered from 1 (the code counts from 0); lastStarted = 0    *)
(* stands for the code's -1 and a leaf field 0 for "no leaf".  Message     *)
(* keys keep leaf, request, ordinal and kind; the outer protocol is a      *)
(* function of the leaf.  anySent is ordinal > 0 and requests[i] is the    *)
(* request of lastMessage[i]: the code assigns them together.              *)
(***************************************************************************)
EXTENDS BrowserAttempt, FiniteSets

CONSTANTS Attempts,      \* the attempts and witnesses that may be submitted
          Requests,      \* protocol request identifiers
          Questions,     \* question witnesses (id, revision, issued digest)
          NoRequest, NoQuestion,
          MaxEvents,     \* the longest trace and largest ordinal (4096 in the code)
          MaxQuestions   \* bound on question events in one trace

ASSUME AttemptsAssumption == Attempts \subseteq Attempt
ASSUME BoundsAssumption == MaxEvents \in Nat /\ MaxQuestions \in Nat
ASSUME NoneAssumption == NoRequest \notin Requests /\ NoQuestion \notin Questions

VARIABLES
  attempt,            \* expected Config and host witnesses, fixed
  events,             \* how many events of the trace were read
  verdict,            \* "submitted", "reading", "validated" or "invalid"
  observation,        \* the returned outcome of each leaf
  successor,          \* SuccessorEligible
  outcomes, terminal, sent, lastMessage, closedRegistration,  \* per leaf
  launchDone, joinDone, released, credentialsLeased, acquired,
  stopped, humanDenied, nonDispatch, generationCurrent,
  candidate,          \* leaf that staged the session candidate, or 0
  saved,              \* leaf whose session was saved (saveDone), or 0
  lastStarted, ordinal, pending,
  prompt,             \* question, questionKind, questionLeaf, answered, rechecked
  \* History, never read by a guard other than the bound on asked:
  asked,              \* how many questions were issued; numbers the current one
  approved,           \* <<number, question>> the human approved
  granted,            \* approved, then rechecked
  spent,              \* carried by a message that was sent
  fellBack,           \* saved state was once found missing or expired
  resolved            \* ordinal of the message whose response settled a leaf

leafVars  == <<outcomes, terminal, sent, lastMessage, resolved>>
stageVars == <<launchDone, joinDone, released>>
accessVars == <<credentialsLeased, acquired, fellBack>>
saveVars  == <<candidate, generationCurrent, saved>>
sendVars  == <<lastStarted, ordinal, pending>>
askVars   == <<prompt, asked, approved, granted, spent>>
stopVars  == <<stopped, humanDenied>>
resultVars == <<verdict, observation, successor>>
readerVars == <<attempt, resultVars, leafVars, closedRegistration, stageVars, accessVars,
                stopVars, nonDispatch, saveVars, sendVars, askVars>>
vars == <<events, readerVars>>

-----------------------------------------------------------------------------
Leaves == 1..Len(attempt.calls)
Outcomes == {"not_started", "unknown", "succeeded", "failed"}

MfaKinds == {"mfa_push", "mfa_number_match"}
CheckpointKinds == {"registration_checkpoint", "registration_submit"}
QuestionKinds ==
  MfaKinds \cup CheckpointKinds \cup {"registration_input", "runtime_confirmation"}

(* initialKind, and the message kind a continuation of each question has.   *)
InitialKind(kind) ==
  CASE kind = "authentication" -> "authenticate"
    [] kind = "registration" -> "register"
    [] kind = "action" -> "action"

ContinuationKind(kind) ==
  CASE kind \in MfaKinds -> "challenge_response"
    [] kind = "registration_input" -> "registration_input_response"
    [] kind \in CheckpointKinds -> "registration_checkpoint_response"

MessageKinds == {"authenticate", "register", "action", "challenge_response",
                 "registration_input_response", "registration_checkpoint_response"}

NoMessage == [leaf |-> 0, request |-> NoRequest, ordinal |-> 0, kind |-> "none"]
Message == [leaf: Nat, request: Requests \cup {NoRequest}, ordinal: Nat,
            kind: MessageKinds \cup {"none"}]

NoPrompt == [question |-> NoQuestion, kind |-> "none", leaf |-> 0,
             answered |-> FALSE, rechecked |-> FALSE]
Prompt == [question: Questions \cup {NoQuestion}, kind: QuestionKinds \cup {"none"},
           leaf: Nat, answered: BOOLEAN, rechecked: BOOLEAN]

Grants == Nat \X Questions
OptionalQuestion == Questions \cup {NoQuestion}

(* The order udonreport.ReportV5.Validate requires of leaf outcomes: a leaf *)
(* is started only if every earlier one succeeded.                          *)
ReportShape(o) ==
  \A i, j \in DOMAIN o : i < j /\ o[j] # "not_started" => o[i] = "succeeded"

-----------------------------------------------------------------------------
Kind(i) == attempt.calls[i].kind
anySent == ordinal > 0

(* Entering the loop body of an event other than credential_lease: only a   *)
(* send may follow a claim and nothing may follow the release.              *)
Idle == verdict = "reading" /\ pending = NoMessage /\ ~released

Running == Idle /\ launchDone /\ ~joinDone /\ ~stopped

Init ==
  /\ attempt \in Attempts /\ events = 0
  /\ verdict = "submitted" /\ successor = FALSE
  /\ observation = [i \in Leaves |-> "unknown"]
  /\ outcomes = [i \in Leaves |-> "not_started"]
  /\ terminal = [i \in Leaves |-> FALSE]
  /\ sent = [i \in Leaves |-> FALSE]
  /\ lastMessage = [i \in Leaves |-> NoMessage]
  /\ closedRegistration = [i \in Leaves |-> FALSE]
  /\ launchDone = FALSE /\ joinDone = FALSE /\ released = FALSE
  /\ credentialsLeased = (CredentialBindings(attempt) = {}) /\ acquired = "none"
  /\ stopped = FALSE /\ humanDenied = FALSE
  /\ nonDispatch = FALSE /\ generationCurrent = FALSE
  /\ candidate = 0 /\ saved = 0
  /\ lastStarted = 0 /\ ordinal = 0 /\ pending = NoMessage
  /\ prompt = NoPrompt
  /\ asked = 0 /\ approved = {} /\ granted = {} /\ spent = {}
  /\ fellBack = FALSE /\ resolved = [i \in Leaves |-> 0]

traceVars == <<leafVars, closedRegistration, stageVars, accessVars, stopVars,
               nonDispatch, saveVars, sendVars, askVars>>

(* The checks before the loop: the first refusal returns UnknownV5, which   *)
(* is what observation already holds.                                       *)
Admit ==
  /\ verdict = "submitted"
  /\ verdict' = IF Admitted(attempt) THEN "reading" ELSE "invalid"
  /\ UNCHANGED <<attempt, observation, successor, traceVars>>

(* fail(): any event, malformed, out of order or too many, ends the reading. *)
Refuse ==
  /\ verdict = "reading"
  /\ verdict' = "invalid"
  /\ UNCHANGED <<attempt, observation, successor, traceVars>>

-----------------------------------------------------------------------------
(* Before launch: the whole-plan credential lease and session acquisition.  *)
CredentialLease ==
  /\ verdict = "reading" /\ ~launchDone /\ ~anySent
  /\ CredentialLeaseMatches(attempt)
  /\ credentialsLeased' = TRUE
  /\ UNCHANGED <<attempt, resultVars, leafVars, closedRegistration, stageVars, acquired,
                 fellBack, stopVars, nonDispatch, saveVars, sendVars, askVars>>

Fallen == {"missing", "expired"}

(* Mutant: a fallback keeps the observed rights. *)
FallbackWithRights(outcome) ==
  acquired = "none" \/ (acquired \in Fallen /\ outcome = "fresh")

(* Saved state found missing or expired may only become fresh, and only     *)
(* when the observed access carries neither right.                          *)
FallbackAllowed(outcome) ==
  \/ acquired = "none"
  \/ /\ acquired \in Fallen /\ outcome = "fresh"
     /\ attempt.access.present => ~attempt.access.reuse /\ ~attempt.access.save

(* The acquiring leaf itself must have the observed rights, name and source. *)
AccessFits(c) ==
  attempt.access.present =>
    /\ attempt.access.reuse => c.reuse
    /\ attempt.access.save => c.save
    /\ c.named
    /\ c.kind = "authentication" => c.source = attempt.access.authentication
    /\ c.kind = "action" => c.source = attempt.access.profile

SessionAcquire(i, outcome) ==
  /\ Idle /\ attempt.session.present /\ ~launchDone /\ ~anySent /\ ~joinDone
  /\ FallbackAllowed(outcome)
  /\ AccessFits(attempt.calls[i])
  /\ outcome = "reuse" =>
       attempt.session.reuse /\ attempt.calls[i].reuse /\ attempt.calls[i].named
  /\ attempt.access.present /\ outcome \notin Fallen => outcome = attempt.access.outcome
  /\ acquired' = outcome
  /\ fellBack' = (fellBack \/ outcome \in Fallen)
  /\ UNCHANGED <<attempt, resultVars, leafVars, closedRegistration, stageVars,
                 credentialsLeased, stopVars, nonDispatch, saveVars, sendVars, askVars>>

(* Mutant: launches without the credential lease. *)
LaunchUnleased ==
  /\ Idle /\ ~launchDone /\ ~joinDone
  /\ acquired \in {"none", "fresh", "reuse"}
  /\ attempt.access.present => acquired = attempt.access.outcome
  /\ launchDone' = TRUE
  /\ UNCHANGED <<attempt, resultVars, leafVars, closedRegistration, joinDone, released,
                 accessVars, stopVars, nonDispatch, saveVars, sendVars, askVars>>

Launch ==
  /\ Idle /\ ~launchDone /\ ~joinDone /\ credentialsLeased
  /\ acquired \in {"none", "fresh", "reuse"}
  /\ attempt.access.present => acquired = attempt.access.outcome
  /\ launchDone' = TRUE
  /\ UNCHANGED <<attempt, resultVars, leafVars, closedRegistration, joinDone, released,
                 accessVars, stopVars, nonDispatch, saveVars, sendVars, askVars>>

-----------------------------------------------------------------------------
(* Human interaction.  An event that carries a question carries the current *)
(* one; only a runtime confirmation must carry it in every event.           *)
NamesPrompt(q) ==
  /\ q # NoQuestion \/ prompt.kind = "runtime_confirmation" => q = prompt.question

QuestionFits(i, kind) ==
  CASE kind \in MfaKinds -> Kind(i) = "authentication"
    [] kind = "runtime_confirmation" -> Kind(i) = "action" /\ ~sent[i]
    [] OTHER -> Kind(i) = "registration"

(* Mutant: a new question inherits the answer to the previous one. *)
PromptKeepsAnswer(i, kind, q) ==
  [question |-> q, kind |-> kind, leaf |-> i,
   answered |-> prompt.answered, rechecked |-> FALSE]

NewPrompt(i, kind, q) ==
  [question |-> q, kind |-> kind, leaf |-> i, answered |-> FALSE, rechecked |-> FALSE]

Question(i, kind, q) ==
  /\ Running /\ ~terminal[i]
  /\ kind # "runtime_confirmation" => sent[i] /\ outcomes[i] = "unknown"
  /\ QuestionFits(i, kind)
  /\ asked < MaxQuestions
  /\ prompt' = NewPrompt(i, kind, q)
  /\ asked' = asked + 1
  /\ UNCHANGED <<attempt, resultVars, leafVars, closedRegistration, stageVars, accessVars,
                 stopVars, nonDispatch, saveVars, sendVars, approved, granted, spent>>

Answerable(i, q) ==
  /\ Idle /\ ~joinDone /\ ~stopped
  /\ prompt.question # NoQuestion /\ prompt.leaf = i
  /\ NamesPrompt(q)

(* registration_input with outcome checkpoint-private: the private answer.   *)
CheckpointInput(i, q) ==
  /\ Kind(i) = "registration" /\ Answerable(i, q) /\ prompt.kind = "registration_input"
  /\ prompt' = [prompt EXCEPT !.answered = TRUE]
  /\ approved' = approved \cup {<<asked, prompt.question>>}
  /\ UNCHANGED <<attempt, resultVars, leafVars, closedRegistration, stageVars, accessVars,
                 stopVars, nonDispatch, saveVars, sendVars, asked, granted, spent>>

Answers(kind) ==
  CASE kind \in MfaKinds \cup {"runtime_confirmation"} -> {"approve", "deny"}
    [] kind \in CheckpointKinds -> {"continue", "deny"}
    [] OTHER -> {}

(* Mutant: stopping leaves leaves in flight open. *)
StopFlagOnly(o, t) == t

(* stopExecution: every dispatched leaf whose outcome o is unknown becomes  *)
(* terminal; t already marks the leaves settled before.                     *)
StopExecution(o, t) == [i \in Leaves |-> t[i] \/ (sent[i] /\ o[i] = "unknown")]

Approve(i, answer, q) ==
  /\ Answerable(i, q) /\ answer \in Answers(prompt.kind) \ {"deny"}
  /\ prompt' = [prompt EXCEPT !.answered = TRUE]
  /\ approved' = approved \cup {<<asked, prompt.question>>}
  /\ UNCHANGED <<attempt, resultVars, leafVars, closedRegistration, stageVars, accessVars,
                 stopVars, nonDispatch, saveVars, sendVars, asked, granted, spent>>

Deny(i, q) ==
  /\ Answerable(i, q) /\ "deny" \in Answers(prompt.kind)
  /\ prompt' = [prompt EXCEPT !.answered = FALSE]
  /\ stopped' = TRUE /\ humanDenied' = TRUE
  /\ terminal' = StopExecution(outcomes, terminal)
  /\ UNCHANGED <<attempt, resultVars, outcomes, sent, lastMessage, resolved,
                 closedRegistration, stageVars, accessVars, nonDispatch, saveVars,
                 sendVars, asked, approved, granted, spent>>

AuthorityRecheck(i, q) ==
  /\ Answerable(i, q) /\ prompt.answered
  /\ prompt' = [prompt EXCEPT !.rechecked = TRUE]
  /\ granted' = granted \cup ({<<asked, prompt.question>>} \cap approved)
  /\ UNCHANGED <<attempt, resultVars, leafVars, closedRegistration, stageVars, accessVars,
                 stopVars, nonDispatch, saveVars, sendVars, asked, approved, spent>>

-----------------------------------------------------------------------------
(* Dispatch: a durable claim, then exactly that message.                    *)
Stop ==
  /\ stopped' = TRUE
  /\ terminal' = StopExecution(outcomes, terminal)
  /\ UNCHANGED <<attempt, resultVars, outcomes, sent, lastMessage, resolved,
                 closedRegistration, stageVars, accessVars, humanDenied, nonDispatch,
                 saveVars, sendVars, askVars>>

ClaimRefused == Running /\ Stop

(* Mutants: the closure of earlier registrations, or the leaf just before,  *)
(* is not checked.                                                          *)
EarlierSucceeded(i) == \A j \in 1..(i - 1) : outcomes[j] = "succeeded"

EarlierButOneComplete(i) ==
  \A j \in 1..(i - 2) :
    outcomes[j] = "succeeded" /\ (Kind(j) = "registration" => closedRegistration[j])

EarlierComplete(i) ==
  \A j \in 1..(i - 1) :
    outcomes[j] = "succeeded" /\ (Kind(j) = "registration" => closedRegistration[j])

Consented(i, q) ==
  prompt.leaf = i /\ prompt.answered /\ prompt.rechecked /\ q = prompt.question

Claim(i, request, kind) ==
  /\ ordinal + 1 <= MaxEvents
  /\ pending' = [leaf |-> i, request |-> request, ordinal |-> ordinal + 1, kind |-> kind]
  /\ UNCHANGED <<attempt, resultVars, leafVars, closedRegistration, stageVars, accessVars,
                 stopVars, nonDispatch, saveVars, lastStarted, ordinal, askVars>>

ClaimInitial(i, request, q) ==
  /\ Running /\ ~sent[i] /\ i = lastStarted + 1
  /\ IF prompt.kind = "runtime_confirmation" THEN Consented(i, q) ELSE q = NoQuestion
  /\ EarlierComplete(i)
  /\ Claim(i, request, InitialKind(Kind(i)))

ClaimContinuation(i, request, q) ==
  /\ Running /\ sent[i] /\ outcomes[i] = "unknown"
  /\ Consented(i, q) /\ lastMessage[i].request = request
  /\ prompt.kind \in QuestionKinds \ {"runtime_confirmation"}
  /\ Claim(i, request, ContinuationKind(prompt.kind))

(* Whether the message about to be sent acts on the current question.       *)
CarriesQuestion(i) == sent[i] \/ prompt.kind = "runtime_confirmation"

(* Mutant: counts messages instead of leaves. *)
CountsMessages(i) == lastStarted + 1

LastStarted(i) == IF i > lastStarted THEN i ELSE lastStarted

Send(i, q) ==
  /\ verdict = "reading" /\ ~released
  /\ launchDone /\ ~joinDone /\ ~stopped
  /\ pending # NoMessage /\ pending.leaf = i
  /\ CarriesQuestion(i) => q = prompt.question
  /\ spent' = IF CarriesQuestion(i) THEN spent \cup {<<asked, q>>} ELSE spent
  /\ pending' = NoMessage
  /\ ordinal' = pending.ordinal
  /\ sent' = [sent EXCEPT ![i] = TRUE]
  /\ lastMessage' = [lastMessage EXCEPT ![i] = pending]
  /\ outcomes' = [outcomes EXCEPT ![i] = "unknown"]
  /\ lastStarted' = LastStarted(i)
  /\ prompt' = NoPrompt
  /\ UNCHANGED <<attempt, resultVars, terminal, resolved, closedRegistration, stageVars,
                 accessVars, stopVars, nonDispatch, saveVars, asked, approved, granted>>

-----------------------------------------------------------------------------
(* What comes back, and what goes wrong.                                    *)

(* A response settles the leaf only when it answers the leaf's last message *)
(* (here by its ordinal n) and the leaf is still open.                      *)
Open(i) == sent[i] /\ ~joinDone /\ ~terminal[i]

(* Mutant: a response to any earlier message of the leaf is taken. *)
AnswersAny(i, n) == n <= lastMessage[i].ordinal

AnswersLast(i, n) == lastMessage[i].ordinal = n

Response(i, n, outcome) ==
  /\ Idle /\ Open(i) /\ AnswersLast(i, n) /\ outcomes[i] = "unknown"
  /\ outcomes' = [outcomes EXCEPT ![i] = outcome]
  /\ stopped' = (stopped \/ outcome # "succeeded")
  /\ terminal' = LET t == [terminal EXCEPT ![i] = TRUE] IN
                 IF outcome = "succeeded" THEN t ELSE StopExecution(outcomes', t)
  /\ resolved' = [resolved EXCEPT ![i] = n]
  /\ UNCHANGED <<attempt, resultVars, sent, lastMessage, closedRegistration, stageVars,
                 accessVars, humanDenied, nonDispatch, saveVars, sendVars, askVars>>

(* extraction and typed_driver_error: uncertainty, never a known outcome.   *)
DriverError(i) ==
  /\ Idle /\ sent[i] /\ ~joinDone /\ outcomes[i] \notin {"succeeded", "failed"}
  /\ outcomes' = [outcomes EXCEPT ![i] = "unknown"]
  /\ stopped' = TRUE
  /\ terminal' = StopExecution(outcomes', [terminal EXCEPT ![i] = TRUE])
  /\ UNCHANGED <<attempt, resultVars, sent, lastMessage, resolved, closedRegistration,
                 stageVars, accessVars, humanDenied, nonDispatch, saveVars, sendVars, askVars>>

(* failure / checkpoint_failed: a completed leaf stays known, the rest stops. *)
CheckpointFailure(i) == Idle /\ outcomes[i] = "succeeded" /\ ~joinDone /\ Stop

RegistrationContextClose(i) ==
  /\ Idle /\ Kind(i) = "registration" /\ sent[i] /\ ~joinDone
  /\ closedRegistration' = [closedRegistration EXCEPT ![i] = TRUE]
  /\ UNCHANGED <<attempt, resultVars, leafVars, stageVars, accessVars, stopVars,
                 nonDispatch, saveVars, sendVars, askVars>>

(* Events that are checked and recorded nowhere: initial-private            *)
(* registration input, write_completed and non_dispatch_check.              *)
Witness(i) ==
  /\ Idle
  /\ \/ Kind(i) = "registration" /\ ~joinDone /\ ~stopped /\ ~anySent
     \/ Open(i)
     \/ ~anySent
  /\ UNCHANGED readerVars

-----------------------------------------------------------------------------
(* Session candidate, teardown, durable save.                               *)
(* Mutant: any authentication leaf may stage the candidate. *)
AnyAuthenticationStages(i) ==
  Kind(i) = "authentication" /\ attempt.access.present /\ attempt.access.save

MayStage(i) ==
  /\ Kind(i) = "authentication" /\ attempt.calls[i].save
  /\ attempt.access.present /\ attempt.access.save

Candidate(i) ==
  /\ Idle /\ ~joinDone /\ ~humanDenied
  /\ MayStage(i) /\ outcomes[i] = "succeeded" /\ candidate = 0
  /\ candidate' = i
  /\ UNCHANGED <<attempt, resultVars, leafVars, closedRegistration, stageVars, accessVars,
                 stopVars, nonDispatch, generationCurrent, saved, sendVars, askVars>>

Join ==
  /\ Idle /\ launchDone /\ ~joinDone
  /\ joinDone' = TRUE
  /\ UNCHANGED <<attempt, resultVars, leafVars, closedRegistration, launchDone, released,
                 accessVars, stopVars, nonDispatch, saveVars, sendVars, askVars>>

GenerationRecheck ==
  /\ Idle /\ joinDone /\ attempt.session.present
  /\ generationCurrent' = TRUE
  /\ UNCHANGED <<attempt, resultVars, leafVars, closedRegistration, stageVars, accessVars,
                 stopVars, nonDispatch, candidate, saved, sendVars, askVars>>

(* Mutant: a denial does not withhold the save. *)
SaveDespiteDenial(i) ==
  /\ joinDone /\ candidate # 0 /\ generationCurrent
  /\ attempt.permission = i /\ attempt.calls[i].save
  /\ attempt.session.present /\ attempt.access.present /\ attempt.access.save

SaveAllowed(i) ==
  /\ ~humanDenied /\ joinDone /\ candidate # 0 /\ generationCurrent
  /\ attempt.permission = i /\ attempt.calls[i].save
  /\ attempt.session.present /\ attempt.access.present /\ attempt.access.save

SessionSave(i) ==
  /\ Idle /\ SaveAllowed(i) /\ saved = 0
  /\ saved' = i
  /\ UNCHANGED <<attempt, resultVars, leafVars, closedRegistration, stageVars, accessVars,
                 stopVars, nonDispatch, candidate, generationCurrent, sendVars, askVars>>

SessionRelease ==
  /\ Idle /\ joinDone
  /\ released' = TRUE
  /\ UNCHANGED <<attempt, resultVars, leafVars, closedRegistration, launchDone, joinDone,
                 accessVars, stopVars, nonDispatch, saveVars, sendVars, askVars>>

(* Mutant: the proof is taken while messages may still be sent. *)
NonDispatchUnjoined ==
  /\ Idle /\ ~anySent
  /\ attempt.nonDispatch.present /\ attempt.nonDispatch.complete
  /\ nonDispatch' = TRUE
  /\ UNCHANGED <<attempt, resultVars, leafVars, closedRegistration, stageVars, accessVars,
                 stopVars, saveVars, sendVars, askVars>>

NonDispatch ==
  /\ Idle /\ ~anySent /\ joinDone
  /\ attempt.nonDispatch.present /\ attempt.nonDispatch.complete
  /\ nonDispatch' = TRUE
  /\ UNCHANGED <<attempt, resultVars, leafVars, closedRegistration, stageVars, accessVars,
                 stopVars, saveVars, sendVars, askVars>>

(* Mutant: the contexts of dispatched registrations may stay open. *)
ContextsIgnored == TRUE

ContextsClosed ==
  \A i \in Leaves : sent[i] /\ Kind(i) = "registration" => closedRegistration[i]

(* The trace ends: the report, already valid on its own, must tell exactly  *)
(* what the trace established.                                              *)
Accept(report) ==
  /\ verdict = "reading" /\ pending = NoMessage /\ joinDone /\ released
  /\ ReportShape(report) /\ report = outcomes
  /\ ContextsClosed
  /\ attempt.nonDispatch.present => nonDispatch
  /\ verdict' = "validated"
  /\ observation' = report
  /\ successor' = (nonDispatch /\ ~anySent)
  /\ UNCHANGED <<attempt, traceVars>>

-----------------------------------------------------------------------------
(* The event kinds the loop accepts. *)
Event ==
  \/ CredentialLease \/ Launch \/ ClaimRefused
  \/ Join \/ GenerationRecheck \/ SessionRelease \/ NonDispatch
  \/ \E i \in Leaves :
       \/ \E outcome \in {"fresh", "reuse"} \cup Fallen : SessionAcquire(i, outcome)
       \/ \E kind \in QuestionKinds, q \in Questions : Question(i, kind, q)
       \/ \E q \in OptionalQuestion :
            \/ CheckpointInput(i, q) \/ Deny(i, q) \/ AuthorityRecheck(i, q) \/ Send(i, q)
            \/ \E answer \in {"approve", "continue"} : Approve(i, answer, q)
            \/ \E request \in Requests :
                 ClaimInitial(i, request, q) \/ ClaimContinuation(i, request, q)
       \/ \E n \in 1..ordinal, outcome \in {"succeeded", "failed", "unknown"} :
            Response(i, n, outcome)
       \/ DriverError(i) \/ CheckpointFailure(i) \/ RegistrationContextClose(i)
       \/ Witness(i) \/ Candidate(i) \/ SessionSave(i)

(* Mutant: the longest permitted trace is refused. *)
OneEventShort == events + 1 < MaxEvents /\ events' = events + 1

(* One more event of a trace that is not too long. *)
OneEvent == events < MaxEvents /\ events' = events + 1

(* The checks before the loop, a refusal, and the end of the trace. *)
Frame == Admit \/ Refuse \/ \E report \in [Leaves -> Outcomes] : Accept(report)

Next == (Frame /\ UNCHANGED events) \/ (OneEvent /\ Event)

Spec == Init /\ [][Next]_vars

-----------------------------------------------------------------------------
(* An honest host: it submits no malformed event, sends what it claimed,    *)
(* closes every registration context and supplies its non-dispatch proof    *)
(* before teardown, sends nothing when it holds such a proof, and never     *)
(* starts what it could not tear down within the longest permitted trace.   *)
(* It keeps going through teardown; how far it gets before that is its own  *)
(* choice.                                                                  *)

(* The events still owed: the claimed message, the close of each context it *)
(* opens or has opened, the join, the proof and the release.                *)
OwedCloses ==
  {i \in Leaves : Kind(i) = "registration" /\ ~closedRegistration[i]
                  /\ (sent[i] \/ pending.leaf = i)}

Owed(due) == IF due THEN 1 ELSE 0

EventsOwed ==
  Cardinality(OwedCloses) + Owed(pending # NoMessage) + Owed(~joinDone) + Owed(~released)
    + Owed(attempt.nonDispatch.present /\ ~nonDispatch)

Disciplined ==
  /\ verdict' # "invalid"
  /\ events' + EventsOwed' <= MaxEvents
  /\ joinDone' /\ ~joinDone => ContextsClosed
  /\ released' /\ ~released => (attempt.nonDispatch.present => nonDispatch)
  /\ attempt.nonDispatch.present => attempt.nonDispatch.complete /\ pending' = NoMessage

HonestNext == Next /\ Disciplined

Teardown ==
  \/ /\ OneEvent
     /\ \/ Join \/ NonDispatch \/ SessionRelease
        \/ \E i \in Leaves :
             \/ RegistrationContextClose(i)
             \/ \E q \in OptionalQuestion : Send(i, q)
  \/ (\E report \in [Leaves -> Outcomes] : Accept(report)) /\ UNCHANGED events

HonestSpec == Init /\ [][HonestNext]_vars /\ WF_vars(Teardown /\ Disciplined)

-----------------------------------------------------------------------------
(* What one state may hold. *)
ReaderTypeOK ==
  /\ attempt \in Attempts
  /\ verdict \in {"submitted", "reading", "validated", "invalid"}
  /\ observation \in [Leaves -> Outcomes] /\ successor \in BOOLEAN
  /\ outcomes \in [Leaves -> Outcomes]
  /\ terminal \in [Leaves -> BOOLEAN] /\ sent \in [Leaves -> BOOLEAN]
  /\ lastMessage \in [Leaves -> Message] /\ closedRegistration \in [Leaves -> BOOLEAN]
  /\ launchDone \in BOOLEAN /\ joinDone \in BOOLEAN /\ released \in BOOLEAN
  /\ credentialsLeased \in BOOLEAN
  /\ acquired \in {"none", "fresh", "reuse"} \cup Fallen
  /\ stopped \in BOOLEAN /\ humanDenied \in BOOLEAN
  /\ nonDispatch \in BOOLEAN /\ generationCurrent \in BOOLEAN
  /\ candidate \in {0} \cup Leaves /\ saved \in {0} \cup Leaves
  /\ lastStarted \in {0} \cup Leaves /\ ordinal \in Nat /\ pending \in Message
  /\ prompt \in Prompt /\ prompt.leaf \in {0} \cup Leaves
  /\ asked \in Nat
  /\ approved \subseteq Grants /\ granted \subseteq Grants /\ spent \subseteq Grants
  /\ fellBack \in BOOLEAN /\ resolved \in [Leaves -> Nat]

TypeOK == ReaderTypeOK /\ events \in 0..MaxEvents

(* A leaf is dispatched only after every earlier leaf is known to have      *)
(* succeeded and every earlier registration context is known to be closed,  *)
(* and no later event takes that knowledge back.                            *)
DispatchInOrder ==
  \A i, j \in Leaves :
    i < j /\ sent[j] =>
      outcomes[i] = "succeeded" /\ (Kind(i) = "registration" => closedRegistration[i])

(* Once execution stops (a denial, a refused claim, a failure, an unknown   *)
(* response, a driver error or a failed checkpoint) no message is sent and  *)
(* no outcome changes: a late success cannot replace uncertainty.           *)
StopLatches ==
  [][stopped => stopped' /\ outcomes' = outcomes /\ sent' = sent /\ ordinal' = ordinal]_vars

(* A message that acts on a question uses a question the human approved and *)
(* whose authority was rechecked, and no such grant carries two messages.   *)
OneMessagePerGrant ==
  [][/\ spent' \ spent \subseteq granted
     /\ ordinal' # ordinal /\ sent' = sent => spent' # spent]_vars

(* A known outcome always comes from the response to the leaf's last        *)
(* message: a delayed answer to an earlier message settles nothing, and     *)
(* nothing is sent to a leaf once it is settled.                            *)
ResolvedByLastMessage ==
  \A i \in Leaves :
    outcomes[i] \in {"succeeded", "failed"} =>
      resolved[i] = lastMessage[i].ordinal /\ resolved[i] > 0

(* Nothing is dispatched before launch, without the whole credential lease, *)
(* or under another session access than the one the host observed.          *)
ContainedDispatch ==
  ordinal > 0 =>
    /\ launchDone /\ credentialsLeased
    /\ attempt.access.present => acquired = attempt.access.outcome
    /\ acquired = "reuse" => attempt.session.reuse /\ attempt.access.reuse

(* A durable save saves the candidate that was staged, of the one           *)
(* authentication leaf allowed to save, whose success is known, after the   *)
(* browser was joined and the session generation rechecked.                 *)
SaveFollowsCandidate ==
  saved # 0 =>
    /\ saved = candidate /\ joinDone /\ generationCurrent
    /\ Kind(saved) = "authentication" /\ attempt.calls[saved].named
    /\ outcomes[saved] = "succeeded"

(* An explicit human denial withholds durable saving, whenever the          *)
(* candidate was staged.                                                    *)
DenialWithholdsSave == humanDenied => saved = 0

(* A run that fell back from missing or expired saved state runs fresh and  *)
(* never produces a candidate or a save.                                    *)
FallbackStaysFresh ==
  fellBack /\ launchDone => acquired = "fresh" /\ candidate = 0 /\ saved = 0

(* A positive non-dispatch proof, once recorded, stays true to the end.     *)
NonDispatchHolds ==
  nonDispatch => ordinal = 0 /\ \A i \in Leaves : outcomes[i] = "not_started"

(* What a validated result says of each leaf is what the messages show: a   *)
(* success was answered and its registration context closed, an unstarted   *)
(* leaf got no message, and a successor may be proposed only if nothing was *)
(* ever sent.  Anything but a validated result reports only uncertainty.    *)
EvidenceSound ==
  /\ verdict = "validated" =>
       \A i \in Leaves :
         /\ observation[i] = "succeeded" =>
              /\ sent[i] /\ resolved[i] = lastMessage[i].ordinal
              /\ Kind(i) = "registration" => closedRegistration[i]
         /\ observation[i] = "not_started" => lastMessage[i] = NoMessage
         /\ successor => observation[i] = "not_started"
  /\ verdict # "validated" =>
       ~successor /\ \A i \in Leaves : observation[i] = "unknown"

-----------------------------------------------------------------------------
(* The inductive strengthening the proofs use, by concern. *)

(* A claim stays justified until its message is sent. *)
PendingJustified ==
  pending # NoMessage =>
    /\ launchDone /\ ~joinDone /\ ~stopped
    /\ pending.leaf \in Leaves /\ pending.ordinal = ordinal + 1
    /\ IF sent[pending.leaf] THEN outcomes[pending.leaf] = "unknown"
       ELSE pending.leaf = lastStarted + 1 /\ EarlierComplete(pending.leaf)
    /\ CarriesQuestion(pending.leaf) =>
         prompt.question # NoQuestion /\ <<asked, prompt.question>> \in granted

(* Started leaves are a prefix; messages and outcomes agree with it. *)
LeavesConsistent ==
  \A i \in Leaves :
    /\ sent[i] <=> i <= lastStarted
    /\ sent[i] <=> outcomes[i] # "not_started"
    /\ sent[i] => lastMessage[i].ordinal \in 1..ordinal
    /\ ~sent[i] => lastMessage[i] = NoMessage

(* Nothing in flight stays open after a stop. *)
StoppedIsTerminal ==
  stopped => \A i \in Leaves : sent[i] /\ outcomes[i] = "unknown" => terminal[i]

(* The current question is unspent, its answer and recheck are its own. *)
PromptFresh ==
  /\ \A g \in spent : g[1] <= asked
  /\ IF prompt.question = NoQuestion THEN prompt = NoPrompt
     ELSE LET g == <<asked, prompt.question>> IN
          /\ \A h \in spent : h[1] < asked
          /\ prompt.answered => g \in approved
          /\ prompt.rechecked => g \in granted

(* Launch happened only for an admitted attempt with its lease and access. *)
StagesOrdered ==
  /\ joinDone => launchDone
  /\ released => joinDone
  /\ verdict = "reading" => Admitted(attempt)
  /\ launchDone =>
       /\ Admitted(attempt) /\ credentialsLeased
       /\ acquired \in {"none", "fresh", "reuse"}
       /\ attempt.access.present => acquired = attempt.access.outcome
  /\ acquired = "reuse" => attempt.session.present /\ attempt.session.reuse
  /\ ordinal > 0 => launchDone
  /\ ordinal = 0 => lastStarted = 0

(* Candidates and saves keep the facts that admitted them. *)
SaveJustified ==
  /\ candidate # 0 => MayStage(candidate) /\ outcomes[candidate] = "succeeded"
  /\ saved # 0 => SaveAllowed(saved)

(* A fallback has no rights left to use. *)
FallbackNarrowed ==
  fellBack =>
    /\ acquired \in Fallen \cup {"fresh"}
    /\ acquired = "fresh" /\ attempt.access.present =>
         ~attempt.access.reuse /\ ~attempt.access.save

ResultJustified ==
  /\ nonDispatch => joinDone /\ ordinal = 0
  /\ IF verdict = "validated"
     THEN /\ observation = outcomes /\ ContextsClosed
          /\ successor => nonDispatch
     ELSE ~successor /\ \A i \in Leaves : observation[i] = "unknown"

(* A message takes two events, its claim and its send: the limit on the     *)
(* ordinal is never the one that is met.                                    *)
EventsCounted ==
  /\ events \in 0..MaxEvents
  /\ 2 * ordinal + Owed(pending # NoMessage) <= events

ReaderInductive ==
  /\ ReaderTypeOK /\ DispatchInOrder /\ ResolvedByLastMessage
  /\ PendingJustified /\ LeavesConsistent /\ StoppedIsTerminal /\ PromptFresh
  /\ StagesOrdered /\ SaveJustified /\ FallbackNarrowed /\ ResultJustified

Inductive == ReaderInductive /\ EventsCounted

-----------------------------------------------------------------------------
(* The observer implements the promise of BrowserDispatch: known outcomes   *)
(* are the statuses, stopExecution is the halt, the verdict publishes.      *)
Published ==
  [state |-> CASE verdict = "validated" -> "known"
               [] verdict = "invalid" -> "uncertain"
               [] OTHER -> "open",
   outcomes |-> observation]

Dispatch == INSTANCE BrowserDispatch
              WITH status <- outcomes, halted <- stopped, published <- Published

(* Every behaviour of the observer is one the promise allows: in-order,     *)
(* at-most-once dispatch, a halt that freezes knowledge, and a result that  *)
(* is either that knowledge or complete uncertainty.                        *)
ImplementsDispatch == Dispatch!Spec

=============================================================================
