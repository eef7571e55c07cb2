--------------------------- MODULE BrowserEvidence ---------------------------
(***************************************************************************)
(* The closed browser-run-evidence wire of runevidence/browser.go, kept    *)
(* after the attempt that BrowserTrace reads: what MarshalBrowserRunEvidence *)
(* agrees to write and what VerifyBrowserRunEvidence accepts later.        *)
(* Verification repeats ObserveBrowserReport on the report and the host    *)
(* witnesses the verifier supplies; the observation is a function of them, *)
(* so repeating it gives the verdict and the observation the trace ended   *)
(* with.  The document itself is untrusted and may say anything.           *)
(*                                                                         *)
(*   bound     identities: version, scope, run, tier, approval state,      *)
(*             config (with its authority) and inventory are the expected  *)
(*   dry       DryRun                                                      *)
(*   executor  [invoked, mode, report]; report is what the digest and size *)
(*             identify: the outcomes the report tells, or NoReport        *)
(*   steps     StepExecution: its state and the outcome of each leaf       *)
(*   created   CreatedAt against the observation's FinishedAt, or          *)
(*             StartedAt when that is empty: "early" or "late"             *)
(***************************************************************************)
EXTENDS BrowserTrace

NoReport == <<>>

UnknownV5(state) == [state |-> state, outcomes |-> [i \in Leaves |-> "unknown"]]

(* ObservationV5.Validate: a validated observation is a valid report, any    *)
(* other claims nothing.                                                     *)
ObservationValid(steps) ==
  IF steps.state = "validated" THEN ReportShape(steps.outcomes)
  ELSE steps = UnknownV5(steps.state)

DryExecutor == [invoked |-> FALSE, mode |-> "dry_run", report |-> NoReport]
NativeExecutor(report) == [invoked |-> TRUE, mode |-> "native", report |-> report]

Validated(told) == [state |-> "validated", outcomes |-> told]

(* Documents with the expected identities, written late enough: any flag,    *)
(* executor and step results, with outcomes from claims.                     *)
Documents(claims) ==
  [bound: {TRUE}, dry: BOOLEAN,
   executor: {DryExecutor} \cup {NativeExecutor(c) : c \in claims},
   steps: {UnknownV5("dry_run")} \cup {Validated(c) : c \in claims}, created: {"late"}]

browserEvidenceMetadataValid(e) ==
  /\ e.bound
  /\ IF e.dry THEN e.executor = DryExecutor /\ e.steps.state = "dry_run"
     ELSE /\ e.created = "late" /\ e.steps.state = "validated"
          /\ e.executor.invoked /\ e.executor.mode = "native"
          /\ e.executor.report # NoReport
  /\ ObservationValid(e.steps) /\ ConfigValid(attempt)

(* Mutant: the written step results are believed, not observed again. *)
ObservedInDocument(e, report) == e.steps.state = "validated"

(* ObserveBrowserReport on the verifier's report and witnesses. *)
ObservedAgain(e, report) ==
  /\ verdict = "validated" /\ report = observation
  /\ e.steps = Validated(observation)

(* dry and report are the verifier's own; NoReport is an empty ReportJSON. *)
VerifyBrowserRunEvidence(e, dry, report) ==
  /\ e.dry = dry
  /\ IF dry
     THEN e.executor = DryExecutor /\ report = NoReport /\ e.steps = UnknownV5("dry_run")
     ELSE /\ e.executor.invoked /\ e.executor.mode = "native"
          /\ e.executor.report = report
          /\ ObservedAgain(e, report)
          /\ e.created = "late"
  /\ browserEvidenceMetadataValid(e)

(* What a host writes after the attempt: the observation it was given. *)
Recorded ==
  [bound |-> TRUE, dry |-> FALSE, executor |-> NativeExecutor(observation),
   steps |-> Validated(observation), created |-> "late"]

MarshalBrowserRunEvidence(e) == browserEvidenceMetadataValid(e)

-----------------------------------------------------------------------------
(* Outcomes a document may claim: the observed ones, all succeeded, or       *)
(* nothing started.                                                          *)
Claims == {observation} \cup {[i \in Leaves |-> o] : o \in {"succeeded", "not_started"}}

(* Evidence that verifies says only what the messages show, whoever wrote    *)
(* it: a success was answered by the last message and its registration       *)
(* context closed, an unstarted leaf got no message, and an attempt that     *)
(* ended in uncertainty has no evidence of a run at all.  Dry-run evidence   *)
(* claims nothing of any leaf.                                               *)
EvidenceIsObserved ==
  verdict \in {"validated", "invalid"} =>
    \A e \in Documents(Claims) :
      VerifyBrowserRunEvidence(e, e.dry, e.executor.report) =>
        \A i \in Leaves :
          IF e.dry THEN e.steps.outcomes[i] = "unknown"
          ELSE /\ verdict = "validated"
               /\ e.steps.outcomes[i] = "succeeded" =>
                    /\ sent[i] /\ resolved[i] = lastMessage[i].ordinal
                    /\ Kind(i) = "registration" => closedRegistration[i]
               /\ e.steps.outcomes[i] = "not_started" => lastMessage[i] = NoMessage

(* The observer never traps an honest host: once launched, its trace ends    *)
(* in a validated observation, whatever happened on the way, and the         *)
(* evidence it then writes is accepted by the marshaller and by a verifier.  *)
(* It is enough that the host keeps room for its teardown within the longest *)
(* permitted trace (EventsOwed): one that used the trace up would have its   *)
(* true report discarded.                                                    *)
HonestRecorded ==
  launchDone ~> /\ verdict = "validated"
                /\ MarshalBrowserRunEvidence(Recorded)
                /\ VerifyBrowserRunEvidence(Recorded, FALSE, observation)
=============================================================================
