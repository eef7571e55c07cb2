# A TLA+ verification of OpenUdon

OpenUdon is a Go library. It builds and verifies *reviewed packages* (a workflow with
its sources and credential slots), decides whether an approved plan may run, and checks
what an executor says it did. It executes nothing itself: hosts, workers, browsers,
humans and credential stores are outside it, and everything they submit is checked.
Its correctness is therefore about **what may be concluded from submitted documents,
in whatever order and from whatever time they come**. The modules here model those
decisions inside a host in which packages, workers, credentials, clocks and files
change between the steps.

## 1. The system

| component | source | state | operations | hard because |
|---|---|---|---|---|
| browser trace observer | `runevidence/browser.go`, `browserconfig` | per-leaf outcomes, last message, question, stop, session and save facts | `ObserveBrowserReport`: one case per event kind | the trace may hold any events in any order: late answers, stops, denials between staging and saving |
| browser-profile transaction | `browsertransaction` | none of its own: a snapshot and a digest the caller keeps | `New`, `Validate`, `CanonicalBytes`, `DecodeVerified`, `ValidateTransition` | restart from a rolled-back or altered file; alternating prepared/indeterminate |
| execution report v5 | `udonreport/v5.go`, `observation_v5.go` | `previous`, `stopped` of a single pass | `ReportV5.Validate`, `InventoryV5.Validate`, `ObserveV5`, `UnknownV5` | facts carried from step to step, time boundaries |
| browser run evidence wire | `runevidence/browser.go` | one document per attempt | `MarshalBrowserRunEvidence`, `VerifyBrowserRunEvidence` | the document may say more than the trace it is about |
| capture and browser verification | `browserverify` | receipt, report file, summary | `VerifyCaptureReceipt`, `CaptureArtifactsMatch`, `Inspect`, `ValidateSummary` | a report written while it is read; a receipt whose transaction went on; windows with and without a time |
| package build and verification | `packagev3/build.go`, `verify.go`, `seal.go`, ... | files that name each other by digest | `Build`, `Assess`, `Verify` | stored claims that no longer follow from the bytes |
| expression contracts | `packagev3/expression_contracts.go` | none: schemas and statuses of references | `contract`, `checkOutputs`, `checkExpressionValues`, `types` | conditions, parallel steps, repeated names and cycles decide what a static review may promise |
| browser supplement | `packagev3/browser.go` | the calls of a workflow, one per operation | `deriveBrowserSupplement`, `verifyBrowserSupplement`, `mergeBrowserCredentials` | a session must be open before it is used, in a package anyone may put together |
| runtime catalog | `packagev3/runtime_catalog.go` | claimed operation shapes | `buildShapes`, `verifyShapes`, `verifyRuntimeTable` | functions' shapes come from outside |
| execution plan and approval | `packagev3/execution_*.go`, `broker_authority.go`, `approval`, `authority` | approval documents | `DeriveExecutionPlan`, `DeriveBrokerAuthority`, `CheckBrokerAuthority`, `CheckExecutionApproval` | everything may change between approval and use |
| browser approval and authority | `packagev3/browser_authority.go`, `approval/browser.go`, `authority` | receipt, attempt configuration, authority | `ReviewBrowserConfig`, `CheckBrowserApproval`, `DeriveBrowserAuthority`, `CheckBrowserAuthority` | one receipt serves all retries of a run; deadlines and session expiry differ |
| run evidence | `runevidence/validate.go`, `verify.go` | evidence, artifacts, signature | `Validate`, `Verify`, `VerifySignature` | parts of two runs mixed, edited, signed again |
| review handoff v2 and package history | `handoff`, `packagev3/history.go`, `trust` | an archived package and a retained digest | `NewReviewHandoff`, `ValidateReviewHandoff`, `InspectHistory`, `trust.Inspect` | an edited archive sealed again by its keeper |
| legacy reports, authoring card, strict JSON, credential policy, schemas and tools | see `PROJECT.json` | none | stateless parsing and rendering | see section 7 |

How they interact: `Build` makes the files `Verify` accepts; `DeriveExecutionPlan` works
on what was verified; an approval names the package digest (v1) or the plan and a broker
authority (v2); `CheckExecutionApproval` re-derives all of it. The browser path goes from
the same plan through a receipt and an attempt configuration to a `BrowserAuthority`; the
configuration is then the expectation against which `ObserveBrowserReport` reads the
trace. `ReportV5` is used by the trace observer (the report must pass `ObserveV5` first)
and by `runevidence.Verify` (v3 and v4 evidence). Components call each other as pure
functions; there are no goroutines in this code. The interleavings are those of
host, human, worker, producer, keeper and clock *around* its calls, those of the events in
a trace, and those of `readStableRegularFile` with whoever writes the file it reads.
A capture receipt carries a reviewed transaction snapshot; a verification report becomes
a summary, and the summary a file of an archived review package.

`PROJECT.json` lists the hazards at the lines where they bite, each with the property
that would catch it, or with the reason why none does.

## 2. Modules

| module | models | role |
|---|---|---|
| `BrowserAttempt` | the expected configuration and host witnesses, and the checks made before the trace loop | operators |
| `BrowserTrace` | `ObserveBrowserReport` | state machine on `BrowserAttempt` |
| `BrowserDispatch` | what the observed evidence promises | abstract specification; `BrowserTrace` implements it (`ImplementsDispatch`) |
| `BrowserEvidence` | `MarshalBrowserRunEvidence`, `VerifyBrowserRunEvidence`, `ObservationV5.Validate` | operators and properties on `BrowserTrace` |
| `BrowserTransaction` | package `browsertransaction` with an operator's file and retained digest | state machine |
| `TransactionLifecycle` | the lifecycle drawn in `docs/browser-profile-transactions.md` | abstract specification (`ImplementsLifecycle`) |
| `CaptureReceipt` | `DecodeCaptureReceipt`, `VerifyCaptureReceipt`, `CaptureArtifactsMatch` | composition with `BrowserTransaction` |
| `ExecutionReport` | `ReportV5.Validate` as a step-by-step pass, `ObserveV5` | state machine, with a quantified reference definition |
| `ReviewedPackage` | records of a package, `Build`, `Verify`, `DeriveExecutionPlan` | operators shared by the next two |
| `BrokerExecution` | approval v1/v2, broker authority, admission | state machine on `ReviewedPackage` |
| `BrowserAuthorization` | receipt, attempts, browser authority, admission | state machine on `ReviewedPackage` |
| `RunEvidence` | recorder, keeper and `Verify` | state machine |
| `BrowserVerification` | `InspectBytes`, `ValidateSummary`, and what a truthful checker writes | operators |
| `ReviewHandoff` | manifests, their self digest, `ValidateReviewHandoff`, `trust.Inspect`, `InspectHistory` | operators |
| `ReviewArchive` | `readStableRegularFile` and the life of a report from file to archive | state machine composing the two above |
| `ExpressionContracts` | `contract`, the scopes, literal and schema projection, the output checks | operators; what recurses is a recursive function |
| `BrowserSupplement` | deriving and verifying the calls of a browser workflow | operators on `ExpressionContracts` |
| `RuntimeCatalog` | claimed and reproduced shapes | operators on `ExpressionContracts` |
| `PackageAssessment` | `Build`, `Assess`, `Verify` and a native run of the reviewed workflow | state machine composing the three above |
| `MC*` | small instances for TLC | |
| `*_proofs` | theorems and proofs | |

### How state and actions correspond to the code

**`BrowserTrace`.** One variable per local of the loop in `ObserveBrowserReport`; each
event kind of the `switch` is an action whose guard is the negation of that case's
refusals. `Refuse` is any refused event, because every refusal returns the same
`invalid` result. `Admit` is the code before the loop, `Accept` the code after it.
`events` counts the events read: the code refuses a trace of more than 4096 events before it
reads the first (`browser.go:159`), the model refuses the event that would be one too many
(`OneEvent`). The verdict is the same, and `Refuse` is possible in every state.
Leaves count from 1 (the code: from 0). `asked`, `approved`, `granted`, `spent`,
`fellBack` and `resolved` are history: no guard reads them except the bound on `asked`.
Comparisons of report times with deadline and session window are one Boolean of the
attempt, `timely`, since they do not depend on the trace.

**`BrowserTransaction`.** `Record` is one operator step: decode the file against the
retained digest, propose a successor, `ValidateTransition`, encode, replace file and
digest. `Replace` puts an earlier or a forged snapshot into the file. A digest is what
it identifies, so `DecodeVerified` compares canonical contents. Identity fields are one
record; `order` and `wellFormed` say whether its arrays are sorted and its fields pass
their own checks, so that canonicalisation is not the identity.

**`ExecutionReport`.** `CheckHeader`, `CheckStep` and `Finish` run first on the report
that `InventoryV5.Validate` builds from the expected inventory and then on the submitted
one; `previous` and `stopped` are the code's. `ZeroTime` is the instant for which Go's
`IsZero` is true, kept apart from "no finish".

**`BrokerExecution`.** `VerifyPackage`, `Confirm`, `IssueV1`, `IssueV2` and `Execute` are
the calls of the library. `Select`, `Rotate` and `Tick` are the host changing worker,
credential revision and time. `shown` remembers what the world was when the approval
was issued, `executed` what was admitted.

**`BrowserAuthorization`.** `Finalize` is the human's receipt (`ReviewBrowserConfig`
and finalisation), `OpenAttempt` a configuration for a new attempt, `Derive` and `Admit`
the authority's derivation and check.

**`RunEvidence`.** `Record` is the recorder's document for a finished attempt, `Supply`,
`ChangeEvidence`, `ChangeFile` and `Resign` the keeper, `Check` is `VerifySignature`
followed by `Verify`.

**`BrowserEvidence`** adds no state. A document is a record of what the wire's fields
identify. Verification observes the report again; the observation is a function of report
and witnesses, so it is what the trace ended with. `Documents` are the documents anyone
could write for the attempt.

**`CaptureReceipt`** adds the stored receipt, the three digests the host retains, the
bundle of files and a clock to the transaction's state. `Import` writes a receipt of the
reviewed snapshot; `Rewrite` and `ChangeFile` change receipt and files; `VerifyCapture` is
the library's call, with the current time or with none (0, Go's zero time). The
transaction goes on underneath.

**`ReviewArchive`.** `Lstat`, `Open`, `ReadBlock` and `Inspect` are the system calls of
`readStableRegularFile` followed by `InspectBytes`; `Replace`, `Truncate` and `WriteBlock`
are a writer that renames a file into place or overwrites it, `Modify` lets a write fall
into the same tick of the modification time as the one before. `Seal` builds the manifest
and retains the package digest, `Keep` is the keeper's edits, `InspectArchive` is
`InspectHistory` followed by `ValidateSummary`. `coarse` is history: it records that the
file was changed under the reader within one tick, which `Stat` cannot show.

**`PackageAssessment`.** `Build` and `Verify` are the library's, `Reassemble` is another
producer. `RunStep`, `SkipStep` and `Finish` are the external runtime, which evaluates
as the native evaluator used by the package's tests does: outputs in lexical order, each
seeing those before it, an unresolved reference ending the run. It follows the document and
never the supplement, so the supplement's claims are tested. A schema is one of unknown,
any, false, typed, constant or object (open, closed, restricted). A response is any
sample value that conforms to the operation's *actual* shape, whatever the package claims.
`Values`, `Schemas` and `Expressions` are the data a document may hold and `Conforms` is the
external schema validator; `DataAssumption`, `ExpressionsAssumption` and
`DocumentsAssumption` say what is asked of them (below). `contract` is a function on calls
(reference, scope, active outputs, depth), each depending on deeper calls only, and
`Findings` are counted by `Tally` in the order in which `Assess` adds them. `Unvalidated`
is what the code exempts: `Assess` hands the request of an authentication or a registration
to no binding validator, so only an *incompatible* reference of it is a finding, and
`ContractSound` asks no more of it.

## 3. Runs

Run `tlc -config X.cfg M` for the pairs below; `PROJECT.json` names the properties.

| run | cfg / module | what it shows |
|---|---|---|
| `dispatch` | `MCBrowserDispatch` / `MCBrowserTrace` | whatever trace is submitted, with or without a saved session and under every combination of rights, access outcome, lease and permission: leaves are dispatched in order and under the lease, known outcomes answer the last message, a stop freezes knowledge, a grant carries one message, a save needs the right candidate, no denial and no fallback; the result is exact or entirely uncertain, no evidence verifies that says more; `BrowserDispatch` is implemented |
| `honest` | `MCBrowserHonest` / `MCBrowserTrace` | an honest host whose trace leaves room for the teardown always ends validated, with evidence that verifies |
| `transaction` | `MCBrowserTransaction` | rollback and forgery cannot make the recorded snapshots tell two stories; the lifecycle is implemented; an adopted capture is the imported one, and an untouched one verifies exactly in its window, whatever its transaction became |
| `report` | `MCExecutionReport` | the one-pass check accepts exactly the reports that the quantified definition calls consistent and matching |
| `report_zero_time` | `MCReportZeroTime` / `MCExecutionReport` | violation: finding 1 |
| `broker` | `MCBrokerExecution` | what runs was approved, confirmed and fit; an undisturbed approval keeps working |
| `browser_authority` | `MCBrowserAuthorization` | an admission is on the reviewed terms and of the current attempt, package and worker; an authority admits up to its deadline although its saved session expires first |
| `evidence` | `MCRunEvidence` | trusted evidence is unchanged, its step results and claimed success are those of its own run's report; honest evidence verifies |
| `evidence_gate_name` | `MCEvidenceGateName` / `MCRunEvidence` | violation: finding 2 |
| `archive` | `MCReviewArchive` | what is read was written as a whole; exactly the truthful reports are accepted; an inspected archive is the sealed one; a summary stays valid while its profile is in force |
| `assessment` | `MCPackageAssessment` | what the review proves of a reference holds in every run; a verified supplement tells how sessions are opened and used |
| `assessment_missing` | `MCAssessmentMissing` / `MCPackageAssessment` | violation: finding 3 |

Each property of a passing run has a mutant in `PROJECT.json`: a plausible bug in one
mapped definition that makes TLC report that property.

### Bounds and why they are enough

- `dispatch`: plans of two and three leaves covering registration, authentication and
  action, one with a second authentication leaf that could be confused with the saving one,
  all combinations of rights, 2 requests, one question text asked up to twice,
  `MaxEvents` 4096 as in the code. Three leaves give an earlier, a current and a later one;
  two questions are needed for one to replace the other, and a continuation spends a
  question, so an attempt sends at most a message per leaf and one per question: two
  continuations of one leaf followed by another leaf. `VIEW readerVars` leaves `events`
  out of the comparison of states: TLC reaches every state of the other variables by a trace
  of at most 31 events, far from the limit, so no guard it evaluates there is decided by the
  count, and a state with a higher count has no successors that the one kept lacks. No
  property of the run reads `events` but `TypeOK`, and that part of it is a theorem. Requests are interchangeable (`MessageSymmetry`): no definition or
  property tells them apart, and the run checks no liveness.
- `honest`: the plans of `dispatch`, restricted to fully granted sessions, `MaxEvents` 16: the
  shorter plans are completed within it and the longer ones run out of events in
  mid-attempt, where the host has to turn to its teardown. `events` is part of the state; no
  symmetry, no view.
- `transaction`: 2 packages, 2 generations (interchangeable, `GenerationSymmetry`), 4
  identities (an authentication and a registration, the latter also out of canonical order,
  and one whose profile version does not fit its wire version), 2 forgeries. A swap needs two packages; longer chains
  repeat the prepared/indeterminate loop, which TLC explores in full. Captures: 4 paths, 3
  contents of which one breaks the size limits, `MaxDeclared` 2 of the code's 128 files in a
  receipt and `MaxFiles` 3 of its 512 in a bundle, one change to receipt or files, and
  instants before, in and after the window. A receipt of three files declares one too many, and a
  bundle of four is refused whichever of them the receipt declares. The checks read receipt and files afresh, so
  a second change only leads to another changed pair.
- `report`: 2 steps, times {0, 1, 2}, malformed fields and documents. The pass relates
  neighbouring steps and the header; the theorem covers any length and any times.
- `broker`: 5 contents (fit, unfit, undecided, function, mixed), 2 workers, 1 scheme with
  2 revisions, `MaxTime` 1, 3 forgeries. Two values of everything that may change between
  approval and execution; windows start and end at each instant.
- `browser_authority`: 2 contents, 2 workers, 2 credential revisions, 1 session, deadlines
  {2, 3}, 2 attempts, `MaxTime` 2, so that a session can expire before a deadline. `Focus`
  keeps package and worker fixed while the terms are other than the plain ones: the checks
  compare terms and identity field by field, and each kind of change is met with
  every state of the other's plain side.
- `evidence`: v2 to v4, up to 2 attempts in v3 (`Repeated`) and 1 otherwise, 1 work, 2 edits (a
  document and a file, or a file and a signature).
- `archive`: reports of two blocks (the head with identity and verdict, the body with the
  checks), so that a torn read is a head of one and a body of another; 2 writes, 2 edits (a
  change and a reseal), 3 instants; one profile with a sequence, a presence output and a
  typed output, `MaxActions` 2 of 64; live reports with each check wrong in each way, portability reports with
  every pair of engine results and every order. A document outside `Rewrites` is
  inspected and never written over: the four that are already differ in every way the
  reader can notice.
- `assessment`: every reference kind on every response shape, two steps with a condition,
  a parallel type or a repeated name, variables with and without component values,
  functions with true and untrue claims, and browser workflows of up to two calls;
  `MaxDepth` 4 of the code's 64, `MaxFindings` 1 of 128, so that the cap is met, `MaxCalls`
  2, one edit by another producer. The entry is the first workflow. `Values`, `Schemas` and
  `Expressions` are those of the documents, closed under parts as `DataAssumption` asks; the
  theorems cover any others, and any depth, limit and number of edits.

`BrokerExecution`, `BrowserAuthorization` and `RunEvidence` stop at their first
execution, admission or acceptance, and the archive's reader at its first accepted
report. No check in the code reads what was decided
before, so a second decision is one of the first decisions of another behaviour.

### Deadlock and fairness

Deadlock is checked for the transaction, which can always go on. Everywhere else the
modelled thing ends (a trace is read, a report is validated, an attempt is admitted) or
the host may simply stop, so `CHECK_DEADLOCK FALSE`.

Only `honest` assumes fairness: `HonestSpec` has `WF_vars(Teardown /\ Disciplined)`.
A trace is a finite list that the host completes before it calls the observer, and the
observer accepts it only if it ends in join and release; so a host that launched and
wants its report observed carries teardown through. Nothing is assumed about progress
before teardown: leaves may never be tried, answers may never come. `Disciplined` is what
the host owes: no malformed event, contexts closed before the join, its non-dispatch
proof supplied, nothing sent if it holds one, and **room in the trace**: whatever it starts,
the events still owed (`EventsOwed`: the message it claimed, a close for every registration it
opened or claimed, the join, the proof, the release) must fit into the longest permitted
trace. The last is a real obligation, which the code leaves to the host: a true report
with a trace of more than 4096 events is discarded (`browser.go:159`) and its attempt is
recorded as uncertain. `HonestRecorded` says that under these obligations the guards never
leave the host without an accepted ending, up to and including a trace of exactly the longest
length, and that the evidence it then writes is accepted by the marshaller and by a
verifier. An obligation that leaves out the closes is too weak: TLC then finds a host that
cannot finish.

## 4. What is proved

The theorems hold for every value of the constants under the named `ASSUME`s: constants
have their types, absent values differ from present ones, bounds are natural numbers.
TLC evaluates these assumptions on every run. Some say more.

- `PrefixAssumption` (`ReviewArchive`): a report cut short decodes to nothing unless it is a
  report itself, which is so because a JSON object ends with its closing brace.
- `DataAssumption` (`PackageAssessment`): values and schemas contain their parts, and
  `Conforms` is what JSON Schema says of the keywords kept (`Admits`).
- `ExpressionsAssumption`: output names are distinct and none is empty; a reference has one
  of the roots the public parser knows, and a header has no path below it.
- `DocumentsAssumption`: a document has the shape the decoders leave it in (`DocumentFits`):
  steps name operations that exist, a shape declares each output once and its body under the
  name of its protocol, outputs are among the names, and a request's expressions are parsed
  in a context without a response (`ExpressionContext`, `build.go:317`). No
  assumption is made about references, conditions, repeated step ids, cycles, claimed shapes,
  supplements or what other producers write.

Two theorems have a hypothesis of their own. `SpecSuccessIsReported` assumes
`TRUE \notin Padding`, that is, gate names written without surrounding blanks; with them
the property is false (finding 2). `SpecArchiveIsSealed` assumes `BlankIsNoDigest`: a digest
is never the empty text, as SHA-256 in hexadecimal never is; in the model a digest is what it
identifies, and nothing else keeps that apart from `Blank`.

| module | inductive invariant | theorems |
|---|---|---|
| `BrowserTrace_proofs` | `Inductive` | type correctness; `DispatchInOrder`, `ResolvedByLastMessage`, `ContainedDispatch`, `SaveFollowsCandidate`, `DenialWithholdsSave`, `FallbackStaysFresh`, `NonDispatchHolds`, `EvidenceSound`; action properties `StopLatches`, `OneMessagePerGrant`; refinement `ImplementsDispatch`; of the evidence wire, `EvidenceIsObserved` |
| `CaptureReceipt_proofs`, of the transaction | `Inductive` | `VerifiedIsLast`, `OneStory`, `PromotionEarned`, `TerminalIsFinal`; refinement `ImplementsLifecycle` |
| `CaptureReceipt_proofs`, of captures | `CaptureInductive` | `AdoptedAsImported`, `UntouchedVerifies`, `AdoptedCorresponds`; refinement `CaptureIsTransaction` |
| `ExecutionReport_proofs` | `Inductive` | `ValidatedIffConsistent` |
| `BrokerExecution_proofs` | `IInv` | `ExecutedAsApproved`, `ExecutedIsFit`, `ExecutedAsConfirmed`, `ApprovalKeepsWorking` |
| `BrowserAuthorization_proofs` | `IInv` | `AdmittedAsReviewed`, `AdmittedIsCurrent`, `AuthorityKeepsWorking` |
| `RunEvidence_proofs` | `IInv` | `TrustedIsRecorded`, `ResultsAreReported`, `SuccessIsReported`, `RecordedVerifies` |
| `ReviewArchive_proofs` | `IInv` | `WrittenWhole`, `AcceptedIffTruthful`, `ArchiveIsSealed`, `SummaryKeepsWorking` |
| `PackageAssessment_proofs` | `SessionInv`, `ContractInv` | `SessionBeforeUse`, `ContractSound`; of the operators, `ChildSays`, `ContractLaw`, `StatusOutcomes`, `EvaluateSound`, `ResolveSound`, `TallyWorst`, `TallyOrderless`, `OperationReviewed`, `WorkflowReviewed` |

Why the strengthening is needed:

- **Trace.** `DispatchInOrder` alone is not inductive: a claim and its send are two
  events, so what the claim checked must still hold at the send (`PendingJustified`).
  That needs started leaves to be a prefix (`LeavesConsistent`). A late answer after a
  stop is refused only because nothing in flight is left unterminated
  (`StoppedIsTerminal`). `PromptFresh` ties answer and recheck to the current question;
  `StagesOrdered`, `SaveJustified`, `FallbackNarrowed` and `ResultJustified` keep the
  facts under which a stage, save, fallback or result was admitted. Each part is framed
  by the variables it reads; then there is one lemma per action.
  `EventsCounted` is proved apart from the rest: a message takes two events, its claim and its
  send, so the limit of 4096 on message ordinals (`browser.go:379`) never refuses anything in
  a trace that is not too long.
- **Transaction.** The retained digest is that of the last recorded snapshot
  (`DigestOfLast`), and the last snapshot determines identity and preparation of all the
  earlier ones (`LastTellsAll`); so a file that verifies is the last one, and whatever a
  forger supplied is irrelevant.
- **Report.** `PrefixRead`: after n steps the prefix is consistent by the quantified
  definition, and `previous` and `stopped` summarise it. Both directions of the
  equivalence follow when the last step has been read.
- **Broker, authorization, evidence.** History variables remember what was shown; the
  invariants say that the documents on file still say exactly that, and that nothing
  moves after the decision, so the check that admitted it can be unfolded. The properties
  that say a decision *must* be favourable need the other direction: that an approval on
  file carries an authority derived from what was shown (`IssuedInv`), that a confirmed
  plan could be derived (`ConfirmedInv`), and that an authority could be derived at some
  moment up to now (`DerivedThen`), from which it still can be as time passes
  (`AuthorityAges`). For evidence `RecordedVerifies` unfolds `Verify` on what the recorder
  writes, one lemma per check, and `GateInv` carries the padding of gate names through the
  edits.
- **Capture.** Each property is about files and receipts that changed since the import, so
  the invariant ties what the host retained to the imported receipt and that receipt to a
  recorded, reviewed snapshot (`KeptInv`), and what was adopted to the same receipt
  (`AdoptedInv`). `CaptureNext` takes the transaction's own `Next` or leaves its variables
  alone: this is `CaptureIsTransaction`, and with it everything proved of
  `BrowserTransaction` holds while captures are made.
- **Archive.** `WrittenWhole` is a statement about the end of a read; the invariant is one
  about its middle. What was read so far are the first blocks of the file *as it is now* for
  as long as its modification time says so (`ReadSoFar`), and what is in the file together
  with what its writer has still to write is one document (`CheckerInv`). The second `Stat`
  then leaves a prefix of a document, of the length of the whole or cut short, where
  `PrefixAssumption` applies. The proof
  uses the comparison of modification times (without it: the mutant `SizeUnchanged`); the
  comparison of sizes it does not need. `AcceptedIffTruthful` is a lemma about two operators: the
  requirements a profile derives determine each check of a truthful report, and each check
  that passes is one of those. `SummaryInv` is `SummaryKeepsWorking` from the time of
  acceptance on. For `ArchiveIsSealed`, acceptance by `InspectHistory` forces
  the digests of every file but the manifest, and of the manifest in normal form
  with its own entry blank; the entry is then its self digest, so the files are the sealed
  ones. In the other direction the sealed archive passes each check, `SortInputs` included.

- **Assessment, sessions.** `SessionBeforeUse` speaks of one operation and its call; whether
  the session it uses is open depends on all the steps before it. `SessionInv` says that the
  supplement of a verified package is the one `deriveBrowserSupplement` makes again from the
  document and the permissions read back from it (`Verified`), and that the steps of a browser
  package run in order, with exactly the sessions open that the derivation's loop held after
  as many steps (`InOrder`). The rest is about the loop: it accepted every step
  (`LoopAccepts`), so no operation is used twice, and the call found for an operation is the
  one made for its step (`FoundCall`). Whatever a producer writes before `Verify` is
  irrelevant: nothing has run.
- **Assessment, contracts.** `ContractSound` is about a value at run time and a contract found
  without running anything. It rests on three arguments.
  *The contract itself*: `contract` recurses through references to other outputs, in cycles
  if a document has them. The depth grows with each call and ends at `MaxDepth`, so the
  recursion has a solution (`ContractLaw`, by induction on the distance to `MaxDepth`), and a
  contract may be unfolded once.
  *The value*: a schema that says what a value is still does so below a path (`ChildSays`),
  so a compatible contract says what evaluation gives if the results and outputs it refers to
  are as their own contracts say (`EvaluateSound`). The code's conditions are what makes that
  enough: an earlier step of a sequence, the only one of its id, without a condition, has
  run and left all its outputs.
  *The outcome*: `Tally` never forgets a finding that was not kept (`TallyWorst`), does not
  depend on the order they come in (`TallyOrderless`), and every
  reference that is evaluated is among those checked (`OperationReviewed`,
  `WorkflowReviewed`).
  `ContractInv` puts them together: the results at hand are those of steps that left all
  their outputs, each as its contract says, and the assessment is the one of the document
  that runs. It is relative to `SessionInv`, which says what was verified.

Induction: the library's rules take an operator as parameter and cannot be used. Induction
over the natural numbers is stated for sets instead (`SetInduction`, from the theorem that
`<` is well-founded), which reaches the loops and the depths of `PackageAssessment_proofs`;
a recursive function on `0..n` is shown to satisfy its equations first (`LoopLaw`,
`LookupLaw`, `JoinedLaw` and others).

Proving them changed the models in four places. Three were not determined before.
`TruthfulEngine` had a CASE with overlapping guards, whose value TLA+ leaves open and TLC
takes from the first; it is an IF now. `buildRequirements` had a UNION that the parsers read
differently; it is parenthesised. Inputs are sorted by an order on paths and positions
(`InPathOrder`), as `sort.SliceStable` does, where TLC's own sorting operator has no
definition to reason from. In the fourth, the operators of the assessment were recursive
and are recursive functions now; `StepContract` has the code's guard for a scope without a
workflow, and the findings are a sequence from which the outcome is counted.

Only model-checked:

- `HonestRecorded`: liveness under fairness is out of the prover's reach, as is `ENABLED`.
- The three properties that do not hold (section 5).
- What `HasDynamic` and `Conforms` compute on nested data. The proofs need no more than
  that a value found dynamic has an unknown schema, and the equation in `DataAssumption`.

## 5. Findings

1. **Zero finish time** (`report_zero_time`, `udonreport/v5.go:99`). The step checks ask
   `finish.IsZero()` for "the report has no finish". A terminal report whose
   `finished_at` is `0001-01-01T00:00:00Z` does have one; its steps may then end after
   it, although the comment at `v5.go:50` promises timestamp consistency.
2. **Padded gate name** (`evidence_gate_name`, `runevidence/verify.go:161`). `Validate`
   trims gate names, `evidenceGateStatus` does not. Evidence whose passing
   `executor_invocation` gate is written with surrounding blanks is valid, but `Verify`
   does not see process success and demands no success report, which
   `docs/per-step-run-evidence.md:36` requires. With unpadded names the property holds
   (`evidence`).
3. **Missing output projections** (`assessment_missing`,
   `packagev3/expression_contracts.go:359`). A `$steps` or `$outputs` path that a constant
   or a closed object proves absent is projected to the schema `false`, which counts as
   known, and the reference is "compatible"; only the `$response` branch (line 412) makes
   `false` "incompatible". The package is assessed compatible and its run ends on the
   unresolved reference, although `docs/package-v3.md:178` says that missing output
   references block compatible review. The run supposes that the external binding and flow
   checks report nothing either. `ContractSound` holds nevertheless: the schema `false`
   does say that there is no value.

Noted while reading, without a run: `docs/browser-profile-transactions.md` lists older
candidate schema versions than `validCandidateSchema` accepts.

## 6. Plan

Done, in order of importance: the trace observer with its promise; the transaction with
its lifecycle; the report; packages, approvals and authorities; run evidence; proofs of
each; the browser evidence wire on the trace; captures on the transaction; verification
reports, handoff and history as one archive; assessment, supplement and catalog against
native runs.

Every invariant, action property and refinement of the passing runs is now stated by a
theorem; the liveness property `HonestRecorded` is checked.

What could follow:

1. `BrokerExecution` and `BrowserAuthorization` as implementations of one abstract admission
   (reviewed terms, then a decision that cannot be taken back), so that what they have in
   common is stated once.
2. A self-contained lemma on `InspectHistory` for other manifests than the one `Seal`
   builds: any archive it accepts determines its files.

## 7. Not modelled

- JSON decoding (duplicate keys, depth, node and size limits), canonical encoding,
  SHA-256, PEM and RFC 3339 parsing: a refused document is a malformed value, a digest is
  what it identifies.
- In `BrokerExecution` and `BrowserAuthorization`, what `Assess` finds is the constant
  `fit` of a content; `PackageAssessment` models how it is found. Parsing of expression
  text, JSON Schema compilation, the public library's binding and flow checks, profile
  decoding and the v2 projection are external: their outcomes are fields of a document, and so
  is that of the comparison of the source inventory (`source.inventory`, `build.go:265-272`).
  Conditions and repetition on operations follow the external native semantics and are not
  run. The iteration order of output names changes only which findings the cap drops: outcome,
  count and truncation are the same (`TallyOrderless`); the texts are not modelled.
- Nested steps, and the cases and default of a workflow. `Assess` walks them
  (`build.go:393-425`) for request values of a step only and never looks at their outputs;
  a plan refuses them (`execution_plan.go:93-95`, `:154`), so whatever runs through a plan is
  flat.
- Authoring card, credential patterns, schemas, fixtures and tools: field-by-field text
  checks or rendering of single documents, without state, order or a second party; a model
  would restate the checks.
- Legacy report wires beyond what evidence reads of them (readable or not, and status).
- Serialising two operators of one transaction and current credential custody at browser
  admission are the host's duties; the code has no check to model.
