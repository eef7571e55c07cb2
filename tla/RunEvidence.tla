---------------------------- MODULE RunEvidence ----------------------------
(***************************************************************************)
(* runevidence.Verify: what retained evidence of a run may claim.          *)
(*                                                                         *)
(* A recorder writes, for every finished attempt, an evidence document     *)
(* that names its report and async files by digest, and signs it.  The     *)
(* documents are kept by someone else: what is later supplied to Verify    *)
(* may be another attempt's, or changed in any field or file, and signed   *)
(* again with another key.  The host verifies what it is given against the *)
(* identity and inventory it retained itself.                              *)
(*                                                                         *)
(* A digest is abstracted to the bytes it identifies; the package, handoff,*)
(* approval, configuration and workflow digests of an attempt to its work, *)
(* which also determines its steps and broker operations.                  *)
(***************************************************************************)
EXTENDS Integers, Sequences

CONSTANTS Works,        \* what a run executes
          Versions,     \* evidence versions the recorder writes
          Paths,        \* artifact paths
          Padding,      \* may a gate's name be written with blanks around it
          Repeated,     \* bound: versions in which several attempts are written
          MaxAttempts, MaxEdits,
          None

ASSUME EvidenceAssumption ==
  /\ Works # {} /\ Versions \subseteq {"v2", "v3", "v4"}
  /\ {"report.json", "async.json"} \subseteq Paths /\ Padding \subseteq BOOLEAN
  /\ MaxAttempts \in Nat /\ MaxEdits \in Nat /\ None # "signer"

Runs == 1..MaxAttempts
Identity == [run: Runs, work: Works]
Statuses == {"success", "error", "incomplete"}
Unknowns == {"dry_run", "missing", "invalid", "mismatched"}

(* Bytes of an artifact.  A report is readable as wire v5, as a wire before *)
(* it ("v4"), or not at all; a bundle is well formed or not.                *)
Report == [kind: {"report"}, wire: {"v5", "v4", "bad"}, of: Identity, status: Statuses]
Bundle == [kind: {"bundle"}, valid: BOOLEAN, records: 0..2]

(* The documents: absent parts are None. *)
Observation ==
  [inventory: Identity, state: Unknowns \cup {"validated"}, status: Statuses \cup {"none"}]
Gate == [padded: BOOLEAN, status: {"pass", "fail"}]
ReportRef == [path: Paths, bytes: Report]
AsyncRef == [path: Paths, bytes: Bundle, records: Nat]

Evidence ==
  [version: {"v1", "v2", "v3", "v4"}, identity: Identity, browser: BOOLEAN,
   complete: BOOLEAN, required: BOOLEAN, dry: BOOLEAN, invoked: BOOLEAN,
   mode: {"dry-run", "internal-runner", "external-runner"},
   stage: {"dry-run", "executor", "preflight"}, gate: Gate \cup {None},
   broker: Identity \cup {None}, step: Observation \cup {None},
   report: ReportRef \cup {None}, async: Seq(AsyncRef)]

Signature == [evidence: Evidence, key: {"signer", "other"}]

ASSUME AbsenceAssumption ==
  None \notin Identity \cup Observation \cup Gate \cup ReportRef \cup Bundle \cup Signature

VARIABLES
  recorded,   \* per attempt: the evidence, files and signature it left
  evidence,   \* the document supplied, or None
  files,      \* the artifacts supplied with it: path -> bytes
  signature,  \* the signature supplied, or None
  edits,      \* changes made to what is supplied
  accepted    \* history: the options under which it was accepted, or None

vars == <<recorded, evidence, files, signature, edits, accepted>>

-----------------------------------------------------------------------------
(* udonreport: the observation of a report for an expected inventory, and   *)
(* the reader of the earlier wires.                                         *)
Unknown(inventory, state) == [inventory |-> inventory, state |-> state, status |-> "none"]

(* Mutant: the report's run and workflow are not compared. *)
ObserveAny(inventory, data) ==
  IF data.kind # "report" \/ data.wire # "v5" THEN Unknown(inventory, "invalid")
  ELSE [inventory |-> inventory, state |-> "validated", status |-> data.status]

ObserveV5(inventory, data) ==
  IF data.kind # "report" \/ data.wire # "v5" THEN Unknown(inventory, "invalid")
  ELSE IF data.of # inventory THEN Unknown(inventory, "mismatched")
  ELSE [inventory |-> inventory, state |-> "validated", status |-> data.status]

(* Only wire v5 can report a run that has not ended. *)
Decode(data) ==
  data.kind = "report" /\ data.wire = "v4" /\ data.status \in {"success", "error"}

ObservationValid(o) ==
  \/ o.state = "validated" /\ o.status \in Statuses
  \/ o.state \in Unknowns /\ o = Unknown(o.inventory, o.state)

-----------------------------------------------------------------------------
(* Validate: the document by itself.  gate is the executor_invocation gate; *)
(* required tells whether the seven other gates pass; complete, whether the *)
(* mandatory fields are there.  Names and statuses are trimmed here.        *)
validateRunEvidenceGates(e) ==
  /\ e.required
  /\ IF e.dry
     THEN e.gate = None /\ ~e.invoked /\ e.mode = "dry-run" /\ e.stage = "dry-run"
     ELSE /\ e.gate # None /\ e.invoked
          /\ \/ e.mode = "internal-runner" /\ e.stage = "executor"
             \/ e.mode = "external-runner" /\ e.stage = "preflight"

validateBrokerEvidence(e) ==
  IF e.version # "v4" THEN e.broker = None
  ELSE /\ e.broker # None /\ e.broker = e.identity
       /\ e.step # None /\ e.step.inventory.work = e.broker.work

Validate(e) ==
  /\ ~e.browser /\ e.complete
  /\ validateBrokerEvidence(e)
  /\ e.version # "v1" => validateRunEvidenceGates(e)
  /\ IF e.version \in {"v3", "v4"}
     THEN /\ e.step # None /\ ObservationValid(e.step)
          /\ e.step.inventory.run = e.identity.run
          /\ e.dry <=> e.step.state = "dry_run"
     ELSE e.step = None

(* Verify reads the gate again, without trimming. *)
evidenceGateStatus(e) == IF e.gate # None /\ ~e.gate.padded THEN e.gate.status ELSE "none"

(* Mutant: any key whose signature matches is good enough. *)
IntegrityOnly(e, s, trusted) == s # None /\ s.evidence = e

VerifySignature(e, s, trusted) ==
  s # None /\ s.evidence = e /\ (trusted # None => s.key = trusted)

AsyncPaths(e) == {e.async[n].path : n \in DOMAIN e.async}

validateAsyncEvidenceBundle(data) == data.kind = "bundle" /\ data.valid /\ data.records > 0

AsyncFits(e, f) ==
  /\ \A m, n \in DOMAIN e.async : e.async[m].path = e.async[n].path => m = n
  /\ \A n \in DOMAIN e.async :
       LET ref == e.async[n] IN
       /\ ref.path \in DOMAIN f /\ f[ref.path] = ref.bytes
       /\ validateAsyncEvidenceBundle(ref.bytes) /\ ref.bytes.records = ref.records

Success(e) == ~e.dry /\ evidenceGateStatus(e) = "pass"

(* Mutant: the report need not say what the gate says. *)
ReportUncompared(e, f) ==
  IF e.report = None THEN e.step # None => e.step.state # "validated"
  ELSE /\ e.report.path \notin AsyncPaths(e) /\ e.report.path \in DOMAIN f
       /\ f[e.report.path] = e.report.bytes
       /\ IF e.step # None
          THEN e.step.state = "validated" /\ e.step = ObserveV5(e.step.inventory, e.report.bytes)
          ELSE Decode(e.report.bytes)

(* Mutant: evidence without a report is refused. *)
ReportAlways(e, f) ==
  /\ e.report # None /\ e.report.path \in DOMAIN f /\ f[e.report.path] = e.report.bytes
  /\ e.step # None => e.step = ObserveV5(e.step.inventory, e.report.bytes)
  /\ Success(e) => e.report.bytes.status = "success"

ReportFits(e, f) ==
  IF e.report = None
  THEN ~Success(e) /\ (e.step # None => e.step.state # "validated")
  ELSE /\ e.report.path \notin AsyncPaths(e) /\ e.report.path \in DOMAIN f
       /\ f[e.report.path] = e.report.bytes
       /\ IF e.step # None
          THEN e.step.state = "validated" /\ e.step = ObserveV5(e.step.inventory, e.report.bytes)
          ELSE Decode(e.report.bytes)
       /\ Success(e) => e.report.bytes.status = "success"

Referenced(e) == AsyncPaths(e) \cup (IF e.report = None THEN {} ELSE {e.report.path})

Verify(e, f, s, o) ==
  /\ Validate(e)
  /\ o.expected # None => e.identity = o.expected
  /\ o.inventory # None => e.step # None /\ e.step.inventory = o.inventory
  /\ IF e.version = "v1" THEN s = None /\ ~o.require /\ o.trusted = None
     ELSE s # None \/ o.require \/ o.trusted # None => VerifySignature(e, s, o.trusted)
  /\ AsyncFits(e, f)
  /\ IF e.version = "v1" THEN e.report = None ELSE ReportFits(e, f)
  /\ DOMAIN f = Referenced(e)

-----------------------------------------------------------------------------
(* External: the recorder.  It observes what the executor left behind.      *)
Outcomes == {"success", "error", "incomplete", "missing", "dry"}

ReportOf(id, version, outcome) ==
  [kind |-> "report", wire |-> IF version = "v2" THEN "v4" ELSE "v5", of |-> id,
   status |-> outcome]

AsyncOf(bundle) ==
  IF bundle = None THEN <<>>
  ELSE <<[path |-> "async.json", bytes |-> bundle, records |-> bundle.records]>>

EvidenceOf(id, version, outcome, bundle) ==
  LET reported == outcome \in Statuses
      report == ReportOf(id, version, outcome)
      dry == outcome = "dry" IN
  [version |-> version, identity |-> id, browser |-> FALSE, complete |-> TRUE,
   required |-> TRUE, dry |-> dry, invoked |-> ~dry,
   mode |-> IF dry THEN "dry-run" ELSE "internal-runner",
   stage |-> IF dry THEN "dry-run" ELSE "executor",
   gate |-> IF dry THEN None
            ELSE [padded |-> FALSE, status |-> IF outcome = "success" THEN "pass" ELSE "fail"],
   broker |-> IF version = "v4" THEN id ELSE None,
   step |-> IF version = "v2" THEN None
            ELSE IF reported THEN ObserveV5(id, report)
            ELSE Unknown(id, IF dry THEN "dry_run" ELSE "missing"),
   report |-> IF reported THEN [path |-> "report.json", bytes |-> report] ELSE None,
   async |-> AsyncOf(bundle)]

FilesOf(e) ==
  [p \in Referenced(e) |->
     IF e.report # None /\ e.report.path = p THEN e.report.bytes ELSE e.async[1].bytes]

(* What an attempt leaves behind. *)
Left(e) == [evidence |-> e, files |-> FilesOf(e),
            signature |-> [evidence |-> e, key |-> "signer"]]

Init ==
  /\ recorded = <<>> /\ evidence = None /\ files = [p \in {} |-> None]
  /\ signature = None
  /\ edits = 0 /\ accepted = None

Record(version, work, outcome, bundle) ==
  LET e == EvidenceOf([run |-> Len(recorded) + 1, work |-> work], version, outcome, bundle) IN
  /\ Len(recorded) < MaxAttempts
  /\ \A n \in DOMAIN recorded : version = recorded[n].evidence.version /\ version \in Repeated
  /\ version = "v2" => outcome # "incomplete"
  /\ recorded' = Append(recorded, Left(e))
  /\ UNCHANGED <<evidence, files, signature, edits, accepted>>

(* External: what an attempt left is supplied, signed or not.               *)
Supply(n, signed) ==
  /\ evidence' = recorded[n].evidence /\ files' = recorded[n].files
  /\ signature' = IF signed THEN recorded[n].signature ELSE None
  /\ edits' = 0
  /\ UNCHANGED <<recorded, accepted>>

Unchanged(n) ==
  evidence = recorded[n].evidence /\ files = recorded[n].files

(* External: one field of the supplied document changes.                    *)
Observations ==
  {Unknown(i, s) : i \in Identity, s \in Unknowns}
    \cup [inventory: Identity, state: {"validated"}, status: Statuses]

Edited(e) ==
  {[e EXCEPT !.version = v] : v \in {"v1", "v2", "v3", "v4"}}
    \cup {[e EXCEPT !.identity = i] : i \in Identity}
    \cup {[e EXCEPT !.broker = i] : i \in Identity \cup {None}}
    \cup {[e EXCEPT !.step = o] : o \in Observations \cup {None}}
    \cup {[e EXCEPT !.dry = ~e.dry], [e EXCEPT !.required = FALSE],
          [e EXCEPT !.browser = TRUE], [e EXCEPT !.stage = "preflight"],
          [e EXCEPT !.report = None], [e EXCEPT !.async = <<>>],
          [e EXCEPT !.async = @ \o @]}
    \cup {[e EXCEPT !.gate = g] :
            g \in [padded: Padding, status: {"pass", "fail"}] \cup {None}}
    \cup {[e EXCEPT !.report = [path |-> p, bytes |-> f]] :
            p \in Paths, f \in {r.files["report.json"] : r \in
              {recorded[n] : n \in {m \in DOMAIN recorded :
                 "report.json" \in DOMAIN recorded[m].files}}}}

ChangeEvidence ==
  /\ evidence # None /\ edits < MaxEdits
  /\ evidence' \in Edited(evidence)
  /\ edits' = edits + 1
  /\ UNCHANGED <<recorded, files, signature, accepted>>

(* External: a file is replaced by another attempt's, damaged or dropped.   *)
Damaged(data) ==
  IF data.kind = "report" THEN [data EXCEPT !.wire = "bad"] ELSE [data EXCEPT !.valid = FALSE]

ChangeFile(p) ==
  /\ evidence # None /\ edits < MaxEdits /\ p \in DOMAIN files
  /\ \/ files' = [q \in DOMAIN files \ {p} |-> files[q]]
     \/ files' = [files EXCEPT ![p] = Damaged(@)]
     \/ \E n \in DOMAIN recorded : \E q \in DOMAIN recorded[n].files :
          files' = [files EXCEPT ![p] = recorded[n].files[q]]
  /\ edits' = edits + 1
  /\ UNCHANGED <<recorded, evidence, signature, accepted>>

Resign ==
  /\ evidence # None
  /\ signature' = [evidence |-> evidence, key |-> "other"]
  /\ UNCHANGED <<recorded, evidence, files, edits, accepted>>

(* The host verifies what it was given. *)
Options ==
  [expected: Identity \cup {None}, inventory: Identity \cup {None},
   trusted: {"signer", None}, require: BOOLEAN]

Check(o) ==
  /\ evidence # None
  /\ Verify(evidence, files, signature, o)
  /\ accepted' = o
  /\ UNCHANGED <<recorded, evidence, files, signature, edits>>

Bundles == {None, [kind |-> "bundle", valid |-> TRUE, records |-> 1]}

Next ==
  /\ accepted = None
  /\ \/ \E version \in Versions, work \in Works, outcome \in Outcomes, bundle \in Bundles :
          Record(version, work, outcome, bundle)
     \/ \E n \in DOMAIN recorded, signed \in BOOLEAN : Supply(n, signed)
     \/ ChangeEvidence \/ Resign
     \/ \E p \in Paths : ChangeFile(p)
     \/ \E o \in Options : Check(o)

Spec == Init /\ [][Next]_vars

-----------------------------------------------------------------------------
(* Evidence accepted under the recorder's key and the host's own identity   *)
(* of an attempt is, document and every file, what that attempt left behind *)
(* - not another attempt's, not a mixture, not a changed copy.              *)
TrustedIsRecorded ==
  accepted # None /\ accepted.trusted = "signer" /\ accepted.expected # None =>
    /\ accepted.expected.run \in DOMAIN recorded
    /\ Unchanged(accepted.expected.run)

(* "A process-success gate additionally requires a validated success        *)
(* report": whoever wrote and kept the evidence.                            *)
SuccessIsReported ==
  accepted # None /\ evidence.version # "v1" /\ ~evidence.dry /\ evidence.gate.status = "pass" =>
    /\ evidence.report # None
    /\ files[evidence.report.path].status = "success"

(* Step results are exactly a supplied report's, and a report for the run   *)
(* the evidence is about; without one every step stays unknown.  With the   *)
(* host's inventory they are about the work the host expected.              *)
ResultsAreReported ==
  accepted # None /\ evidence.step # None =>
    /\ (evidence.report = None) <=> (evidence.step.status = "none")
    /\ evidence.report # None =>
         LET report == files[evidence.report.path] IN
         /\ report.status = evidence.step.status /\ report.of.run = evidence.identity.run
         /\ accepted.inventory # None => report.of = accepted.inventory

(* What the recorder wrote verifies, whatever happened to the run: under    *)
(* the identity, the inventory and the key the host retained.               *)
RecordedVerifies ==
  \A n \in DOMAIN recorded :
    LET r == recorded[n] IN
    Verify(r.evidence, r.files, r.signature,
           [expected |-> r.evidence.identity,
            inventory |-> IF r.evidence.version = "v2" THEN None ELSE r.evidence.identity,
            trusted |-> "signer", require |-> TRUE])
=============================================================================
