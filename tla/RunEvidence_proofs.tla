------------------------- MODULE RunEvidence_proofs -------------------------
(* Accepted evidence is recorded evidence, for any number of attempts and    *)
(* changes, and any works and paths.                                         *)
EXTENDS RunEvidence, TLAPS

(* What the recorder can write. *)
Documents ==
  {e \in Evidence :
     \E r \in Runs, w \in Works, v \in Versions, o \in Outcomes, b \in Bundles :
       /\ v = "v2" => o # "incomplete"
       /\ e = EvidenceOf([run |-> r, work |-> w], v, o, b)}

(* What recording keeps: attempt n left a document about run n, its files    *)
(* and the recorder's signature, all of the same document.                   *)
RecordedInv ==
  /\ recorded \in Seq({Left(e) : e \in Documents})
  /\ \A n \in DOMAIN recorded : recorded[n].evidence.identity.run = n

(* The recorder's key signs recorded documents only. *)
SignedInv ==
  signature # None =>
    (signature.key = "signer" =>
      \E n \in DOMAIN recorded : signature.evidence = recorded[n].evidence)

FilesInv == files = [p \in DOMAIN files |-> files[p]]

(* Nothing moves after an acceptance. *)
AcceptedInv ==
  accepted # None =>
    /\ evidence # None /\ accepted \in Options
    /\ Verify(evidence, files, signature, accepted)

(* A gate is padded only where gates may be padded. *)
GateInv ==
  evidence # None =>
    /\ "gate" \in DOMAIN evidence
    /\ evidence.gate = None \/ evidence.gate.padded \in Padding \cup {FALSE}

IInv == RecordedInv /\ SignedInv /\ FilesInv /\ GateInv /\ AcceptedInv

-----------------------------------------------------------------------------
(* A document of Documents names at most one async file. *)
LEMMA DocumentShape ==
  ASSUME NEW e \in Documents
  PROVE  \/ e.async = <<>>
         \/ \E b \in Bundles : e.async = <<[path |-> "async.json", bytes |-> b,
                                            records |-> b.records]>>
<1>1. PICK r \in Runs, w \in Works, v \in Versions, o \in Outcomes, b \in Bundles :
        e = EvidenceOf([run |-> r, work |-> w], v, o, b)
  BY DEF Documents
<1>2. e.async = AsyncOf(b)
  BY <1>1 DEF EvidenceOf
<1>. QED  BY <1>2 DEF AsyncOf

(* What the recorder writes is a document. *)
LEMMA EvidenceType ==
  ASSUME NEW r \in Runs, NEW w \in Works, NEW v \in Versions, NEW o \in Outcomes,
         NEW b \in Bundles
  PROVE  EvidenceOf([run |-> r, work |-> w], v, o, b) \in Evidence
<1>. DEFINE id == [run |-> r, work |-> w]
            e == EvidenceOf(id, v, o, b)
<1>1. id \in Identity
  BY DEF Identity
<1>. HIDE DEF id
<1>2. v \in {"v2", "v3", "v4"}
  BY EvidenceAssumption
<1>3. ASSUME o \in Statuses PROVE ReportOf(id, v, o) \in Report
  BY <1>1, <1>3 DEF ReportOf, Report
<1>4. e.gate \in Gate \cup {None}
  BY DEF EvidenceOf, Gate
<1>5. e.step \in Observation \cup {None}
  <2>1. ASSUME o \in Statuses PROVE ObserveV5(id, ReportOf(id, v, o)) \in Observation
    BY <1>1, <2>1 DEF ObserveV5, ReportOf, Unknown, Observation, Unknowns
  <2>2. Unknown(id, "dry_run") \in Observation /\ Unknown(id, "missing") \in Observation
    BY <1>1 DEF Unknown, Observation, Unknowns
  <2>. QED  BY <2>1, <2>2 DEF EvidenceOf
<1>6. e.report \in ReportRef \cup {None}
  <2>1. "report.json" \in Paths
    BY EvidenceAssumption
  <2>. QED  BY <1>3, <2>1 DEF EvidenceOf, ReportRef
<1>7. e.async \in Seq(AsyncRef)
  <2>1. "async.json" \in Paths
    BY EvidenceAssumption
  <2>2. ASSUME b # None
        PROVE  [path |-> "async.json", bytes |-> b, records |-> b.records] \in AsyncRef
    <3>1. b = [kind |-> "bundle", valid |-> TRUE, records |-> 1]
      BY <2>2 DEF Bundles
    <3>2. b \in Bundle /\ b.records \in Nat
      BY <3>1 DEF Bundle
    <3>. QED  BY <2>1, <3>2 DEF AsyncRef
  <2>3. e.async = AsyncOf(b)
    BY DEF EvidenceOf
  <2>. QED  BY <2>2, <2>3 DEF AsyncOf
<1>8. /\ e.version = v /\ e.identity = id /\ e.browser = FALSE /\ e.complete = TRUE
      /\ e.required = TRUE /\ e.dry \in BOOLEAN /\ e.invoked \in BOOLEAN
      /\ e.mode \in {"dry-run", "internal-runner"} /\ e.stage \in {"dry-run", "executor"}
      /\ e.broker \in {id, None}
  BY DEF EvidenceOf
<1>9. e = [version |-> e.version, identity |-> e.identity, browser |-> e.browser,
           complete |-> e.complete, required |-> e.required, dry |-> e.dry,
           invoked |-> e.invoked, mode |-> e.mode, stage |-> e.stage, gate |-> e.gate,
           broker |-> e.broker, step |-> e.step, report |-> e.report, async |-> e.async]
  BY DEF EvidenceOf
<1>. HIDE DEF e
<1>. QED  BY <1>1, <1>2, <1>4, <1>5, <1>6, <1>7, <1>8, <1>9 DEF Evidence, id, e

(* Files that fit a recorded document, and no others, are the files it was   *)
(* recorded with: the digests and the closed inventory leave no choice.      *)
LEMMA FilesDetermined ==
  ASSUME NEW e \in Documents, NEW f, f = [p \in DOMAIN f |-> f[p]],
         AsyncFits(e, f), ReportFits(e, f), DOMAIN f = Referenced(e)
  PROVE  f = FilesOf(e)
<1>1. SUFFICES ASSUME NEW p \in DOMAIN f
               PROVE  f[p] = IF e.report # None /\ e.report.path = p
                             THEN e.report.bytes ELSE e.async[1].bytes
  BY DEF FilesOf
<1>2. CASE e.report # None /\ e.report.path = p
  BY <1>2 DEF ReportFits
<1>3. CASE ~(e.report # None /\ e.report.path = p)
  <2>1. p \in AsyncPaths(e)
    BY <1>3 DEF Referenced
  <2>2. PICK n \in DOMAIN e.async : e.async[n].path = p
    BY <2>1 DEF AsyncPaths
  <2>3. n = 1
    <3>1. CASE e.async = <<>>
      BY <2>2, <3>1
    <3>2. CASE \E b \in Bundles : e.async = <<[path |-> "async.json", bytes |-> b,
                                               records |-> b.records]>>
      BY <2>2, <3>2
    <3>. QED  BY <3>1, <3>2, DocumentShape
  <2>4. f[p] = e.async[1].bytes
    BY <2>2, <2>3 DEF AsyncFits
  <2>. QED  BY <1>3, <2>4
<1>. QED  BY <1>2, <1>3

-----------------------------------------------------------------------------
LEMMA InitIInv == Init => IInv
  BY DEF Init, IInv, RecordedInv, SignedInv, FilesInv, GateInv, AcceptedInv

(* An edit of one field leaves a document whose gate is the old one, one     *)
(* with a name padded as gates may be, or none.                              *)
LEMMA EditedGate ==
  ASSUME NEW e, "gate" \in DOMAIN e, NEW d \in Edited(e)
  PROVE  /\ "gate" \in DOMAIN d
         /\ d.gate = e.gate \/ d.gate = None \/ d.gate.padded \in Padding
  BY DEF Edited

LEMMA NextIInv == IInv /\ [Next]_vars => IInv'
<1>. SUFFICES ASSUME IInv, [Next]_vars PROVE IInv'
  OBVIOUS
<1>. USE DEF IInv
<1>0. CASE UNCHANGED vars
  BY <1>0 DEF vars, RecordedInv, SignedInv, FilesInv, GateInv, AcceptedInv
<1>1. ASSUME accepted = None,
             NEW v \in Versions, NEW w \in Works, NEW o \in Outcomes, NEW b \in Bundles,
             Record(v, w, o, b)
      PROVE  IInv'
  <2>. DEFINE id == [run |-> Len(recorded) + 1, work |-> w]
              e == EvidenceOf(id, v, o, b)
  <2>1. recorded \in Seq({Left(d) : d \in Documents}) /\ Len(recorded) \in Nat
    BY DEF RecordedInv
  <2>2. Len(recorded) + 1 \in Runs
    BY <1>1, <2>1, EvidenceAssumption DEF Record, Runs
  <2>3. e \in Documents
    <3>1. v = "v2" => o # "incomplete"
      BY <1>1 DEF Record
    <3>. QED  BY <2>2, <3>1, EvidenceType DEF Documents
  <2>4. recorded' = Append(recorded, Left(e))
    BY <1>1 DEF Record
  <2>5. Left(e) \in {Left(d) : d \in Documents}
    BY <2>3
  <2>. HIDE DEF e
  <2>6. recorded' \in Seq({Left(d) : d \in Documents})
    BY <2>1, <2>4, <2>5
  <2>7. /\ DOMAIN recorded' = 1..(Len(recorded) + 1)
        /\ \A n \in DOMAIN recorded : n \in DOMAIN recorded' /\ recorded'[n] = recorded[n]
        /\ recorded'[Len(recorded) + 1] = Left(e)
    BY <2>1, <2>4, <2>5
  <2>8. e.identity.run = Len(recorded) + 1
    BY DEF e, EvidenceOf
  <2>9. Left(e).evidence = e
    BY DEF Left
  <2>10. \A n \in DOMAIN recorded' : recorded'[n].evidence.identity.run = n
    <3>1. ASSUME NEW n \in DOMAIN recorded' PROVE n \in DOMAIN recorded \/ n = Len(recorded) + 1
      BY <2>1, <2>7
    <3>. QED  BY <2>7, <2>8, <2>9, <3>1 DEF RecordedInv
  <2>11. SignedInv'
    BY <1>1, <2>7 DEF SignedInv, Record
  <2>. QED  BY <1>1, <2>6, <2>10, <2>11 DEF RecordedInv, FilesInv, GateInv, AcceptedInv, Record
<1>2. ASSUME accepted = None, NEW n \in DOMAIN recorded, NEW signed \in BOOLEAN,
             Supply(n, signed)
      PROVE  IInv'
  <2>1. PICK e \in Documents : recorded[n] = Left(e)
    BY DEF RecordedInv
  <2>2. recorded[n].signature.evidence = recorded[n].evidence
    BY <2>1 DEF Left
  <2>3. SignedInv'
    BY <1>2, <2>2 DEF SignedInv, Supply
  <2>4. FilesInv'
    BY <1>2, <2>1 DEF FilesInv, Supply, Left, FilesOf
  <2>5. GateInv'
    <3>1. evidence' = e
      BY <1>2, <2>1 DEF Supply, Left
    <3>2. "gate" \in DOMAIN e
      BY DEF Documents, Evidence
    <3>3. e.gate = None \/ e.gate.padded = FALSE
      <4>1. PICK r, w, v, o, b : e = EvidenceOf([run |-> r, work |-> w], v, o, b)
        BY DEF Documents
      <4>2. e.gate = IF o = "dry" THEN None
                     ELSE [padded |-> FALSE,
                           status |-> IF o = "success" THEN "pass" ELSE "fail"]
        BY <4>1 DEF EvidenceOf
      <4>. QED  BY <4>2
    <3>. QED  BY <3>1, <3>2, <3>3 DEF GateInv
  <2>. QED  BY <1>2, <2>3, <2>4, <2>5 DEF RecordedInv, AcceptedInv, Supply
<1>3. ASSUME accepted = None, ChangeEvidence PROVE IInv'
  <2>1. evidence # None /\ evidence' \in Edited(evidence)
    BY <1>3 DEF ChangeEvidence
  <2>2. GateInv'
    BY <2>1, EditedGate DEF GateInv
  <2>. QED  BY <1>3, <2>2 DEF ChangeEvidence, RecordedInv, SignedInv, FilesInv, AcceptedInv
<1>4. ASSUME accepted = None, Resign PROVE IInv'
  BY <1>4 DEF Resign, RecordedInv, SignedInv, FilesInv, GateInv, AcceptedInv
<1>5. ASSUME accepted = None, NEW p \in Paths, ChangeFile(p) PROVE IInv'
  <2>1. FilesInv'
    BY <1>5 DEF ChangeFile, FilesInv
  <2>. QED  BY <1>5, <2>1 DEF ChangeFile, RecordedInv, SignedInv, GateInv, AcceptedInv
<1>6. ASSUME NEW o \in Options, Check(o) PROVE IInv'
  BY <1>6 DEF Check, RecordedInv, SignedInv, FilesInv, GateInv, AcceptedInv
<1>. QED  BY <1>0, <1>1, <1>2, <1>3, <1>4, <1>5, <1>6 DEF Next

(* The recorded history is never mixed up, and only its documents carry the  *)
(* recorder's signature, in every reachable state.                           *)
THEOREM SpecInductive == Spec => []IInv
  BY InitIInv, NextIInv, PTL DEF Spec

LEMMA TrustedFromIInv == IInv => TrustedIsRecorded
<1>. SUFFICES ASSUME IInv, accepted # None, accepted.trusted = "signer",
                     accepted.expected # None
              PROVE  /\ accepted.expected.run \in DOMAIN recorded
                     /\ Unchanged(accepted.expected.run)
  BY DEF TrustedIsRecorded
<1>1. accepted \in Options /\ Verify(evidence, files, signature, accepted)
  BY DEF IInv, AcceptedInv
<1>0. accepted.trusted # None
  BY EvidenceAssumption
<1>2. evidence.version # "v1" /\ VerifySignature(evidence, signature, accepted.trusted)
  BY <1>0, <1>1 DEF Verify
<1>3. PICK n \in DOMAIN recorded : evidence = recorded[n].evidence
  BY <1>0, <1>2 DEF VerifySignature, IInv, SignedInv
<1>4. PICK e \in Documents : recorded[n] = Left(e)
  BY DEF IInv, RecordedInv
<1>5. evidence = e /\ recorded[n].files = FilesOf(e)
  BY <1>3, <1>4 DEF Left
<1>6. n = accepted.expected.run
  BY <1>1, <1>3 DEF Verify, IInv, RecordedInv
<1>7. files = FilesOf(e)
  <2>1. AsyncFits(e, files) /\ ReportFits(e, files) /\ DOMAIN files = Referenced(e)
    BY <1>1, <1>2, <1>5 DEF Verify
  <2>. QED  BY <2>1, FilesDetermined DEF IInv, FilesInv
<1>. QED  BY <1>3, <1>5, <1>6, <1>7 DEF Unchanged

(* What Verify accepts under the recorder's key and the host's identity of   *)
(* an attempt is exactly what that attempt left behind, document and files.  *)
THEOREM SpecTrustedIsRecorded == Spec => []TrustedIsRecorded
  BY SpecInductive, TrustedFromIInv, PTL

LEMMA ResultsFromIInv == IInv => ResultsAreReported
<1>. SUFFICES ASSUME IInv, accepted # None, evidence.step # None
              PROVE  ResultsAreReported
  BY DEF ResultsAreReported
<1>1. Verify(evidence, files, signature, accepted)
  BY DEF IInv, AcceptedInv
<1>2. /\ evidence.version \in {"v3", "v4"} /\ ObservationValid(evidence.step)
      /\ evidence.step.inventory.run = evidence.identity.run
  BY <1>1 DEF Verify, Validate
<1>3. ReportFits(evidence, files)
  BY <1>1, <1>2 DEF Verify
<1>4. CASE evidence.report = None
  <2>1. evidence.step.status = "none"
    BY <1>2, <1>3, <1>4 DEF ReportFits, ObservationValid, Unknown
  <2>. QED  BY <1>4, <2>1 DEF ResultsAreReported
<1>5. CASE evidence.report # None
  <2>. DEFINE report == files[evidence.report.path]
  <2>1. /\ evidence.step.state = "validated"
        /\ evidence.step = ObserveV5(evidence.step.inventory, report)
    BY <1>3, <1>5 DEF ReportFits
  <2>2. evidence.step.status \in Statuses
    BY <1>2, <2>1 DEF ObservationValid, Unknowns
  <2>3. evidence.step.status = report.status /\ report.of = evidence.step.inventory
    BY <2>1 DEF ObserveV5, Unknown
  <2>4. evidence.step.status # "none"
    BY <2>2 DEF Statuses
  <2>5. accepted.inventory # None => evidence.step.inventory = accepted.inventory
    BY <1>1 DEF Verify
  <2>. QED  BY <1>2, <1>5, <2>3, <2>4, <2>5 DEF ResultsAreReported
<1>. QED  BY <1>4, <1>5

(* Accepted step results are those of a supplied report about the same run,  *)
(* and there are none without a report, however the evidence was assembled.  *)
THEOREM SpecResultsAreReported == Spec => []ResultsAreReported
  BY SpecInductive, ResultsFromIInv, PTL

LEMMA SuccessFromIInv ==
  ASSUME TRUE \notin Padding, IInv PROVE SuccessIsReported
<1>. SUFFICES ASSUME accepted # None, evidence.version # "v1", ~evidence.dry,
                     evidence.gate.status = "pass"
              PROVE  /\ evidence.report # None
                     /\ files[evidence.report.path].status = "success"
  BY DEF SuccessIsReported
<1>1. evidence # None /\ Verify(evidence, files, signature, accepted)
  BY DEF IInv, AcceptedInv
<1>2. evidence.gate # None
  BY <1>1 DEF Verify, Validate, validateRunEvidenceGates
<1>3. evidence.gate.padded = FALSE
  BY <1>1, <1>2, EvidenceAssumption DEF IInv, GateInv
<1>4. Success(evidence)
  BY <1>2, <1>3 DEF Success, evidenceGateStatus
<1>5. ReportFits(evidence, files)
  BY <1>1 DEF Verify
<1>. QED  BY <1>4, <1>5 DEF ReportFits

(* Where no gate's name is padded, a passed executor gate is backed by a     *)
(* report of success, whoever assembled the evidence.  (With a padded name   *)
(* it is not: run evidence_gate_name.)                                       *)
THEOREM SpecSuccessIsReported ==
  ASSUME TRUE \notin Padding PROVE Spec => []SuccessIsReported
  BY SpecInductive, SuccessFromIInv, PTL

-----------------------------------------------------------------------------
(* What the recorder writes, with its files and signature, verifies.         *)
LEMMA DocumentVerifies ==
  ASSUME NEW e \in Documents
  PROVE  Verify(e, FilesOf(e), [evidence |-> e, key |-> "signer"],
                [expected |-> e.identity,
                 inventory |-> IF e.version = "v2" THEN None ELSE e.identity,
                 trusted |-> "signer", require |-> TRUE])
<1>1. PICK r \in Runs, w \in Works, v \in Versions, o \in Outcomes, b \in Bundles :
        /\ v = "v2" => o # "incomplete"
        /\ e = EvidenceOf([run |-> r, work |-> w], v, o, b)
  BY DEF Documents
<1>. DEFINE id == [run |-> r, work |-> w]
            f == FilesOf(e)
            report == ReportOf(id, v, o)
            dry == o = "dry"
            s == [evidence |-> e, key |-> "signer"]
<1>2. id \in Identity /\ id.run = r /\ id.work = w
  BY DEF Identity
<1>3. v \in {"v2", "v3", "v4"}
  BY EvidenceAssumption
<1>. HIDE DEF id
<1>4. /\ e.version = v /\ e.identity = id /\ ~e.browser /\ e.complete /\ e.required
      /\ e.dry = dry /\ e.invoked = ~dry
      /\ e.mode = IF dry THEN "dry-run" ELSE "internal-runner"
      /\ e.stage = IF dry THEN "dry-run" ELSE "executor"
      /\ e.gate = IF dry THEN None
                  ELSE [padded |-> FALSE, status |-> IF o = "success" THEN "pass" ELSE "fail"]
      /\ e.broker = IF v = "v4" THEN id ELSE None
      /\ e.step = IF v = "v2" THEN None
                  ELSE IF o \in Statuses THEN ObserveV5(id, report)
                  ELSE Unknown(id, IF dry THEN "dry_run" ELSE "missing")
      /\ e.report = IF o \in Statuses THEN [path |-> "report.json", bytes |-> report] ELSE None
      /\ e.async = AsyncOf(b)
  BY <1>1 DEF EvidenceOf, id
<1>5. /\ report.kind = "report" /\ report.of = id /\ report.status = o
      /\ report.wire = IF v = "v2" THEN "v4" ELSE "v5"
  BY DEF ReportOf
<1>. HIDE DEF report
<1>6. ASSUME o \in Statuses, v # "v2"
      PROVE  e.step = [inventory |-> id, state |-> "validated", status |-> o]
  BY <1>4, <1>5, <1>6 DEF ObserveV5
<1>7. ASSUME o \notin Statuses, v # "v2"
      PROVE  e.step = [inventory |-> id, state |-> IF dry THEN "dry_run" ELSE "missing",
                       status |-> "none"]
  BY <1>4, <1>7 DEF Unknown
<1>8. dry => o \notin Statuses
  BY DEF Statuses
<1>9. v # "v2" => /\ e.step # None /\ ObservationValid(e.step) /\ e.step.inventory = id
                  /\ dry <=> e.step.state = "dry_run"
  <2>1. CASE v # "v2" /\ o \in Statuses
    <3>1. e.step \in Observation
      BY <1>2, <1>6, <2>1 DEF Observation
    <3>. QED  BY <1>6, <1>8, <2>1, <3>1, AbsenceAssumption DEF ObservationValid
  <2>2. CASE v # "v2" /\ o \notin Statuses
    <3>1. e.step \in Observation
      BY <1>2, <1>7, <2>2 DEF Observation, Unknowns
    <3>. QED  BY <1>7, <2>2, <3>1, AbsenceAssumption DEF ObservationValid, Unknowns, Unknown
  <2>. QED  BY <2>1, <2>2
<1>10. validateRunEvidenceGates(e)
  <2>1. ~dry => e.gate \in Gate
    BY <1>4 DEF Gate
  <2>2. ~dry => e.gate # None
    BY <2>1, AbsenceAssumption
  <2>. QED  BY <1>4, <2>2 DEF validateRunEvidenceGates
<1>11. validateBrokerEvidence(e)
  BY <1>2, <1>4, <1>9, AbsenceAssumption DEF validateBrokerEvidence
<1>12. Validate(e)
  BY <1>3, <1>4, <1>9, <1>10, <1>11 DEF Validate
<1>13. s # None
  BY AbsenceAssumption DEF Documents, Signature
<1>14. VerifySignature(e, s, "signer")
  BY <1>13 DEF VerifySignature
<1>15. AsyncFits(e, f) /\ AsyncPaths(e) \subseteq {"async.json"}
  <2>1. CASE b = None
    <3>1. e.async = <<>>
      BY <1>4, <2>1 DEF AsyncOf
    <3>2. DOMAIN e.async = {}
      BY <3>1
    <3>. QED  BY <3>2 DEF AsyncFits, AsyncPaths
  <2>2. CASE b # None
    <3>. DEFINE ref == [path |-> "async.json", bytes |-> b, records |-> b.records]
    <3>1. e.async = <<ref>>
      BY <1>4, <2>2 DEF AsyncOf
    <3>2. DOMAIN e.async = {1} /\ e.async[1] = ref
      BY <3>1
    <3>3. AsyncPaths(e) = {"async.json"}
      BY <3>2 DEF AsyncPaths
    <3>4. "async.json" \in DOMAIN f /\ f["async.json"] = b
      <4>1. e.report # None => e.report.path = "report.json"
        BY <1>4
      <4>. QED  BY <3>2, <3>3, <4>1 DEF FilesOf, Referenced
    <3>5. validateAsyncEvidenceBundle(b)
      BY <2>2 DEF Bundles, validateAsyncEvidenceBundle
    <3>. HIDE DEF f
    <3>. QED  BY <3>2, <3>3, <3>4, <3>5 DEF AsyncFits
  <2>. QED  BY <2>1, <2>2
<1>16. ReportFits(e, f)
  <2>1. Success(e) => o = "success"
    BY <1>4 DEF Success, evidenceGateStatus
  <2>2. CASE o \in Statuses
    <3>1. e.report = [path |-> "report.json", bytes |-> report]
      BY <1>4, <2>2
    <3>2. e.report \in ReportRef
      <4>1. report \in Report
        BY <1>2, <2>2 DEF report, ReportOf, Report
      <4>. QED  BY <3>1, <4>1, EvidenceAssumption DEF ReportRef
    <3>3. e.report # None /\ e.report.path = "report.json" /\ e.report.bytes = report
      BY <3>1, <3>2, AbsenceAssumption
    <3>4. "report.json" \in DOMAIN f /\ f["report.json"] = report
      BY <3>3 DEF FilesOf, Referenced
    <3>5. e.step # None =>
            e.step.state = "validated" /\ e.step = ObserveV5(e.step.inventory, report)
      BY <1>4, <1>6, <1>9, <2>2
    <3>6. e.step = None => Decode(report)
      <4>1. e.step = None => v = "v2" /\ o # "incomplete"
        BY <1>1, <1>9
      <4>. QED  BY <1>5, <2>2, <4>1 DEF Decode, Statuses
    <3>. HIDE DEF f
    <3>. QED  BY <1>5, <1>15, <2>1, <3>3, <3>4, <3>5, <3>6 DEF ReportFits
  <2>3. CASE o \notin Statuses
    <3>1. e.report = None /\ ~Success(e)
      BY <1>4, <2>1, <2>3 DEF Statuses
    <3>2. e.step # None => e.step.state # "validated"
      BY <1>4, <1>7, <2>3
    <3>. QED  BY <3>1, <3>2 DEF ReportFits
  <2>. QED  BY <2>2, <2>3
<1>17. DOMAIN f = Referenced(e)
  BY DEF FilesOf
<1>. DEFINE options == [expected |-> e.identity,
                        inventory |-> IF e.version = "v2" THEN None ELSE e.identity,
                        trusted |-> "signer", require |-> TRUE]
<1>18. /\ options.expected = e.identity /\ options.trusted = "signer"
       /\ options.inventory = IF v = "v2" THEN None ELSE id
  BY <1>4
<1>19. options.inventory # None => e.step # None /\ e.step.inventory = options.inventory
  BY <1>9, <1>18
<1>20. e.version # "v1"
  BY <1>3, <1>4
<1>. HIDE DEF options, f, s
<1>21. Verify(e, f, s, options)
  BY <1>12, <1>14, <1>15, <1>16, <1>17, <1>18, <1>19, <1>20 DEF Verify
<1>. QED  BY <1>21 DEF options, f, s

LEMMA RecordedFromIInv == IInv => RecordedVerifies
<1>. SUFFICES ASSUME IInv, NEW n \in DOMAIN recorded
              PROVE  LET r == recorded[n] IN
                     Verify(r.evidence, r.files, r.signature,
                            [expected |-> r.evidence.identity,
                             inventory |-> IF r.evidence.version = "v2" THEN None
                                           ELSE r.evidence.identity,
                             trusted |-> "signer", require |-> TRUE])
  BY DEF RecordedVerifies
<1>1. PICK e \in Documents : recorded[n] = Left(e)
  BY DEF IInv, RecordedInv
<1>2. /\ recorded[n].evidence = e /\ recorded[n].files = FilesOf(e)
      /\ recorded[n].signature = [evidence |-> e, key |-> "signer"]
  BY <1>1 DEF Left
<1>. QED  BY <1>2, DocumentVerifies

(* Whatever became of an attempt - success, error, no end, no report, a dry  *)
(* run - its evidence passes Verify with the host's identity, inventory and  *)
(* key.                                                                      *)
THEOREM SpecRecordedVerifies == Spec => []RecordedVerifies
  BY SpecInductive, RecordedFromIInv, PTL
=============================================================================
