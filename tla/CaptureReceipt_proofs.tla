----------------------- MODULE CaptureReceipt_proofs -----------------------
(***************************************************************************)
(* Proofs about BrowserTransaction, for every set of identities, packages, *)
(* generations, failure records and forged files, and about CaptureReceipt *)
(* composed with it, for every set of paths, contents, starts and          *)
(* provenance and any number of edits.  The composition keeps the          *)
(* transaction's invariant Inductive: importing, editing and verifying a   *)
(* receipt are stuttering steps of the transaction.                        *)
(***************************************************************************)
EXTENDS CaptureReceipt, FiniteSetTheorems, TLAPS

(* The transaction. *)

(* A valid snapshot is already in canonical order: encoding changes nothing. *)
LEMMA ValidIsCanonical ==
  ASSUME NEW s \in Snapshot, Validate(s)
  PROVE  CanonicalBytes(s) = s /\ Sorted(s.identity) = s.identity
<1>1. s.identity \in Identity /\ s.identity.order = "canonical"
  BY IdentitiesAssumption DEF Snapshot, Validate, ValidIdentity
<1>2. Sorted(s.identity) = s.identity
  BY <1>1 DEF Sorted, Identity
<1> QED
  BY <1>2 DEF CanonicalBytes, Snapshot

(* Every initial state satisfies the inductive invariant. *)
LEMMA InitInductive == Init => Inductive
<1> SUFFICES ASSUME Init PROVE Inductive
  OBVIOUS
<1>1. PICK id \in Identities : file = NewTransaction(id)
  BY DEF Init
<1>2. file = [identity |-> Sorted(id), state |-> "candidate", preparation |-> None,
              promotion |-> None, failure |-> None]
  BY <1>1 DEF NewTransaction, CanonicalBytes
<1>3. file \in Snapshot
  BY <1>2, IdentitiesAssumption DEF Snapshot, States, Sorted
<1>4. TypeOK
  BY <1>3 DEF Init, TypeOK
<1>5. DigestOfLast
  BY DEF Init, DigestOfLast
<1>6. LastTellsAll
  BY DEF Init, LastTellsAll
<1>7. StepsRecorded /\ PromotionEarned
  BY <1>2 DEF Init, StepsRecorded, PromotionEarned
<1> QED
  BY <1>4, <1>5, <1>6, <1>7 DEF Inductive

(* The digest check lets only the last recorded snapshot through. *)
LEMMA InductiveVerified == Inductive => VerifiedIsLast
<1> SUFFICES ASSUME Inductive, DecodeVerified(file, retained) PROVE file = last
  BY DEF VerifiedIsLast
<1>1. CanonicalBytes(file) = file
  BY ValidIsCanonical DEF Inductive, TypeOK, DecodeVerified
<1> QED
  BY <1>1 DEF Inductive, DigestOfLast, DecodeVerified

(* What an accepted record does: it follows the last snapshot. *)
LEMMA RecordShape ==
  ASSUME Inductive, NEW next \in Snapshot, Record(next)
  PROVE  /\ ValidateTransition(last, next)
         /\ file' = next /\ retained' = next /\ last' = next
         /\ recorded' = recorded \cup {next}
         /\ next.identity = last.identity
<1>1. file = last
  BY InductiveVerified DEF VerifiedIsLast, Record
<1>2. Validate(next) /\ ValidateTransition(last, next)
  BY <1>1 DEF Record, ValidateTransition
<1>3. CanonicalBytes(next) = next /\ Sorted(next.identity) = next.identity
  BY <1>2, ValidIsCanonical
<1>4. Sorted(last.identity) = last.identity
  BY ValidIsCanonical DEF Inductive, TypeOK, DigestOfLast
<1> QED
  BY <1>2, <1>3, <1>4 DEF Record, ValidateTransition

(* Recording a successor preserves the invariant. *)
LEMMA RecordInductive ==
  ASSUME Inductive, NEW next \in Snapshot, Record(next)
  PROVE  Inductive'
<1> USE RecordShape DEF Inductive
<1>1. TypeOK'
  BY DEF TypeOK
<1>2. DigestOfLast'
  BY DEF DigestOfLast, ValidateTransition, Validate
<1>3. /\ last.preparation # None => next.preparation = last.preparation
      /\ last.promotion # None => next.promotion = last.promotion
  BY DEF ValidateTransition, PreparationKept
<1>4. LastTellsAll'
  BY <1>3 DEF LastTellsAll
<1>5. \A s \in recorded' :
        s.state \in {"prepared", "promoted", "indeterminate"} =>
          \E r \in recorded' : r.state = "reviewed"
  <2>1. CASE last.state = "reviewed"
    BY <2>1 DEF TypeOK
  <2>2. CASE last.state # "reviewed"
    <3>1. next.state \in {"prepared", "promoted", "indeterminate"} =>
            last.state \in {"prepared", "promoted", "indeterminate"}
      BY <2>2 DEF ValidateTransition, allowedTransition
    <3> QED
      BY <3>1 DEF StepsRecorded, TypeOK
  <2> QED
    BY <2>1, <2>2
<1>6. next.preparation # None =>
        \E p \in recorded' : p.state = "prepared" /\ p.preparation = next.preparation
  <2>1. CASE last.preparation # None
    BY <2>1, <1>3 DEF StepsRecorded
  <2>2. CASE last.preparation = None
    BY <2>2 DEF ValidateTransition, PreparationKept
  <2> QED
    BY <2>1, <2>2
<1>7. StepsRecorded'
  BY <1>5, <1>6 DEF StepsRecorded
<1>8. PromotionEarned'
  <2>1. next.state \in {"promoted", "indeterminate"} => next.preparation # None
    BY DEF ValidateTransition, Validate, validateLifecycle
  <2> QED
    BY <2>1, <1>5, <1>6 DEF PromotionEarned
<1> QED
  BY <1>1, <1>2, <1>4, <1>7, <1>8

(* Replacing the file leaves everything that was recorded alone. *)
LEMMA ReplaceInductive ==
  ASSUME Inductive, NEW s \in recorded \cup Forgeries, Replace(s)
  PROVE  Inductive'
PROOF BY ForgeriesAssumption
      DEF Inductive, TypeOK, DigestOfLast, LastTellsAll, StepsRecorded, PromotionEarned,
          Replace

(* The inductive invariant holds in every reachable state. *)
THEOREM SpecInductive == Spec => []Inductive
<1>1. Inductive /\ [Next]_vars => Inductive'
  <2> SUFFICES ASSUME Inductive, [Next]_vars PROVE Inductive'
    OBVIOUS
  <2>1. CASE UNCHANGED vars
    BY <2>1 DEF Inductive, TypeOK, DigestOfLast, LastTellsAll, StepsRecorded,
       PromotionEarned, vars
  <2> QED
    BY <2>1, RecordInductive, ReplaceInductive DEF Next
<1> QED
  BY <1>1, InitInductive, PTL DEF Spec

-----------------------------------------------------------------------------
(* Type correctness of the transaction state. *)
THEOREM SpecTypeOK == Spec => []TypeOK
<1>1. Inductive => TypeOK
  BY DEF Inductive
<1> QED
  BY <1>1, SpecInductive, PTL

(* No rollback and no forgery of the file is ever continued. *)
THEOREM SpecVerifiedIsLast == Spec => []VerifiedIsLast
PROOF BY InductiveVerified, SpecInductive, PTL

(* All recorded snapshots agree on identity, package and generation. *)
THEOREM SpecOneStory == Spec => []OneStory
<1>1. Inductive => OneStory
  BY DEF Inductive, LastTellsAll, OneStory
<1> QED
  BY <1>1, SpecInductive, PTL

(* A promotion is of a package that was reviewed and prepared. *)
THEOREM SpecPromotionEarned == Spec => []PromotionEarned
<1>1. Inductive => PromotionEarned
  BY DEF Inductive
<1> QED
  BY <1>1, SpecInductive, PTL

(* A finished transaction is never continued, whatever the file holds. *)
THEOREM SpecTerminalIsFinal == Spec => TerminalIsFinal
<1>1. Inductive /\ [Next]_vars =>
        [last.state \in {"promoted", "cancelled", "failed"} => last' = last]_vars
  <2> SUFFICES ASSUME Inductive, Next, last.state \in {"promoted", "cancelled", "failed"}
               PROVE  last' = last
    BY DEF vars
  <2>1. ASSUME NEW next \in Snapshot, Record(next) PROVE FALSE
    BY <2>1, RecordShape DEF ValidateTransition, allowedTransition
  <2> QED
    BY <2>1 DEF Next, Replace
<1> QED
  BY <1>1, SpecInductive, PTL DEF Spec, TerminalIsFinal

(* The recorded snapshots follow the documented lifecycle. *)
THEOREM SpecImplementsLifecycle == Spec => ImplementsLifecycle
<1>1. Init => Lifecycle!Init
  BY DEF Init, NewTransaction, CanonicalBytes, Lifecycle!Init
<1>2. Inductive /\ [Next]_vars => [Lifecycle!Next]_(Lifecycle!vars)
  <2> SUFFICES ASSUME Inductive, [Next]_vars PROVE [Lifecycle!Next]_(Lifecycle!vars)
    OBVIOUS
  <2>1. CASE UNCHANGED last
    BY <2>1 DEF Lifecycle!vars
  <2>2. ASSUME NEW next \in Snapshot, Record(next) PROVE Lifecycle!Next
    <3>1. /\ last' = next /\ PreparationKept(last, next)
          /\ last.promotion # None => next.promotion = last.promotion
          /\ allowedTransition(last.state, next.state)
      BY <2>2, RecordShape DEF ValidateTransition
    <3>2. validateLifecycle(last) /\ validateLifecycle(next)
      BY <2>2, RecordShape DEF ValidateTransition, Validate
    <3>3. next.preparation \in Packages \cup {None} /\ next.promotion \in Generations \cup {None}
      BY <3>2 DEF Snapshot, validateLifecycle
    <3>4. CASE last.state = "candidate"
      <4>1. last.preparation = None /\ last.promotion = None
        BY <3>2, <3>4 DEF validateLifecycle
      <4>2. next.preparation = None /\ next.promotion = None
        BY <3>1, <3>2, <3>4, <4>1 DEF allowedTransition, PreparationKept, validateLifecycle
      <4> QED
        BY <3>1, <3>4, <4>1, <4>2 DEF allowedTransition, Lifecycle!Next, Lifecycle!Review,
           Lifecycle!Abandon
    <3>5. CASE last.state = "reviewed"
      <4>1. last.preparation = None /\ last.promotion = None
        BY <3>2, <3>5 DEF validateLifecycle
      <4>2. next.state \in {"prepared", "cancelled", "failed"} /\ next.promotion = None
        BY <3>1, <3>2, <3>5 DEF allowedTransition, validateLifecycle
      <4>3. CASE next.state = "prepared"
        <5>1. next.preparation \in Packages
          BY <3>2, <3>3, <4>3 DEF validateLifecycle
        <5>2. Lifecycle!Prepare(next.preparation)
          BY <3>1, <3>5, <4>1, <4>2, <4>3 DEF Lifecycle!Prepare
        <5> QED
          BY <5>1, <5>2 DEF Lifecycle!Next
      <4>4. CASE next.state # "prepared"
        BY <3>1, <3>5, <4>1, <4>2, <4>4 DEF PreparationKept, Lifecycle!Next,
           Lifecycle!Abandon
      <4> QED
        BY <4>3, <4>4
    <3>6. CASE last.state \in {"prepared", "indeterminate"}
      <4>1. last.preparation # None /\ last.promotion = None
        BY <3>2, <3>6 DEF validateLifecycle
      <4>2. next.preparation = last.preparation
        BY <3>1, <4>1 DEF PreparationKept
      <4>3. CASE next.state = "promoted"
        <5>1. next.promotion \in Generations
          BY <3>2, <3>3, <4>3 DEF validateLifecycle
        <5>2. Lifecycle!Promote(next.promotion)
          BY <3>1, <3>6, <4>2, <4>3 DEF Lifecycle!Promote
        <5> QED
          BY <5>1, <5>2 DEF Lifecycle!Next
      <4>4. CASE next.state # "promoted"
        <5>1. next.promotion = None
          BY <3>1, <3>2, <3>6, <4>4 DEF allowedTransition, validateLifecycle
        <5> QED
          BY <3>1, <3>6, <4>1, <4>2, <4>4, <5>1 DEF allowedTransition, Lifecycle!Next,
             Lifecycle!LoseTrack, Lifecycle!ReturnToPrepared, Lifecycle!Abandon
      <4> QED
        BY <4>3, <4>4
    <3> QED
      BY <3>1, <3>4, <3>5, <3>6 DEF allowedTransition
  <2> QED
    BY <2>1, <2>2 DEF Next, Replace, vars
<1> QED
  BY <1>1, <1>2, SpecInductive, PTL DEF Spec, ImplementsLifecycle, Lifecycle!Spec

-----------------------------------------------------------------------------
(* The capture. *)

BundleType == [Paths -> Contents \cup {NoFile}]

HostInv == bundle \in BundleType /\ clock \in Nat \ {0}

(* A receipt of files that a bundle b had. *)
ReceiptOf(r, b) ==
  \E paths \in SUBSET Paths :
    paths \subseteq Given(b) /\ r.files = Declared(b, paths)

(* What the host retained is what was imported: the receipt of a reviewed    *)
(* transaction that was recorded, with files the bundle had.                 *)
KeptInv ==
  kept # None =>
    LET r == imported.receipt IN
    /\ kept.receipt = r /\ kept.start = r.start /\ kept.transaction = r.transaction
    /\ r.wire = TRUE /\ r.transaction \in recorded
    /\ Validate(r.transaction) /\ r.transaction.state = "reviewed"
    /\ imported.bundle \in BundleType /\ ReceiptOf(r, imported.bundle)

(* What was adopted passed its checks against what is still retained. *)
AdoptedInv ==
  adopted # None =>
    /\ kept # None /\ adopted.receipt = imported.receipt
    /\ adopted.bundle \in BundleType /\ FewEnough(adopted.bundle)
    /\ FilesMatch(adopted.receipt, adopted.bundle)
    /\ CandidateHashes(adopted.receipt.transaction.identity)
         \subseteq {Tagged(f.sha256) : f \in adopted.receipt.files}

CaptureInductive == Inductive /\ HostInv /\ KeptInv /\ AdoptedInv

-----------------------------------------------------------------------------
LEMMA InitCapture == CaptureInit => CaptureInductive
  BY InitInductive, CaptureAssumption
     DEF CaptureInit, CaptureInductive, HostInv, KeptInv, AdoptedInv, BundleType

(* The transaction's own step, as in SpecInductive. *)
LEMMA StepInductive == Inductive /\ [Next]_vars => Inductive'
<1>. SUFFICES ASSUME Inductive, [Next]_vars PROVE Inductive'
  OBVIOUS
<1>1. CASE UNCHANGED vars
  BY <1>1 DEF Inductive, TypeOK, DigestOfLast, LastTellsAll, StepsRecorded,
     PromotionEarned, vars
<1>. QED  BY <1>1, RecordInductive, ReplaceInductive DEF Next

(* Every step of the composition is a step of the transaction or leaves it.  *)
LEMMA StepOfTransaction == [CaptureNext]_allVars => [Next]_vars
  BY DEF CaptureNext, allVars, Import, Rewrite, ChangeFile, Tick, VerifyCapture

(* Recorded snapshots are never taken back. *)
LEMMA RecordedGrows == [Next]_vars => recorded \subseteq recorded'
  BY DEF Next, vars, Record, Replace

LEMMA NextCapture == CaptureInductive /\ [CaptureNext]_allVars => CaptureInductive'
<1>. SUFFICES ASSUME CaptureInductive, [CaptureNext]_allVars PROVE CaptureInductive'
  OBVIOUS
<1>. USE DEF CaptureInductive
<1>1. Inductive' /\ recorded \subseteq recorded'
  BY StepOfTransaction, StepInductive, RecordedGrows
<1>2. ASSUME UNCHANGED <<kept, imported>> PROVE KeptInv'
  BY <1>1, <1>2 DEF KeptInv
<1>3. ASSUME UNCHANGED <<kept, imported, adopted>> PROVE AdoptedInv'
  BY <1>3 DEF AdoptedInv
<1>4. CASE UNCHANGED captureVars
  BY <1>1, <1>2, <1>3, <1>4 DEF captureVars, HostInv
<1>5. ASSUME NEW start \in Starts, NEW paths \in Lists, Import(start, paths)
      PROVE  CaptureInductive'
  <2>. DEFINE r == [wire |-> TRUE, start |-> start, transaction |-> last,
                    files |-> Declared(bundle, paths)]
  <2>1. /\ last.state = "reviewed" /\ kept = None
        /\ paths \subseteq Given(bundle)
        /\ kept' = [receipt |-> r, start |-> start, transaction |-> retained]
        /\ imported' = [receipt |-> r, bundle |-> bundle]
        /\ UNCHANGED <<vars, bundle, clock, adopted, edits>>
    BY <1>5 DEF Import
  <2>2. /\ r.wire = TRUE /\ r.start = start /\ r.transaction = last
        /\ r.files = Declared(bundle, paths)
    OBVIOUS
  <2>. HIDE DEF r
  <2>3. retained = last /\ Validate(last) /\ last \in recorded'
    BY <1>1 DEF Inductive, DigestOfLast, TypeOK
  <2>4. /\ imported'.receipt = r /\ imported'.bundle = bundle
        /\ kept'.receipt = r /\ kept'.start = start /\ kept'.transaction = retained
    BY <2>1
  <2>5. ReceiptOf(r, bundle)
    BY <2>1, <2>2, CaptureAssumption DEF ReceiptOf
  <2>6. KeptInv'
    BY <2>1, <2>2, <2>3, <2>4, <2>5 DEF KeptInv, HostInv
  <2>7. adopted' = None
    BY <2>1 DEF AdoptedInv
  <2>. QED  BY <1>1, <2>1, <2>6, <2>7 DEF HostInv, AdoptedInv
<1>6. ASSUME NEW start \in Starts, NEW s \in recorded \cup Forgeries, NEW paths \in Lists,
             Rewrite(start, s, paths)
      PROVE  CaptureInductive'
  BY <1>1, <1>2, <1>3, <1>6 DEF Rewrite, HostInv
<1>7. ASSUME NEW p \in Paths, NEW c \in Contents \cup {NoFile}, ChangeFile(p, c)
      PROVE  CaptureInductive'
  BY <1>1, <1>2, <1>3, <1>7 DEF ChangeFile, HostInv, BundleType
<1>8. CASE Tick
  BY <1>1, <1>2, <1>3, <1>8 DEF Tick, HostInv
<1>9. ASSUME NEW at \in {0, clock}, VerifyCapture(at) PROVE CaptureInductive'
  <2>1. /\ kept # None /\ receipt = kept.receipt
        /\ FewEnough(bundle) /\ FilesMatch(receipt, bundle)
        /\ CandidateHashes(receipt.transaction.identity)
             \subseteq {Tagged(f.sha256) : f \in receipt.files}
    BY <1>9 DEF VerifyCapture, VerifyCaptureReceipt, IdentitiesKept
  <2>2. /\ adopted'.receipt = receipt /\ adopted'.bundle = bundle
        /\ UNCHANGED <<vars, receipt, kept, bundle, clock, imported, edits>>
    BY <1>9 DEF VerifyCapture
  <2>3. AdoptedInv'
    BY <2>1, <2>2 DEF AdoptedInv, KeptInv, HostInv
  <2>. QED  BY <1>1, <1>2, <2>2, <2>3 DEF HostInv
<1>. QED  BY <1>4, <1>5, <1>6, <1>7, <1>8, <1>9 DEF CaptureNext, allVars

(* Throughout a capture the transaction keeps its invariant, what the host   *)
(* retained is what was imported, and what was adopted matched it.           *)
THEOREM SpecCaptureInductive == CaptureSpec => []CaptureInductive
  BY InitCapture, NextCapture, PTL DEF CaptureSpec

(* Composed with a capture, the transaction still behaves as specified by    *)
(* itself: everything proved of Spec holds of CaptureSpec.                   *)
THEOREM CaptureIsTransaction == CaptureSpec => Spec
<1>1. CaptureInit => Init
  BY DEF CaptureInit
<1>. QED  BY <1>1, StepOfTransaction, PTL DEF CaptureSpec, Spec

-----------------------------------------------------------------------------
(* A declared file has a path of the bundle and the bytes found there. *)
LEMMA DeclaredFiles ==
  ASSUME NEW r, NEW b, ReceiptOf(r, b), NEW f \in r.files
  PROVE  f.path \in Paths /\ b[f.path] # NoFile /\ f = [path |-> f.path, sha256 |-> b[f.path]]
  BY DEF ReceiptOf, Declared, Given

LEMMA ImportedFromInductive == CaptureInductive => AdoptedAsImported
<1>. SUFFICES ASSUME CaptureInductive, adopted # None PROVE AdoptedAsImported
  BY DEF AdoptedAsImported
<1>. DEFINE r == adopted.receipt
<1>1. /\ r = imported.receipt /\ FilesMatch(r, adopted.bundle)
      /\ CandidateHashes(r.transaction.identity) \subseteq {Tagged(f.sha256) : f \in r.files}
      /\ r.transaction \in recorded /\ r.transaction.state = "reviewed"
      /\ ReceiptOf(r, imported.bundle)
  BY DEF CaptureInductive, AdoptedInv, KeptInv
<1>2. ASSUME NEW f \in r.files
      PROVE  adopted.bundle[f.path] = f.sha256 /\ imported.bundle[f.path] = f.sha256
  <2>1. adopted.bundle[f.path] = f.sha256
    BY <1>1 DEF FilesMatch
  <2>2. f = [path |-> f.path, sha256 |-> imported.bundle[f.path]]
    BY <1>1, DeclaredFiles
  <2>3. f.sha256 = imported.bundle[f.path]
    BY <2>2
  <2>. QED  BY <2>1, <2>3
<1>3. ASSUME NEW h \in CandidateHashes(r.transaction.identity)
      PROVE  \E f \in r.files : Tagged(adopted.bundle[f.path]) = h
  BY <1>1, <1>2
<1>. QED  BY <1>1, <1>2, <1>3 DEF AdoptedAsImported

(* Whatever happened to the stored receipt and the bundle, an adopted        *)
(* capture is the imported one, byte for byte, of the reviewed transaction.  *)
THEOREM SpecAdoptedAsImported == CaptureSpec => []AdoptedAsImported
  BY SpecCaptureInductive, ImportedFromInductive, PTL

LEMMA UntouchedFromInductive == CaptureInductive => UntouchedVerifies
<1>. SUFFICES ASSUME CaptureInductive, kept # None, receipt = imported.receipt,
                     bundle = imported.bundle, Complete(receipt, bundle)
              PROVE  UntouchedVerifies
  BY DEF UntouchedVerifies
<1>. DEFINE t == receipt.transaction
            p == Provenance[t.identity]
<1>1. /\ kept.receipt = receipt /\ kept.start = receipt.start /\ kept.transaction = t
      /\ receipt.wire /\ t \in recorded /\ Validate(t) /\ t.state = "reviewed"
      /\ ReceiptOf(receipt, bundle)
  BY DEF CaptureInductive, KeptInv
<1>2. t \in Snapshot
  BY <1>1 DEF CaptureInductive, Inductive, TypeOK
<1>3. IdentitiesKept(receipt, kept)
  BY <1>1, <1>2, ValidIsCanonical DEF IdentitiesKept
<1>4. ASSUME NEW f \in receipt.files
      PROVE  f.path \in Paths /\ bundle[f.path] # NoFile /\ bundle[f.path] = f.sha256
  <2>1. /\ f.path \in Paths /\ bundle[f.path] # NoFile
        /\ f = [path |-> f.path, sha256 |-> bundle[f.path]]
    BY <1>1, DeclaredFiles
  <2>2. f.sha256 = bundle[f.path]
    BY <2>1
  <2>. QED  BY <2>1, <2>2
<1>5. DecodeCaptureReceipt(receipt)
  <2>1. ASSUME NEW f \in receipt.files, NEW g \in receipt.files, f.path = g.path PROVE f = g
    <3>1. f = [path |-> f.path, sha256 |-> bundle[f.path]]
      BY <1>1, DeclaredFiles
    <3>2. g = [path |-> g.path, sha256 |-> bundle[g.path]]
      BY <1>1, DeclaredFiles
    <3>. QED  BY <2>1, <3>1, <3>2
  <2>. QED  BY <1>1, <2>1 DEF DecodeCaptureReceipt, Complete
<1>6. FilesMatch(receipt, bundle)
  BY <1>4 DEF FilesMatch, Complete
<1>7. ASSUME NEW at PROVE VerifyCaptureReceipt(receipt, kept, bundle, at) <=> InWindow(receipt, at)
  BY <1>3, <1>5, <1>6 DEF VerifyCaptureReceipt, Complete
<1>8. InWindow(receipt, 0)
  BY DEF InWindow
<1>9. InWindow(receipt, clock) <=> clock \in p.observed..(p.expires - 1)
  <2>1. p.observed \in Nat /\ p.expires \in Nat /\ clock \in Nat /\ clock # 0
    BY <1>2, CaptureAssumption DEF Snapshot, CaptureInductive, HostInv
  <2>. QED  BY <2>1 DEF InWindow
<1>. QED  BY <1>7, <1>8, <1>9 DEF UntouchedVerifies

(* A complete capture nobody touched verifies exactly inside its window, and *)
(* for ever without a time.                                                  *)
THEOREM SpecUntouchedVerifies == CaptureSpec => []UntouchedVerifies
  BY SpecCaptureInductive, UntouchedFromInductive, PTL

LEMMA CorrespondsFromInductive == CaptureInductive => AdoptedCorresponds
<1>. SUFFICES ASSUME CaptureInductive, adopted # None PROVE AdoptedCorresponds
  BY DEF AdoptedCorresponds
<1>. DEFINE r == adopted.receipt
            declared == {f.path : f \in r.files}
            package == [p \in Paths |-> IF p \in declared THEN adopted.bundle[p] ELSE NoFile]
            given == Given(package)
            hashes == {package[p] : p \in given}
<1>1. /\ r = imported.receipt /\ FilesMatch(r, adopted.bundle) /\ FewEnough(adopted.bundle)
      /\ CandidateHashes(r.transaction.identity) \subseteq {Tagged(f.sha256) : f \in r.files}
      /\ ReceiptOf(r, imported.bundle)
  BY DEF CaptureInductive, AdoptedInv, KeptInv
<1>2. ASSUME NEW f \in r.files
      PROVE  /\ f.path \in given /\ package[f.path] = f.sha256
             /\ f = [path |-> f.path, sha256 |-> package[f.path]]
  <2>1. f.path \in Paths /\ adopted.bundle[f.path] # NoFile /\ adopted.bundle[f.path] = f.sha256
    BY <1>1 DEF FilesMatch
  <2>2. package[f.path] = f.sha256
    BY <2>1
  <2>3. f = [path |-> f.path, sha256 |-> imported.bundle[f.path]]
    BY <1>1, DeclaredFiles
  <2>4. f.sha256 = imported.bundle[f.path]
    BY <2>3
  <2>. HIDE DEF package
  <2>. QED  BY <2>1, <2>2, <2>3, <2>4 DEF Given
<1>3. given \subseteq declared
  BY DEF Given
<1>. HIDE DEF package
<1>4. Declared(package, given) = r.files
  <2>1. ASSUME NEW d \in Declared(package, given) PROVE d \in r.files
    <3>1. PICK p \in given : d = [path |-> p, sha256 |-> package[p]]
      BY DEF Declared
    <3>2. PICK f \in r.files : f.path = p
      BY <1>3
    <3>. QED  BY <1>2, <3>1, <3>2
  <2>2. ASSUME NEW f \in r.files PROVE f \in Declared(package, given)
    BY <1>2 DEF Declared
  <2>. QED  BY <2>1, <2>2
<1>5. \A f \in r.files : f.sha256 \in hashes
  BY <1>2
<1>6. ASSUME NEW h \in CandidateHashes(r.transaction.identity) PROVE TrimPrefix(h) \in hashes
  <2>1. PICK f \in r.files : h = Tagged(f.sha256)
    BY <1>1
  <2>2. TrimPrefix(h) = f.sha256
    BY <2>1 DEF Tagged, TrimPrefix
  <2>. QED  BY <1>5, <2>2
<1>7. SizesFit(Declared(package, given))
  BY <1>1, <1>4 DEF FilesMatch
<1>8. FewEnough(package)
  <2>1. given \subseteq Given(adopted.bundle)
    <3>. SUFFICES ASSUME NEW p \in given PROVE p \in Given(adopted.bundle)
      OBVIOUS
    <3>1. PICK f \in r.files : f.path = p
      BY <1>3
    <3>. QED  BY <1>1, <3>1 DEF FilesMatch, Given
  <2>2. IsFiniteSet(Given(adopted.bundle))
    <3>1. Given(adopted.bundle) \subseteq Paths /\ IsFiniteSet(Paths)
      BY CaptureAssumption DEF Given
    <3>. QED  BY <3>1, FS_Subset
  <2>3. /\ Cardinality(given) \in Nat /\ Cardinality(Given(adopted.bundle)) \in Nat
        /\ Cardinality(given) <= Cardinality(Given(adopted.bundle))
    BY <2>1, <2>2, FS_Subset, FS_CardinalityType
  <2>. QED  BY <1>1, <2>3, CaptureAssumption DEF FewEnough
<1>9. CaptureArtifactsMatch(r, package)
  BY <1>5, <1>6, <1>7, <1>8 DEF CaptureArtifactsMatch
<1>. QED  BY <1>9 DEF AdoptedCorresponds, package

(* A package of exactly the declared files corresponds to the capture. *)
THEOREM SpecAdoptedCorresponds == CaptureSpec => []AdoptedCorresponds
  BY SpecCaptureInductive, CorrespondsFromInductive, PTL
=============================================================================
