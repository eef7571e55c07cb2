--------------------------- MODULE CaptureReceipt ---------------------------
(***************************************************************************)
(* browserverify/capture.go: the receipt of an imported browser capture,   *)
(* DecodeCaptureReceipt, VerifyCaptureReceipt and CaptureArtifactsMatch,   *)
(* composed with the transaction it carries.  The importer, the stored     *)
(* receipt, the bundle of public files and the host's clock are external:  *)
(* the importer writes a receipt of the reviewed transaction, the host     *)
(* keeps its digest, the digest of the exact reviewed start and the        *)
(* transaction digest apart; the receipt may then be replaced and the      *)
(* files changed before it is verified, with or without a time.            *)
(*                                                                         *)
(* A digest is what it identifies: a plain one the content, the one in a   *)
(* transaction the content with its "sha256:" tag.  Content has a size;    *)
(* provenance gives each identity its candidates' digests and its window.  *)
(***************************************************************************)
EXTENDS BrowserTransaction, FiniteSets, FiniteSetsExt

CONSTANTS Paths,       \* clean relative paths of a bundle
          Contents,    \* byte contents
          NoFile,      \* no file at a path
          Bundles,     \* what the bundle may hold before an import
          Lists,       \* sets of paths that a receipt may be written to declare
          Size,        \* bytes of each content
          MaxFile,     \* 8 MiB in the code
          MaxTotal,    \* 32 MiB in the code
          MaxDeclared, \* files a receipt may declare, 128 in the code
          MaxFiles,    \* files a host may give, 512 in the code
          Starts,      \* digests of reviewed starts
          Provenance,  \* per identity: candidate digests, observed and expiry
          MaxTime,     \* bound on the clock
          MaxEdits     \* bound on changes to the receipt and the bundle

ASSUME CaptureAssumption ==
  /\ NoFile \notin Contents /\ IsFiniteSet(Paths)
  /\ Size \in [Contents -> Nat] /\ MaxFile \in Nat /\ MaxTotal \in Nat
  /\ MaxDeclared \in Nat /\ MaxFiles \in Nat
  /\ None \notin Starts /\ MaxTime \in Nat /\ MaxEdits \in Nat
  /\ Bundles \subseteq [Paths -> Contents \cup {NoFile}] /\ Lists \subseteq SUBSET Paths
  /\ DOMAIN Provenance = Identities
  /\ \A id \in Identities :
       /\ Provenance[id].observed \in Nat \ {0} /\ Provenance[id].expires \in Nat
       /\ Provenance[id].expires > Provenance[id].observed

VARIABLES
  receipt,   \* the stored receipt, or None
  kept,      \* receipt, start and transaction digests the host retained
  bundle,    \* content at each path
  clock,     \* the host's time; 0 is Go's zero time
  adopted,   \* history: what VerifyCaptureReceipt last accepted, and from what
  imported,  \* history: receipt and bundle as they were imported
  edits      \* changes so far

captureVars == <<receipt, kept, bundle, clock, adopted, imported, edits>>
allVars == <<vars, captureVars>>

-----------------------------------------------------------------------------
Tagged(c) == <<"sha256", c>>
(* Mutant: the tag is compared with the plain digest. *)
Untrimmed(h) == h

TrimPrefix(h) == h[2]

CandidateHashes(id) == Provenance[id].hashes

(* The files a receipt declares, each with its digest: a sequence in the     *)
(* code, whose order no check reads.                                         *)
Declared(b, paths) == {[path |-> p, sha256 |-> b[p]] : p \in paths}

(* The files a host gives: the whole bundle or package, and not too many.    *)
Given(b) == {p \in Paths : b[p] # NoFile}

FewEnough(b) == Cardinality(Given(b)) <= MaxFiles

(* DecodeCaptureReceipt.  wire stands for version, effect, digest syntax and *)
(* clean paths.                                                              *)
DecodeCaptureReceipt(r) ==
  /\ r.wire /\ Validate(r.transaction) /\ r.transaction.state = "reviewed"
  /\ r.files # {} /\ Cardinality(r.files) <= MaxDeclared
  /\ \A f, g \in r.files : f.path = g.path => f = g

(* Mutant: the window's end is still inside. *)
WindowClosed(r, at) ==
  at # 0 => /\ at >= Provenance[r.transaction.identity].observed
            /\ at <= Provenance[r.transaction.identity].expires

(* A historical inspection gives no time.  Otherwise observed <= at < expires. *)
InWindow(r, at) ==
  at # 0 => /\ at >= Provenance[r.transaction.identity].observed
            /\ at < Provenance[r.transaction.identity].expires

TotalSize(files) == MapThenSumSet(LAMBDA f : Size[f.sha256], files)

SizesFit(files) ==
  /\ \A f \in files : Size[f.sha256] \in 1..MaxFile
  /\ TotalSize(files) <= MaxTotal

(* Every declared file is given with exactly the declared bytes.             *)
FilesMatch(r, b) ==
  /\ \A f \in r.files : f.path \in Paths /\ b[f.path] # NoFile /\ b[f.path] = f.sha256
  /\ SizesFit(r.files)

(* Mutant: the receipt only has to be consistent with the transaction. *)
TransactionKept(r, k) ==
  r.start = k.start /\ CanonicalBytes(r.transaction) = k.transaction

IdentitiesKept(r, k) ==
  /\ r = k.receipt /\ r.start = k.start
  /\ CanonicalBytes(r.transaction) = k.transaction

VerifyCaptureReceipt(r, k, b, at) ==
  /\ FewEnough(b)
  /\ DecodeCaptureReceipt(r)
  /\ IdentitiesKept(r, k)
  /\ InWindow(r, at)
  /\ FilesMatch(r, b)
  /\ CandidateHashes(r.transaction.identity) \subseteq {Tagged(f.sha256) : f \in r.files}

(* CaptureArtifactsMatch compares digests wherever the package put the       *)
(* files; files is the package's path to content map.                        *)
CaptureArtifactsMatch(r, b) ==
  LET hashes == {b[p] : p \in Given(b)}
  IN  /\ FewEnough(b) /\ SizesFit(Declared(b, Given(b)))
      /\ \A f \in r.files : f.sha256 \in hashes
      /\ \A h \in CandidateHashes(r.transaction.identity) : TrimPrefix(h) \in hashes

-----------------------------------------------------------------------------
CaptureInit ==
  /\ Init
  /\ receipt = None /\ kept = None /\ imported = None /\ adopted = None
  /\ bundle \in Bundles /\ clock = 1 /\ edits = 0

(* External: a capture of the reviewed transaction is imported with some of  *)
(* the bundle's files, and the host retains the three digests.               *)
Import(start, paths) ==
  LET r == [wire |-> TRUE, start |-> start, transaction |-> last,
            files |-> Declared(bundle, paths)] IN
  /\ last.state = "reviewed" /\ kept = None
  /\ paths \subseteq Given(bundle)
  /\ receipt' = r
  /\ kept' = [receipt |-> r, start |-> start, transaction |-> retained]
  /\ imported' = [receipt |-> r, bundle |-> bundle]
  /\ UNCHANGED <<vars, bundle, clock, adopted, edits>>

(* External: the stored receipt is rewritten around a recorded or forged      *)
(* snapshot and any of the files the bundle has now.                          *)
Rewrite(start, s, paths) ==
  /\ kept # None /\ edits < MaxEdits
  /\ paths \subseteq Given(bundle)
  /\ receipt' = [wire |-> TRUE, start |-> start, transaction |-> s,
                 files |-> Declared(bundle, paths)]
  /\ edits' = edits + 1
  /\ UNCHANGED <<vars, kept, bundle, clock, adopted, imported>>

(* External: a file is changed, removed or added. *)
ChangeFile(p, c) ==
  /\ kept # None /\ edits < MaxEdits /\ c # bundle[p]
  /\ bundle' = [bundle EXCEPT ![p] = c]
  /\ edits' = edits + 1
  /\ UNCHANGED <<vars, receipt, kept, clock, adopted, imported>>

Tick ==
  /\ kept # None /\ clock < MaxTime
  /\ clock' = clock + 1
  /\ UNCHANGED <<vars, receipt, kept, bundle, adopted, imported, edits>>

(* A refusal leaves no trace: the caller gets an empty receipt. *)
VerifyCapture(at) ==
  /\ kept # None
  /\ VerifyCaptureReceipt(receipt, kept, bundle, at)
  /\ adopted' = [receipt |-> receipt, bundle |-> bundle]
  /\ UNCHANGED <<vars, receipt, kept, bundle, clock, imported, edits>>

CaptureNext ==
  \/ Next /\ UNCHANGED captureVars
  \/ \E start \in Starts, paths \in Lists : Import(start, paths)
  \/ \E start \in Starts, s \in recorded \cup Forgeries, paths \in Lists :
       Rewrite(start, s, paths)
  \/ \E p \in Paths, c \in Contents \cup {NoFile} : ChangeFile(p, c)
  \/ Tick
  \/ \E at \in {0, clock} : VerifyCapture(at)

CaptureSpec == CaptureInit /\ [][CaptureNext]_allVars

-----------------------------------------------------------------------------
(* An adopted capture is the imported one: the receipt, the start, the       *)
(* transaction (recorded as reviewed, whatever became of it since) and the   *)
(* bytes of every declared file are those of the import, and the reviewed    *)
(* candidates' sources and reviews are among them.                           *)
AdoptedAsImported ==
  adopted # None =>
    LET r == adopted.receipt IN
    /\ r = imported.receipt
    /\ r.transaction \in recorded /\ r.transaction.state = "reviewed"
    /\ \A f \in r.files : adopted.bundle[f.path] = imported.bundle[f.path]
    /\ \A h \in CandidateHashes(r.transaction.identity) :
         \E f \in r.files : Tagged(adopted.bundle[f.path]) = h

(* The importer listed files that cover the candidates and fit the limits,   *)
(* out of a bundle that fits them too.                                       *)
Complete(r, b) ==
  /\ r.files # {} /\ Cardinality(r.files) <= MaxDeclared /\ FewEnough(b)
  /\ SizesFit(r.files)
  /\ CandidateHashes(r.transaction.identity) \subseteq {Tagged(f.sha256) : f \in r.files}

(* A complete capture nobody touched verifies at every instant of its        *)
(* window and at none outside it, and without a time it verifies for ever:   *)
(* neither the clock nor the transaction's later life takes that away.       *)
UntouchedVerifies ==
  kept # None /\ receipt = imported.receipt /\ bundle = imported.bundle
  /\ Complete(receipt, bundle) =>
    LET p == Provenance[receipt.transaction.identity] IN
    /\ VerifyCaptureReceipt(receipt, kept, bundle, 0)
    /\ VerifyCaptureReceipt(receipt, kept, bundle, clock)
         <=> clock \in p.observed..(p.expires - 1)

(* Whoever packages exactly the declared files of an adopted capture has a   *)
(* package whose references correspond to it.                                *)
AdoptedCorresponds ==
  adopted # None =>
    LET declared == {f.path : f \in adopted.receipt.files}
        package == [p \in Paths |-> IF p \in declared THEN adopted.bundle[p] ELSE NoFile]
    IN  CaptureArtifactsMatch(adopted.receipt, package)
=============================================================================
