--------------------------- MODULE ReviewArchive ---------------------------
(***************************************************************************)
(* The life of one browser verification report: a checker writes it to a   *)
(* path, possibly while OpenUdon reads it (readStableRegularFile), what    *)
(* was read is inspected against the profile (InspectBytes), its summary   *)
(* is sealed into a review package whose digest the host retains, and the  *)
(* kept package is inspected again (InspectHistory, ValidateSummary) after *)
(* others had access to its files and time went by.                        *)
(*                                                                         *)
(* The file system, the checker, the keeper of the archive and the clock   *)
(* are external.  A file is a sequence of blocks with a modification time; *)
(* a write may fall into the same tick of that time as the one before it.  *)
(***************************************************************************)
EXTENDS BrowserVerification, ReviewHandoff

CONSTANTS
  Documents,       \* what a checker may write: sequences of blocks
  Rewrites,        \* those it writes over, and writes over others
  MaxBlocks,       \* MaxReportBytes
  MaxWrites, MaxEdits, MaxTime,
  ManifestPath, SummaryPath, WorkflowPath,
  None

(* A block is what is written at once: a part of a report.                   *)
Block == UNION {{d[i] : i \in DOMAIN d} : d \in Documents}

(* Three files in an archive, each with a path of its own. *)
ASSUME ArchiveAssumption ==
  /\ Documents \subseteq Seq(Block) /\ \A b \in Block : WireReport(b.report)
  /\ Rewrites \subseteq Documents /\ MaxBlocks \in Nat \ {0} /\ MaxFiles >= 3
  /\ {ManifestPath, SummaryPath, WorkflowPath} \subseteq CanonicalPaths
  /\ ManifestPath # SummaryPath /\ SummaryPath # WorkflowPath /\ WorkflowPath # ManifestPath

VARIABLES
  path,      \* the node the report's path names
  nodes,     \* [regular, blocks, mtime] of every node
  writing,   \* blocks of an in-place write that are still to come
  writes,    \* number of writes begun, bounded
  reader,    \* the reader's progress and what it remembers
  coarse,    \* history: a node was changed under the reader within one tick
  inspected, \* history: the last report inspected, when, and the verdict
  summary,   \* the accepted summary, or None
  sealed,    \* history: the files of the package as sealed, or None
  files,     \* the files of the package now
  edits,     \* number of edits, bounded
  review,    \* history: the archive's inspection as it is now, or None
  clock

fileVars == <<path, nodes, writing, writes>>
readVars == <<reader, coarse, inspected, summary>>
archiveVars == <<sealed, files, edits, review>>
vars == <<fileVars, readVars, archiveVars, clock>>

Idle == [phase |-> "idle"]
Blocks(n) == nodes[n].blocks

-----------------------------------------------------------------------------
(* The checker: a document renamed into place, or the file truncated and     *)
(* written again block by block.  Its work is over once a report is accepted.*)
Replace(document, regular) ==
  /\ writes < MaxWrites /\ writing = <<>> /\ summary = None
  /\ path' = Len(nodes) + 1
  /\ nodes' = Append(nodes, [regular |-> regular, blocks |-> document, mtime |-> 0])
  /\ writes' = writes + 1
  /\ UNCHANGED <<writing, readVars, archiveVars, clock>>

Modify(n, blocks) ==
  \E tick \in {0, 1} :
    /\ nodes' = [nodes EXCEPT ![n].blocks = blocks, ![n].mtime = @ + tick]
    /\ coarse' = (coarse \/ (/\ reader.phase \in {"reading", "read"} /\ reader.node = n
                             /\ nodes'[n].mtime = reader.mtime))

Truncate(document) ==
  /\ writes < MaxWrites /\ writing = <<>> /\ summary = None
  /\ Modify(path, <<>>)
  /\ writing' = document /\ writes' = writes + 1
  /\ UNCHANGED <<path, reader, inspected, summary, archiveVars, clock>>

WriteBlock ==
  /\ writing # <<>> /\ summary = None
  /\ Modify(path, Append(Blocks(path), Head(writing)))
  /\ writing' = Tail(writing)
  /\ UNCHANGED <<path, writes, reader, inspected, summary, archiveVars, clock>>

-----------------------------------------------------------------------------
(* readStableRegularFile *)
SizeAllowed(n) == n \in 1..MaxBlocks

Lstat ==
  /\ reader = Idle /\ summary = None
  /\ nodes[path].regular /\ SizeAllowed(Len(Blocks(path)))
  /\ reader' = [phase |-> "lstat", node |-> path]
  /\ UNCHANGED <<fileVars, coarse, inspected, summary, archiveVars, clock>>

(* A path that names another file by now ends the read. *)
Open ==
  /\ reader.phase = "lstat"
  /\ reader' = IF path = reader.node
               THEN [phase |-> "reading", node |-> path, size |-> Len(Blocks(path)),
                     mtime |-> nodes[path].mtime, data |-> <<>>]
               ELSE Idle
  /\ coarse' = FALSE
  /\ UNCHANGED <<fileVars, inspected, summary, archiveVars, clock>>

AtEnd == Len(reader.data) >= Len(Blocks(reader.node)) \/ Len(reader.data) > MaxBlocks

ReadBlock ==
  /\ reader.phase = "reading"
  /\ reader' = IF AtEnd THEN [reader EXCEPT !.phase = "read"]
               ELSE [reader EXCEPT !.data = Append(@, Blocks(reader.node)[Len(@) + 1])]
  /\ UNCHANGED <<fileVars, coarse, inspected, summary, archiveVars, clock>>

(* Mutant: only the size is compared after reading. *)
SizeUnchanged == Len(Blocks(reader.node)) = reader.size

Unchanged ==
  Len(Blocks(reader.node)) = reader.size /\ nodes[reader.node].mtime = reader.mtime

(* What the bytes decode to: a document has a head and a body, and the head  *)
(* of one report before the body of another is a report again.               *)
Decode(data) ==
  IF Len(data) = 2 /\ data[1].part = "head" /\ data[2].part = "body"
  THEN [data[2].report EXCEPT
          !.version = data[1].report.version, !.profileDigest = data[1].report.profileDigest,
          !.checkedAt = data[1].report.checkedAt, !.origin = data[1].report.origin,
          !.actions = data[1].report.actions, !.ok = data[1].report.ok]
  ELSE Malformed

(* JSON cut short is no JSON, unless only blanks after it are missing.       *)
ASSUME PrefixAssumption ==
  \A d \in Documents : \A n \in 0..Len(d) :
    SubSeq(d, 1, n) \in Documents \/ Decode(SubSeq(d, 1, n)) = Malformed

(* Inspect: the second Stat, then InspectBytes at the caller's time.         *)
Inspect(at) ==
  /\ reader.phase = "read"
  /\ LET data == Decode(reader.data)
         stable == SizeAllowed(Len(reader.data)) /\ Unchanged
         accepted == stable /\ InspectBytesAccepts(data, at)
     IN  /\ inspected' = IF stable THEN [blocks |-> reader.data, data |-> data, at |-> at,
                                         accepted |-> accepted]
                         ELSE inspected
         /\ summary' = IF accepted THEN SummaryOf(data) ELSE None
  /\ reader' = Idle
  /\ UNCHANGED <<fileVars, coarse, archiveVars, clock>>

-----------------------------------------------------------------------------
(* The host seals the summary and the workflow it was made for with a v2     *)
(* manifest, and retains the package digest; the report itself is not kept.  *)
ManifestFile(m) == [manifest |-> m, private |-> FALSE]
SummaryFile(s) == [summary |-> s, private |-> FALSE]
WorkflowFile(w) == [workflow |-> w, private |-> FALSE]

Input(p, sha) == [path |-> p, required |-> TRUE, sha256 |-> sha]

Reseal(contents, m) ==
  LET shas == [m EXCEPT !.inputs = [i \in DOMAIN m.inputs |->
                 IF m.inputs[i].path \in DOMAIN contents
                 THEN Input(m.inputs[i].path, Exact(contents[m.inputs[i].path])) ELSE m.inputs[i]]]
      self == ReviewHandoffSelfDigest(shas, ManifestPath)
  IN  [shas EXCEPT !.inputs = [i \in DOMAIN m.inputs |->
         IF m.inputs[i].path = ManifestPath THEN Input(ManifestPath, Exact(self)) ELSE shas.inputs[i]]]

Manifest(contents) ==
  Reseal(contents, NewReviewHandoff(
    [version |-> Exact(Blank), generatedState |-> Blank, approvalStates |-> <<>>,
     inputs |-> <<Input(WorkflowPath, Exact(Blank)), Input(SummaryPath, Exact(Blank)),
                  Input(ManifestPath, Exact(Blank))>>,
     owners |-> [host |-> {"execution"}], valuesAllowed |-> FALSE,
     policy |-> DefaultReviewExecutionPolicy(TRUE)]))

Contents(s) ==
  [p \in {SummaryPath, WorkflowPath} |->
     IF p = SummaryPath THEN SummaryFile(s) ELSE WorkflowFile("reviewed")]

Sealed(s) ==
  [p \in {ManifestPath, SummaryPath, WorkflowPath} |->
     IF p = ManifestPath THEN ManifestFile(Manifest(Contents(s))) ELSE Contents(s)[p]]

Seal ==
  /\ summary # None /\ sealed = None
  /\ sealed' = Sealed(summary)
  /\ files' = sealed'
  /\ path' = 0 /\ nodes' = <<>> /\ writing' = <<>> /\ writes' = MaxWrites
  /\ inspected' = None /\ coarse' = FALSE
  /\ UNCHANGED <<reader, summary, edits, review, clock>>

(* The keeper changes a file, or the manifest: resealed after a change,      *)
(* spelled differently, or with another policy.                              *)
Kept == files[ManifestPath].manifest

Edit(kept) ==
  /\ edits < MaxEdits
  /\ kept # files /\ files' = kept /\ edits' = edits + 1
  /\ review' = None
  /\ UNCHANGED <<fileVars, readVars, sealed, clock>>

WithManifest(m) == [files EXCEPT ![ManifestPath] = ManifestFile(m)]

ChangeWorkflow ==
  WorkflowPath \in DOMAIN files /\ Edit([files EXCEPT ![WorkflowPath] = WorkflowFile("other")])

ChangeSummary ==
  Edit([files EXCEPT ![SummaryPath] = SummaryFile([summary EXCEPT !.ok = ~@])])

DropWorkflow == Edit([p \in DOMAIN files \ {WorkflowPath} |-> files[p]])

ResealKept ==
  Edit(WithManifest(Reseal([p \in DOMAIN files \ {ManifestPath} |-> files[p]],
         [Kept EXCEPT !.inputs = SelectSeq(Kept.inputs, LAMBDA i : i.path \in DOMAIN files)])))

RespellManifest ==
  \/ Edit(WithManifest([Kept EXCEPT !.inputs = Reverse(Kept.inputs)]))
  \/ Edit(WithManifest([Kept EXCEPT !.version.exact = FALSE]))
  \/ Edit(WithManifest([Kept EXCEPT !.inputs = [i \in DOMAIN Kept.inputs |->
       IF Kept.inputs[i].path = ManifestPath
       THEN [Kept.inputs[i] EXCEPT !.sha256.exact = FALSE] ELSE Kept.inputs[i]]]))

ChangePolicy == Edit(WithManifest([Kept EXCEPT !.policy.direct = TRUE]))

Keep ==
  sealed # None /\ (\/ ChangeWorkflow \/ ChangeSummary \/ DropWorkflow \/ ResealKept
                   \/ RespellManifest \/ ChangePolicy)

Request(format) ==
  [format |-> format, scope |-> "package", files |-> files, manifestPath |-> ManifestPath,
   requiredPaths |-> {SummaryPath, WorkflowPath},
   expected |-> PackageSHA256([scope |-> "package", manifestPath |-> ManifestPath, files |-> sealed])]

(* The archive is inspected, and the retained summary validated again.       *)
InspectArchive(format) ==
  /\ sealed # None
  /\ review' = [format |-> format,
                accepted |-> InspectHistory(Request(format)),
                current |-> ValidateSummary(files[SummaryPath].summary, clock)]
  /\ UNCHANGED <<fileVars, readVars, sealed, files, edits, clock>>

Tick ==
  /\ clock < MaxTime /\ clock' = clock + 1 /\ review' = None
  /\ UNCHANGED <<fileVars, readVars, sealed, files, edits>>

-----------------------------------------------------------------------------
Init ==
  /\ path = 1 /\ writing = <<>> /\ clock = 1
  /\ \E document \in Documents :
       /\ nodes = <<[regular |-> TRUE, blocks |-> document, mtime |-> 0]>>
       /\ writes = IF document \in Rewrites THEN 0 ELSE MaxWrites
  /\ reader = Idle /\ coarse = FALSE /\ inspected = None /\ summary = None
  /\ sealed = None /\ files = None /\ edits = 0 /\ review = None

Next ==
  \/ \E document \in Rewrites :
       Truncate(document) \/ (\E regular \in BOOLEAN : Replace(document, regular))
  \/ WriteBlock \/ Lstat \/ Open \/ ReadBlock \/ (\E at \in {0, clock} : Inspect(at))
  \/ Seal \/ Keep \/ (\E format \in {"v2", "v3"} : InspectArchive(format))
  \/ Tick

Spec == Init /\ [][Next]_vars

-----------------------------------------------------------------------------
(* An accepted report is one document a checker wrote from beginning to end, *)
(* never the head of one and the body of another, although the checker may   *)
(* write while it is read; unless the file changed within one tick of its    *)
(* modification time, which no Stat can tell.                                *)
WrittenWhole ==
  summary # None /\ inspected # None => coarse \/ inspected.blocks \in Documents

(* InspectBytes accepts exactly the reports a truthful checker can write     *)
(* about this profile, while the profile is in force: no inconsistent        *)
(* verdict, invented engine result or stale report, and no honest one        *)
(* within the limits refused.                                                *)
AcceptedIffTruthful ==
  inspected # None =>
    inspected.accepted =
      (/\ inspected.data # Malformed /\ Truthful(inspected.data)
       /\ WithinLimits(inspected.data.actions)
       /\ Profile.verified <= inspected.data.checkedAt
       /\ inspected.data.checkedAt <= inspected.at /\ inspected.at < Profile.expires)

(* InspectHistory with the retained digest accepts the archive exactly while *)
(* it is, byte for byte, the package that was sealed: a resealed forgery and *)
(* a manifest spelled differently under the same self digest are refused.    *)
ArchiveIsSealed ==
  review # None => review.accepted = (review.format = "v2" /\ files = sealed)

(* The summary holds what its validation needs: once accepted, and while the *)
(* archive is accepted, ValidateSummary passes without the report for as     *)
(* long as the profile is in force, and never after.                         *)
SummaryKeepsWorking ==
  review # None /\ review.accepted => review.current = (clock < Profile.expires)
=============================================================================
