-------------------------- MODULE ReviewedPackage --------------------------
(***************************************************************************)
(* packagev3: a package as a set of files that name each other by digest,  *)
(* its verification from bytes, and the execution plan derived from what   *)
(* was verified.  Operators only; BrokerExecution and BrowserAuthorization *)
(* build their state machines on them.                                     *)
(*                                                                         *)
(* A digest is abstracted to what it identifies.  A content is everything  *)
(* a package's inputs hold (workflow, data, sources, shapes, supplement),  *)
(* with the facts the code computes from those bytes:                      *)
(*   operations  the leaves of the one workflow, in order                  *)
(*   fit         the outcome Assess computes for these bytes               *)
(*   clean       within limits and free of private or credential values    *)
(*   sequence    one flat sequence, each operation used once, dependencies *)
(*               on earlier steps, bindings that resolve to one shape      *)
(*   runtime     the revision of the runtime-function catalogue, if any    *)
(*   browser     the manifest has a browser supplement                     *)
(***************************************************************************)
EXTENDS Integers, Sequences

CONSTANTS Contents,   \* reviewed input bytes
          Schemes,    \* credential scheme names
          Workers,    \* worker identities: binary, closure, runtime revision
          Admits,     \* <<worker, content>> the worker's runtime admits
          None

OperationKinds == {"http", "fnct", "browser"}

(* supported: every requirement is an unscoped bearer token or API key that *)
(* the native source inventory confirms.                                    *)
Operation == [kind: OperationKinds, complete: BOOLEAN, alternatives: Nat,
              schemes: SUBSET Schemes, supported: BOOLEAN]

Content ==
  [name: STRING, operations: Seq(Operation),
   fit: {"compatible", "indeterminate", "incompatible"}, clean: BOOLEAN,
   sequence: BOOLEAN, runtime: STRING, browser: BOOLEAN]

Worker == [binary: STRING, closure: STRING, revision: STRING, valid: BOOLEAN]

(* A workflow has a leaf, and a runtime function no security requirement     *)
(* (verifyRuntimeTable refuses others).                                      *)
ASSUME PackageAssumption ==
  /\ Contents \subseteq Content
  /\ Workers \subseteq Worker /\ Admits \subseteq Workers \X Contents
  /\ \A c \in Contents :
       /\ Len(c.operations) > 0
       /\ \A n \in DOMAIN c.operations :
            c.operations[n].kind = "fnct" => c.operations[n].schemes = {}

Kinds(c) == {c.operations[n].kind : n \in DOMAIN c.operations}
Needs(c) == UNION {c.operations[n].schemes : n \in DOMAIN c.operations}

-----------------------------------------------------------------------------
(* The records of a package, and the files that hold them. *)
Assessment == [of: Contents, outcome: {"compatible", "indeterminate", "incompatible"}]
Handoff == [of: Contents, assessment: Assessment, credentials: SUBSET Schemes]
Files == [inputs: Contents, manifest: Contents, assessment: Assessment, handoff: Handoff]

Assess(c) == [of |-> c, outcome |-> c.fit]
declaredCredentials(c) == Needs(c)

(* Build packages incompatible content too: it is there to be reviewed.     *)
Build(c) ==
  [inputs |-> c, manifest |-> c, assessment |-> Assess(c),
   handoff |-> [of |-> c, assessment |-> Assess(c), credentials |-> declaredCredentials(c)]]

(* The manifest lists exactly the input files, by digest; the assessment    *)
(* and the handoff name that manifest, the handoff also the assessment.     *)
ManifestFits(files) == files.manifest = files.inputs

AssessmentFits(files) ==
  /\ files.assessment.outcome \in {"compatible", "indeterminate", "incompatible"}
  /\ files.assessment.of = files.manifest

HandoffFits(files) ==
  files.handoff.of = files.manifest /\ files.handoff.assessment = files.assessment

(* inspectSnapshot: the records agree with the files and with each other,   *)
(* and all of them with the digest the host expects.                        *)
inspectSnapshot(files, expected) ==
  /\ files.inputs.clean
  /\ ManifestFits(files) /\ HandoffFits(files) /\ AssessmentFits(files)
  /\ files = expected

(* Mutant: the assessment and the credential inventory are believed. *)
VerifyRecordsOnly(files, expected) == inspectSnapshot(files, expected)

(* Verify derives the credential inventory and the assessment afresh.       *)
Verify(files, expected) ==
  /\ inspectSnapshot(files, expected)
  /\ files.handoff.credentials = declaredCredentials(files.inputs)
  /\ files.assessment = Assess(files.inputs)

-----------------------------------------------------------------------------
(* DeriveExecutionPlan from a verified snapshot v for a selected worker w.  *)
NeedsRuntime(c) == Kinds(c) \cap {"fnct", "browser"} # {}

PlanDerivable(v, w) ==
  /\ v # None /\ w.valid /\ v.assessment.outcome # "incompatible"
  /\ v.inputs.sequence
  /\ \A n \in DOMAIN v.inputs.operations :
       v.inputs.operations[n].kind = "http" => v.inputs.operations[n].complete
  /\ "fnct" \in Kinds(v.inputs) => v.inputs.runtime = w.revision
  /\ "browser" \in Kinds(v.inputs) => v.inputs.browser
  /\ v.inputs.browser => Kinds(v.inputs) = {"browser"}
  /\ NeedsRuntime(v.inputs) => <<w, v.inputs>> \in Admits

(* The constraints digest of every leaf includes the worker. *)
Leaf(v, w, n) == [operation |-> v.inputs.operations[n], constraints |-> <<v.inputs, n, w>>]

DeriveExecutionPlan(v, w) ==
  [package |-> v, worker |-> w,
   operations |-> [n \in DOMAIN v.inputs.operations |-> Leaf(v, w, n)]]

Plan ==
  [package: Files, worker: Workers,
   operations: Seq([operation: Operation, constraints: Contents \X Nat \X Workers])]

(* None is the absence of a plan or a package. *)
ASSUME NoneAssumption == None \notin Plan /\ None \notin Files
=============================================================================
