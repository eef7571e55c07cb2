--------------------------- MODULE RuntimeCatalog ---------------------------
(***************************************************************************)
(* packagev3/runtime_catalog.go: the operation shapes of a package are     *)
(* claims.  Those of API and browser sources are built from the sources by *)
(* the public libraries and reproduced by them on verification; those of   *)
(* runtime functions come from outside, with a catalog, and only the       *)
(* consumer's verifier can reproduce them.                                 *)
(*                                                                         *)
(* An operation has the shape the package claims and the actual shape a    *)
(* verifier reproduces from the exact source bytes (external); listed says *)
(* that its table entry is a plain one: an id selector with its own key,   *)
(* no aliases, and no security requirement.  A document's manifest is the  *)
(* sequence of the kinds of its sources, its catalog                       *)
(*   [id, version, revision, functions]                                    *)
(***************************************************************************)
EXTENDS ExpressionContracts

CONSTANT MaxFunctions   \* 128 in the code

RuntimeSourceID == "udon-runtime-functions"
RuntimeSourceKind == "runtime-function"
NoVerifier == "no verifier"

runtimeRevision(catalog) ==
  catalog.version /\ catalog.revision /\ catalog.functions <= MaxFunctions

(* sourceOptions and verifyShapes split sources and operations by kind. *)
Table(d) == {op \in DOMAIN d.operations : d.operations[op].shape # NoShape}
OfKind(d, kind) == {op \in Table(d) : d.operations[op].kind = kind}
Kinds(d) == {d.operations[op].kind : op \in Table(d)}
Sources(d, kind) == {i \in DOMAIN d.manifest : d.manifest[i] = kind}
Reproduced(d, kind) ==
  \A op \in OfKind(d, kind) : d.operations[op].shape = d.operations[op].actual

verifyRuntimeTable(d, verifier) ==
  /\ runtimeRevision(d.catalog) /\ verifier # NoVerifier /\ d.catalog.id = RuntimeSourceID
  /\ Cardinality(OfKind(d, RuntimeSourceKind)) \in 1..MaxFunctions
  /\ \A op \in OfKind(d, RuntimeSourceKind) :
       d.operations[op].shape.protocol = "fnct" /\ d.operations[op].listed
  /\ Reproduced(d, RuntimeSourceKind)

(* Mutant: the functions of a package are believed. *)
ApiShapesOnly(d, verifier) ==
  \A kind \in Kinds(d) \ {RuntimeSourceKind} : Sources(d, kind) # {} /\ Reproduced(d, kind)

verifyShapes(d, verifier) ==
  /\ \A kind \in Kinds(d) : Sources(d, kind) # {} /\ Reproduced(d, kind)
  /\ Sources(d, RuntimeSourceKind) # {} =>
       Cardinality(Sources(d, RuntimeSourceKind)) = 1 /\ verifyRuntimeTable(d, verifier)

(* A build makes the other shapes itself and takes the functions' as claimed. *)
buildShapes(d) ==
  LET built(o) == IF o.kind = RuntimeSourceKind THEN o ELSE [o EXCEPT !.shape = o.actual]
  IN  [d EXCEPT !.operations = [op \in DOMAIN d.operations |-> built(d.operations[op])]]
=============================================================================
