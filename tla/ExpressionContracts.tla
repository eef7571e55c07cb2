------------------------- MODULE ExpressionContracts -------------------------
(***************************************************************************)
(* packagev3/expression_contracts.go: what the review of a package can say *)
(* about the value an expression will have at run time, from the reviewed  *)
(* data and the operation shapes alone.  A contract is a schema and one of *)
(* "compatible", "indeterminate", "incompatible".                          *)
(*                                                                         *)
(* A value is a scalar with a JSON type, a container (object or array: an  *)
(* array's fields are its canonical indices), a string that is itself an   *)
(* expression ("dynamic"), or Absent.  An expression is what the public    *)
(* parser makes of its text: a root and the path below it; the dot and     *)
(* pointer spellings of one path are one expression, a text that does not  *)
(* parse is "bad".  A document is                                          *)
(*   [variables, data, components : name -> value,                         *)
(*    operations : id -> operation, workflows : Seq([type, steps, outputs])]*)
(* and a step [id, op, flat, when, outputs].                               *)
(***************************************************************************)
EXTENDS Integers, Sequences, FiniteSets

CONSTANTS
  Alphabet,     \* the output names in the order sort.Strings gives them
  MaxDepth,     \* 64 in the code
  Values,       \* the values data and responses are made of
  Expressions   \* the expressions a document may hold

ASSUME DepthAssumption == MaxDepth \in Nat

-----------------------------------------------------------------------------
Absent == [kind |-> "absent"]
Scalar(type, atom) == [kind |-> "scalar", type |-> type, atom |-> atom]
Container(fields) == [kind |-> "container", fields |-> fields]
Dynamic == [kind |-> "dynamic"]

Field(value, name) ==
  IF value.kind = "container" /\ name \in DOMAIN value.fields THEN value.fields[name] ELSE Absent

With(f, x, v) == [y \in DOMAIN f \cup {x} |-> IF y = x THEN v ELSE f[y]]

(* Schemas.  Anything is a known schema without keywords; restricted is any  *)
(* keyword of an object besides type, properties, required and               *)
(* additionalProperties; sound is a constant that its whole schema admits.   *)
Unknown == [kind |-> "unknown"]
Anything == [kind |-> "any"]
Nothing == [kind |-> "false"]
Typed(type) == [kind |-> "type", type |-> type]
Const(value, sound) == [kind |-> "const", value |-> value, sound |-> sound]
ObjectOf(properties, required, closed, restricted) ==
  [kind |-> "object", properties |-> properties, required |-> required,
   closed |-> closed, restricted |-> restricted]

Contract(schema, status) == [schema |-> schema, status |-> status]
Indeterminate == Contract(Unknown, "indeterminate")
Incompatible == Contract(Unknown, "incompatible")
Proved(schema) == Contract(schema, IF schema = Unknown THEN "indeterminate" ELSE "compatible")

-----------------------------------------------------------------------------
HasDynamic[value \in Values] ==
  \/ value.kind = "dynamic"
  \/ value.kind = "container" /\ \E f \in DOMAIN value.fields : HasDynamic[value.fields[f]]

literalContract(value) == IF HasDynamic[value] THEN Unknown ELSE Const(value, TRUE)

lookupLiteral(value, path) ==
  LET below[n \in 0..Len(path)] == IF n = 0 THEN value ELSE Field(below[n - 1], path[n])
  IN  below[Len(path)]

(* The schema below a path, as far as presence is proved: below a constant   *)
(* or a name that a closed object does not declare, the very value is known. *)
Known(value) == [kind |-> "known", value |-> value]

Property(schema, name) ==
  CASE (schema.kind = "const" /\ schema.sound) \/ schema.kind = "known" ->
         Known(Field(schema.value, name))
    [] schema.kind = "object" /\ ~schema.restricted /\ name \notin DOMAIN schema.properties ->
         IF schema.closed THEN Known(Absent) ELSE Unknown
    [] schema.kind = "object" /\ ~schema.restricted /\ name \in DOMAIN schema.properties ->
         IF name \in schema.required THEN schema.properties[name] ELSE Unknown
    [] OTHER -> Unknown

childContract(schema, path) ==
  LET below[n \in 0..Len(path)] == IF n = 0 THEN schema ELSE Property(below[n - 1], path[n])
      found == below[Len(path)]
  IN  IF found.kind # "known" THEN found
      ELSE IF found.value = Absent THEN Nothing ELSE literalContract(found.value)

-----------------------------------------------------------------------------
(* The shape of an operation as the verified table resolves it, or NoShape:  *)
(*   [protocol, action, complete, takesBody, outputs]                        *)
(* outputs is a set of [location, name, schema].                             *)
NoShape == [protocol |-> "none", action |-> FALSE]

runtimeBodyBinding(op) ==
  /\ op.owner = "runtime" /\ op.bodyOnly /\ ~op.arguments
  /\ op.shape.protocol = "fnct" /\ op.shape.complete /\ op.shape.takesBody
  /\ Cardinality(op.shape.outputs) = 1
  /\ \A o \in op.shape.outputs :
       o.location = "body" /\ o.name = "received_body" /\ o.schema # Unknown

NoOperation == "no operation"

shape(d, op) ==
  IF op = NoOperation THEN NoShape
  ELSE IF d.operations[op].owner = "source" \/ runtimeBodyBinding(d.operations[op])
       THEN d.operations[op].shape ELSE NoShape

(* A browser action declares one body output per native name and no whole    *)
(* body: the first token of the path selects the output.                     *)
responseReference(r, s) ==
  CASE r.root = "header" -> [location |-> "header", name |-> r.name, path |-> <<>>]
    [] r.root = "body" /\ s.action ->
         IF r.path = <<>> THEN [location |-> "body", name |-> "", path |-> <<>>]
         ELSE [location |-> "body", name |-> Head(r.path), path |-> Tail(r.path)]
    [] r.root = "body" /\ ~s.action ->
         [location |-> "body", path |-> r.path,
          name |-> IF s.protocol = "fnct" THEN "received_body" ELSE "body"]

(* A path below a declared scalar of a browser action is known to be missing. *)
ScalarTypes == {"string", "boolean", "integer", "number", "null"}
BelowScalar(d, schema, path, op) ==
  path # <<>> /\ shape(d, op).action /\ schema.kind = "type" /\ schema.type \in ScalarTypes

-----------------------------------------------------------------------------
(* An expression's scope: the workflow and the step that own it (0 for       *)
(* none), the operation, and the outputs being resolved.                     *)
NoName == ""
Scope(w, i, op, outputs, name) ==
  [workflow |-> w, step |-> i, op |-> op, outputs |-> outputs, outputName |-> name]

Uses(d, op) ==
  {u \in UNION {{w} \X DOMAIN d.workflows[w].steps : w \in DOMAIN d.workflows} :
     d.workflows[u[1]].steps[u[2]].op = op}

operationScope(d, op) ==
  IF Cardinality(Uses(d, op)) = 1
  THEN LET u == CHOOSE u \in Uses(d, op) : TRUE IN Scope(u[1], u[2], op, <<>>, NoName)
  ELSE Scope(0, 0, op, <<>>, NoName)

Position(name) == CHOOSE i \in DOMAIN Alphabet : Alphabet[i] = name

(* Mutant: an output may name any other output of its owner. *)
OtherThan(a, b) == a # b

Before(a, b) == Position(a) < Position(b)

(* Mutant: a step may name any step of its workflow. *)
AnyStep(target, current) == TRUE

RunsEarlier(target, current) == current = 0 \/ target < current

(* The data overlays the document's variables; a component of the same name  *)
(* leaves two candidates for the runtime's value.                            *)
VariableContract(d, r) ==
  LET reviewed == DOMAIN d.variables \cup DOMAIN d.data
      value == IF r.name \in DOMAIN d.data THEN d.data[r.name]
               ELSE IF r.name \in reviewed THEN d.variables[r.name] ELSE d.components[r.name]
      found == lookupLiteral(value, r.path)
  IN  CASE r.name \notin reviewed \cup DOMAIN d.components -> Incompatible
        [] r.name \in reviewed /\ r.name \in DOMAIN d.components -> Indeterminate
        [] OTHER -> IF found = Absent THEN Incompatible ELSE Proved(literalContract(found))

(* The contract of a path below another expression's contract. *)
Below(d, c, path, op) ==
  CASE c.status # "compatible" -> c
    [] c.status = "compatible" /\ BelowScalar(d, c.schema, path, op) ->
         Contract(Nothing, "incompatible")
    [] OTHER -> Proved(childContract(c.schema, path))

ResponseContract(d, r, s) ==
  LET sh == shape(d, s.op)
      ref == responseReference(r, sh)
      declared == {o \in sh.outputs : o.location = ref.location /\ o.name = ref.name}
      schema == (CHOOSE o \in declared : TRUE).schema
      child == IF BelowScalar(d, schema, ref.path, s.op) THEN Nothing
               ELSE childContract(schema, ref.path)
  IN  CASE sh = NoShape -> Indeterminate
        [] sh # NoShape /\ declared = {} ->
             IF sh.complete THEN Incompatible ELSE Indeterminate
        [] OTHER -> IF child = Nothing THEN Contract(child, "incompatible") ELSE Proved(child)

(* A call of contract: the expression, its scope, the step outputs being     *)
(* resolved, and the depth.                                                  *)
OutputNames == {Alphabet[k] : k \in DOMAIN Alphabet}
OutputMaps == UNION {[names -> Expressions] : names \in SUBSET OutputNames}
Scopes ==
  [workflow : Nat, step : Nat, op : STRING \cup {NoOperation}, outputs : OutputMaps,
   outputName : OutputNames \cup {NoName}]
Frames == [ref : Expressions, scope : Scopes, active : SUBSET (STRING \X STRING), depth : Nat]
Frame(r, s, active, depth) == [ref |-> r, scope |-> s, active |-> active, depth |-> depth]

(* A step's declared output, resolved in the step's own scope.  (The code's  *)
(* other branch, for a scope without a step, has no caller.)                 *)
output(d, known, name, w, i, active, depth) ==
  LET step == d.workflows[w].steps[i] IN
  IF name \notin DOMAIN step.outputs \/ <<step.id, name>> \in active THEN Incompatible
  ELSE known[Frame(step.outputs[name], Scope(w, i, step.op, step.outputs, name),
                   active \cup {<<step.id, name>>}, depth + 1)]

StepContract(d, known, r, s, active, depth) ==
  LET workflow == d.workflows[s.workflow]
      targets == {i \in DOMAIN workflow.steps : workflow.steps[i].id = r.step}
      target == CHOOSE i \in targets : TRUE
      step == workflow.steps[target]
  IN  CASE s.workflow \notin DOMAIN d.workflows -> Indeterminate
        [] s.workflow \in DOMAIN d.workflows /\ Cardinality(targets) # 1 -> Incompatible
        [] OTHER ->
             IF workflow.type # "sequence" \/ ~step.flat \/ step.when THEN Indeterminate
             ELSE IF ~RunsEarlier(target, s.step) THEN Incompatible
             ELSE Below(d, output(d, known, r.name, s.workflow, target, active, depth + 1),
                        r.path, step.op)

OutputContract(d, known, r, s, active, depth) ==
  IF s.outputName = NoName \/ r.name \notin DOMAIN s.outputs \/ ~Before(r.name, s.outputName)
  THEN Incompatible
  ELSE Below(d, known[Frame(s.outputs[r.name], [s EXCEPT !.outputName = r.name], active, depth + 1)],
             r.path, s.op)

(* One call, known being the contracts of the calls it makes.                *)
Call(d, known, r, s, active, depth) ==
  CASE depth > MaxDepth -> Indeterminate
    [] depth <= MaxDepth /\ r.root = "bad" -> Incompatible
    [] depth <= MaxDepth /\ r.root \in {"operator", "other"} -> Indeterminate
    [] depth <= MaxDepth /\ r.root = "variables" -> VariableContract(d, r)
    [] depth <= MaxDepth /\ r.root = "steps" -> StepContract(d, known, r, s, active, depth)
    [] depth <= MaxDepth /\ r.root = "outputs" -> OutputContract(d, known, r, s, active, depth)
    [] depth <= MaxDepth /\ r.root = "status" ->
         IF shape(d, s.op).protocol = "http" THEN Proved(Typed("integer")) ELSE Indeterminate
    [] depth <= MaxDepth /\ r.root \in {"body", "header"} -> ResponseContract(d, r, s)

contract(d, r, s, active, depth) ==
  LET known[f \in Frames] == Call(d, known, f.ref, f.scope, f.active, f.depth)
  IN  known[Frame(r, s, active, depth)]

ContractOf(d, r, s) == contract(d, r, s, {}, 0)

(* The findings of n checks, in order. *)
Joined(found, n) ==
  LET joined[k \in 0..n] == IF k = 0 THEN <<>> ELSE joined[k - 1] \o found[k]
  IN  joined[n]

ReportedAs(status, reported) == IF status \in reported THEN <<status>> ELSE <<>>

(* What checkOutputs reports for the outputs of one owner, in order.         *)
checkOutputs(d, outputs, s) ==
  LET status(n) == ContractOf(d, outputs[n], [s EXCEPT !.outputs = outputs, !.outputName = n]).status
      found(n) == IF n \in DOMAIN outputs
                  THEN ReportedAs(status(n), {"indeterminate", "incompatible"}) ELSE <<>>
  IN  Joined([k \in DOMAIN Alphabet |-> found(Alphabet[k])], Len(Alphabet))

(* A request's references: only the incompatible ones are findings here; the *)
(* ones with a proved type are handed to the binding validator.              *)
checkExpressionValues(d, refs, s) ==
  Joined([k \in DOMAIN refs |-> ReportedAs(ContractOf(d, refs[k], s).status, {"incompatible"})],
         Len(refs))

types(d, refs, s) == {k \in DOMAIN refs : ContractOf(d, refs[k], s).status = "compatible"}
=============================================================================
