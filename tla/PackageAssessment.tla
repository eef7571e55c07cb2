-------------------------- MODULE PackageAssessment --------------------------
(***************************************************************************)
(* A v3 package from its building to a native run of its workflow: Build   *)
(* derives the browser supplement and assesses every expression, Verify    *)
(* reproduces both for a package that another producer may have put        *)
(* together, and the runtime evaluates the same expressions on real        *)
(* responses and authenticates and uses browser sessions step by step.     *)
(*                                                                         *)
(* The producer and the runtime are external.  The runtime evaluates as    *)
(* the native evaluator the package's tests run does: outputs in lexical   *)
(* order, each seeing the ones before it, an unresolved reference ends the *)
(* run.  A response conforms to the operation's actual shape; the first    *)
(* workflow of a document is the entry.                                    *)
(***************************************************************************)
EXTENDS BrowserSupplement, RuntimeCatalog, SequencesExt

CONSTANTS
  Documents,     \* the documents packages are built from
  Revisions,     \* the ones another producer may swap for each other
  Permissions,   \* the permissions a builder may pass
  Verifiers,     \* the runtime verifiers a host may have, or NoVerifier
  Bodies,        \* the values responses are made of
  Schemas,       \* the schemas of shapes and contracts
  Conforms(_, _),   \* whether a value is an instance of a schema (external)
  MaxFindings,   \* 128 in the code
  MaxEdits

ASSUME AssessmentAssumption ==
  Revisions \subseteq Documents /\ Bodies \subseteq Values /\ MaxFindings \in Nat

VARIABLES
  doc,         \* the document of the package
  supplement,  \* its browser supplement, or NoSupplement
  handoff,     \* the credential names its handoff declares
  assessment,  \* the assessment it carries
  phase,       \* authored, built, verified, refused, finished or failed
  edits,       \* times another producer wrote the package, bounded
  ran,         \* the outputs of the steps that have run, by step index
  skipped,     \* the steps whose condition did not hold
  uses,        \* history: the references the last step evaluated
  opened,      \* history: the source that authenticated each open session
  called       \* history: the last browser operation run, or NoCall

vars == <<doc, supplement, handoff, assessment, phase, edits, ran, skipped, uses, opened, called>>

-----------------------------------------------------------------------------
(* Mutant: the outcome is only raised while a finding is kept. *)
addKept(acc, outcome) ==
  IF acc.findings = MaxFindings THEN [acc EXCEPT !.truncated = TRUE]
  ELSE [acc EXCEPT !.findings = @ + 1,
          !.outcome = IF outcome = "incompatible" \/ (outcome = "indeterminate" /\ @ = "compatible")
                      THEN outcome ELSE @]

add(acc, outcome) ==
  [findings |-> IF acc.findings < MaxFindings THEN acc.findings + 1 ELSE acc.findings,
   truncated |-> acc.truncated \/ acc.findings >= MaxFindings,
   outcome |-> IF outcome = "incompatible" \/ (outcome = "indeterminate" /\ acc.outcome = "compatible")
               THEN outcome ELSE acc.outcome]

(* What is found on one operation.  The binding validator refuses a request  *)
(* whose references have no proved type.                                     *)
OperationFindings(d, s, op) ==
  LET o == d.operations[op]
      scope == operationScope(d, op)
      untyped == {k \in DOMAIN o.request : k \notin types(d, o.request, scope)}
      bound == IF shape(d, op) = NoShape \/ untyped # {} THEN <<"indeterminate">> ELSE <<>>
  IN  checkOutputs(d, o.outputs, scope) \o checkExpressionValues(d, o.request, scope)
        \o (IF findBrowserCall(s, op).kind \in {"authentication", "registration"} THEN <<>> ELSE bound)

StepFindings(d, w, i) ==
  LET step == d.workflows[w].steps[i]
  IN  checkOutputs(d, step.outputs, Scope(w, i, step.op, <<>>, NoName))
        \o (IF step.values THEN <<"indeterminate">> ELSE <<>>)

WorkflowFindings(d, w) ==
  LET steps == d.workflows[w].steps
  IN  checkOutputs(d, d.workflows[w].outputs, Scope(w, 0, NoOperation, <<>>, NoName))
        \o Joined([i \in DOMAIN steps |-> StepFindings(d, w, i)], Len(steps))

(* The public library's checks of the document and the check of its source   *)
(* inventory (source.inventory) report d.checks; the library's flow analysis *)
(* reports d.flow.                                                           *)
Findings(d, s) ==
  LET n == Cardinality(DOMAIN d.operations)
      operations == SetToSeq(DOMAIN d.operations)
      w == Len(d.workflows)
  IN  d.checks \o Joined([k \in 1..n |-> OperationFindings(d, s, operations[k])], n)
        \o Joined([k \in 1..w |-> WorkflowFindings(d, k)], w) \o d.flow

Tally(found) ==
  LET after[n \in 0..Len(found)] ==
        IF n = 0 THEN [findings |-> 0, truncated |-> FALSE, outcome |-> "compatible"]
        ELSE add(after[n - 1], found[n])
  IN  after[Len(found)]

Assess(d, s) == Tally(IF d.valid THEN Findings(d, s) ELSE <<"incompatible">>)

-----------------------------------------------------------------------------
(* Native evaluation (external). *)
Response(body, headers) == [body |-> body, headers |-> headers]
NoResponse == Response(Absent, <<>>)

Named(sh, location) == {o.name : o \in {p \in sh.outputs : p.location = location}}
Conforming(sh, location, name) ==
  LET o == CHOOSE p \in sh.outputs : p.location = location /\ p.name = name
  IN  {v \in Bodies : Conforms(v, o.schema)}
Chosen(sh, location) ==
  {f \in [Named(sh, location) -> Bodies] :
     \A name \in Named(sh, location) : f[name] \in Conforming(sh, location, name)}

Responses(sh) ==
  IF sh = NoShape THEN {NoResponse}
  ELSE {Response(b, h) :
          h \in Chosen(sh, "header"),
          b \in IF sh.action THEN {Container(f) : f \in Chosen(sh, "body")}
                ELSE IF Named(sh, "body") = {} THEN {Absent} \cup (IF sh.complete THEN {} ELSE Bodies)
                ELSE UNION {Conforming(sh, "body", name) : name \in Named(sh, "body")}}

Variable(d, name) ==
  LET reviewed == IF name \in DOMAIN d.data THEN <<d.data[name]>>
                  ELSE IF name \in DOMAIN d.variables THEN <<d.variables[name]>> ELSE <<>>
      component == IF name \in DOMAIN d.components THEN <<d.components[name]>> ELSE <<>>
      found == IF d.componentsFirst THEN component \o reviewed ELSE reviewed \o component
  IN  IF found = <<>> THEN Absent ELSE found[1]

Item(f, name, path) == IF name \in DOMAIN f THEN lookupLiteral(f[name], path) ELSE Absent

Evaluate(d, r, env) ==
  CASE r.root = "variables" -> lookupLiteral(Variable(d, r.name), r.path)
    [] r.root = "steps" ->
         IF r.step \in DOMAIN env.results THEN Item(env.results[r.step], r.name, r.path) ELSE Absent
    [] r.root = "outputs" -> Item(env.outputs, r.name, r.path)
    [] r.root = "status" -> IF env.http THEN Scalar("integer", 200) ELSE Absent
    [] r.root = "body" -> lookupLiteral(env.response.body, r.path)
    [] r.root = "header" -> Item(env.response.headers, r.name, r.path)
    [] r.root = "bad" -> Absent
    [] r.root \in {"operator", "other"} -> Dynamic

(* The outputs of one owner up to the first that does not resolve.           *)
ResolveNext(d, outputs, env, acc, n) ==
  IF n \notin DOMAIN outputs \/ \E m \in DOMAIN acc : acc[m] = Absent THEN acc
  ELSE With(acc, n, Evaluate(d, outputs[n], [env EXCEPT !.outputs = acc]))

Resolve(d, outputs, env) ==
  LET after[k \in 0..Len(Alphabet)] ==
        IF k = 0 THEN <<>> ELSE ResolveNext(d, outputs, env, after[k - 1], Alphabet[k])
  IN  after[Len(Alphabet)]

Resolved(values) == \A n \in DOMAIN values : values[n] # Absent

Use(ref, scope, value) == [ref |-> ref, scope |-> scope, value |-> value]
OutputUses(outputs, values, scope) ==
  {Use(outputs[n], [scope EXCEPT !.outputs = outputs, !.outputName = n], values[n]) :
     n \in DOMAIN values}

-----------------------------------------------------------------------------
(* What the constants stand for. *)

(* JSON Schema's meaning of the keywords the model keeps (external).         *)
Admits(schema, value) ==
  CASE schema.kind \in {"unknown", "any"} -> TRUE
    [] schema.kind = "false" -> FALSE
    [] schema.kind = "type" -> value.kind = "scalar" /\ value.type = schema.type
    [] schema.kind = "const" -> schema.sound /\ value = schema.value
    [] schema.kind = "object" ->
         /\ value.kind = "container" /\ schema.required \subseteq DOMAIN value.fields
         /\ \A f \in DOMAIN value.fields :
              IF f \in DOMAIN schema.properties
              THEN Conforms(value.fields[f], schema.properties[f]) ELSE ~schema.closed

ValueKinds == {"scalar", "container", "dynamic"}
SchemaKinds == {"unknown", "any", "false", "type", "const", "object"}

ASSUME DataAssumption ==
  /\ \A v \in Values :
       v.kind \in ValueKinds
       /\ (v.kind = "container" => \A f \in DOMAIN v.fields : v.fields[f] \in Values)
  /\ \A s \in Schemas :
       /\ s.kind \in SchemaKinds
       /\ s.kind = "unknown" => s = Unknown
       /\ s.kind = "false" => s = Nothing
       /\ s.kind = "const" => s.value \in Values
       /\ s.kind = "object" => \A f \in DOMAIN s.properties : s.properties[f] \in Schemas
  /\ {Typed("integer")} \cup {Const(v, TRUE) : v \in Values} \subseteq Schemas
  /\ \A v \in Values, s \in Schemas : Conforms(v, s) <=> Admits(s, v)
  /\ Scalar("integer", 200) \in Values

(* Distinct output names in order, and the expressions of the public parser: *)
(* a header has no path.                                                     *)
Roots == {"bad", "operator", "other", "variables", "steps", "outputs", "status", "body", "header"}

ASSUME ExpressionsAssumption ==
  /\ Alphabet \in Seq(STRING \ {NoName}) /\ IsInjective(Alphabet)
  /\ \A r \in Expressions :
       r.root \in Roots /\ r.path \in Seq(STRING) /\ (r.root = "header" => r.path = <<>>)

(* A shape declares an output once, and a body under the name its protocol   *)
(* gives it.                                                                 *)
ShapeFits(sh) ==
  sh # NoShape =>
    /\ \A o \in sh.outputs : o.location \in {"body", "header"} /\ o.schema \in Schemas
    /\ \A o, p \in sh.outputs : o.location = p.location /\ o.name = p.name => o = p
    /\ IF sh.action THEN "" \notin Named(sh, "body")
       ELSE Named(sh, "body") \subseteq {IF sh.protocol = "fnct" THEN "received_body" ELSE "body"}

(* A request's expressions are parsed in a context of their own, in which    *)
(* there is no response yet.                                                 *)
OperationFits(o) ==
  /\ DOMAIN o = {"owner", "bodyOnly", "arguments", "shape", "actual", "listed", "kind", "request",
                 "outputs", "browser"}
  /\ ShapeFits(o.shape) /\ ShapeFits(o.actual)
  /\ o.outputs \in OutputMaps
  /\ o.request \in Seq({r \in Expressions : r.root \notin {"status", "body", "header"}})

StepFits(d, step) ==
  step.id \in STRING /\ step.op \in DOMAIN d.operations /\ step.outputs \in OutputMaps

Outcomes == {"compatible", "indeterminate", "incompatible"}

DocumentFits(d) ==
  /\ DOMAIN d = {"variables", "data", "components", "componentsFirst", "operations", "sources",
                 "names", "valid", "checks", "flow", "catalog", "manifest", "workflows"}
  /\ \A names \in {d.variables, d.data, d.components} :
       \A n \in DOMAIN names : names[n] \in Values
  /\ IsFiniteSet(DOMAIN d.operations) /\ DOMAIN d.operations \subseteq STRING \ {NoOperation}
  /\ \A op \in DOMAIN d.operations : OperationFits(d.operations[op])
  /\ DOMAIN d.workflows = 1..Len(d.workflows) /\ Len(d.workflows) \in Nat \ {0}
  /\ \A w \in DOMAIN d.workflows :
       LET workflow == d.workflows[w] IN
       /\ workflow.outputs \in OutputMaps
       /\ DOMAIN workflow.steps = 1..Len(workflow.steps) /\ Len(workflow.steps) \in Nat
       /\ \A i \in DOMAIN workflow.steps : StepFits(d, workflow.steps[i])
  /\ NoSource \notin DOMAIN d.sources
  /\ d.checks \in Seq(Outcomes) /\ d.flow \in Seq(Outcomes)

ASSUME DocumentsAssumption == \A d \in Documents : DocumentFits(d)

-----------------------------------------------------------------------------
Init ==
  /\ doc \in Documents
  /\ supplement = NoSupplement /\ handoff = {} /\ phase = "authored" /\ edits = 0
  /\ assessment = [findings |-> 0, truncated |-> FALSE, outcome |-> "incompatible"]
  /\ ran = <<>> /\ skipped = {} /\ uses = {} /\ opened = <<>> /\ called = NoCall

Steps == doc.workflows[1].steps
NotRun == UNCHANGED <<ran, skipped, uses, opened, called>>

Build(permissions, verifier) ==
  LET d == buildShapes(doc)
      s == deriveBrowserSupplement(d, permissions)
  IN
  /\ phase = "authored"
  /\ IF verifyShapes(d, verifier) /\ s # Refused /\ MergeFits(d.names, s)
     THEN /\ doc' = d /\ supplement' = s /\ handoff' = mergeBrowserCredentials(d.names, s)
          /\ assessment' = Assess(d, s) /\ phase' = "built"
     ELSE phase' = "refused" /\ UNCHANGED <<doc, supplement, handoff, assessment>>
  /\ UNCHANGED edits /\ NotRun

(* Another producer (external) puts a package together around a revision of  *)
(* the document: with the supplement it had, that supplement bound to the    *)
(* revision, one with calls left out, moved, repeated, given other           *)
(* permissions or another authentication, or none.                           *)
Rewritten(s) ==
  LET n == Len(s.calls) IN
  {NoSupplement} \cup
  {[s EXCEPT !.calls = SubSeq(@, 1, k)] : k \in 1..(n - 1)} \cup
  {[s EXCEPT !.calls = Reverse(@)]} \cup
  {[s EXCEPT !.calls = Append(@, s.calls[k])] : k \in 1..n} \cup
  {[s EXCEPT !.calls = [@ EXCEPT ![k] = [@ EXCEPT !.save = ~@]]] : k \in 1..n} \cup
  {[s EXCEPT !.calls = [@ EXCEPT ![k] = [@ EXCEPT !.authentication = x]]] :
     k \in 1..n, x \in {NoSource} \cup DOMAIN s.sources}

Reassemble(d, s) ==
  /\ phase = "built" /\ doc \in Revisions /\ edits < MaxEdits
  /\ doc' = d /\ supplement' = s /\ edits' = edits + 1
  /\ handoff' \in {handoff, mergeBrowserCredentials(d.names, s)}
  /\ assessment' \in {assessment, Assess(d, s)}
  /\ UNCHANGED phase /\ NotRun

(* Verify: the manifest names a supplement exactly with browser sources, the *)
(* shapes, the credentials, the supplement and the assessment are derived    *)
(* again.                                                                    *)
Verify(verifier) ==
  /\ phase = "built"
  /\ phase' = IF /\ (supplement = NoSupplement) = (DOMAIN doc.sources = {})
                 /\ MergeFits(doc.names, supplement)
                 /\ handoff = mergeBrowserCredentials(doc.names, supplement)
                 /\ verifyShapes(doc, verifier)
                 /\ verifyBrowserSupplement(doc, supplement)
                 /\ assessment = Assess(doc, supplement)
              THEN "verified" ELSE "refused"
  /\ UNCHANGED <<doc, supplement, handoff, assessment, edits>> /\ NotRun

-----------------------------------------------------------------------------
(* What DeriveExecutionPlan asks of a package with a supplement: a plain     *)
(* sequence of browser leaves, nothing else.                                 *)
Planned ==
  supplement # NoSupplement =>
    /\ assessment.outcome # "incompatible" /\ doc.workflows[1].type = "sequence"
    /\ \A i \in DOMAIN Steps : findBrowserCall(supplement, Steps[i].op) # NoCall

Done == DOMAIN ran \cup skipped
Ready(i) ==
  /\ phase = "verified" /\ Planned /\ i \in DOMAIN Steps \ Done
  /\ doc.workflows[1].type = "sequence" => \A j \in 1..(i - 1) : j \in Done

Results ==
  [id \in {Steps[i].id : i \in DOMAIN ran} |->
     ran[CHOOSE i \in DOMAIN ran : Steps[i].id = id]]

Env(http, response) ==
  [results |-> Results, outputs |-> <<>>, http |-> http, response |-> response]

(* The runtime's browser: what the document asks of it, not the supplement.  *)
Browser(op, b, source) ==
  [op |-> op, kind |-> source.kind, source |-> b.source, session |-> Session(b),
   before |-> IF Session(b) \in DOMAIN opened THEN opened[Session(b)] ELSE NoSource]

RunStep(i, response) ==
  LET step == Steps[i]
      op == doc.operations[step.op]
      b == op.browser
      browser == b.source \in DOMAIN doc.sources
      scope == Scope(1, i, step.op, <<>>, NoName)
      asked == [k \in DOMAIN op.request |-> Evaluate(doc, op.request[k], Env(FALSE, NoResponse))]
      env == Env(op.actual.protocol = "http", response)
      ofOperation == Resolve(doc, op.outputs, env)
      ofStep == Resolve(doc, step.outputs, env)
      requested == {Use(op.request[k], operationScope(doc, step.op), asked[k]) : k \in DOMAIN asked}
  IN
  /\ Ready(i)
  /\ IF ~Resolved(asked)
     THEN uses' = requested /\ phase' = "failed" /\ UNCHANGED <<ran, opened, called>>
     ELSE /\ uses' = requested
                       \cup OutputUses(op.outputs, ofOperation, operationScope(doc, step.op))
                       \cup (IF Resolved(ofOperation)
                             THEN OutputUses(step.outputs, ofStep, scope) ELSE {})
          /\ phase' = IF Resolved(ofOperation) /\ Resolved(ofStep) THEN phase ELSE "failed"
          /\ ran' = With(ran, i, ofStep)
          /\ IF browser
             THEN /\ called' = Browser(step.op, b, doc.sources[b.source])
                  /\ opened' = IF doc.sources[b.source].kind = "authentication"
                               THEN With(opened, b.session, b.source) ELSE opened
             ELSE UNCHANGED <<called, opened>>
  /\ UNCHANGED <<doc, supplement, handoff, assessment, edits, skipped>>

SkipStep(i) ==
  /\ Ready(i) /\ Steps[i].when
  /\ skipped' = skipped \cup {i}
  /\ UNCHANGED <<doc, supplement, handoff, assessment, phase, edits, ran, uses, opened, called>>

Finish ==
  LET outputs == doc.workflows[1].outputs
      values == Resolve(doc, outputs, Env(FALSE, NoResponse))
  IN
  /\ phase = "verified" /\ Planned /\ Done = DOMAIN Steps
  /\ uses' = OutputUses(outputs, values, Scope(1, 0, NoOperation, <<>>, NoName))
  /\ phase' = IF Resolved(values) THEN "finished" ELSE "failed"
  /\ UNCHANGED <<doc, supplement, handoff, assessment, edits, ran, skipped, opened, called>>

Next ==
  \/ \E p \in Permissions, v \in Verifiers : Build(p, v)
  \/ \E d \in Revisions : \E s \in {supplement, [supplement EXCEPT !.workflow = d]} : Reassemble(d, s)
  \/ \E s \in Rewritten(supplement) : Reassemble(doc, s)
  \/ \E v \in Verifiers : Verify(v)
  \/ \E i \in DOMAIN Steps : \E r \in Responses(doc.operations[Steps[i].op].actual) : RunStep(i, r)
  \/ \E i \in DOMAIN Steps : SkipStep(i)
  \/ Finish

Spec == Init /\ [][Next]_vars

-----------------------------------------------------------------------------
(* Properties *)

(* The request of an authentication or registration is seen by no validator. *)
Unvalidated(u) ==
  /\ u.scope.outputName = NoName
  /\ findBrowserCall(supplement, u.scope.op).kind \in {"authentication", "registration"}

(* What the review proves of a reference holds in every run: a reference     *)
(* with a compatible contract has a value of that schema (or the schema      *)
(* admits none and the reference does not resolve), and the assessment's     *)
(* outcome is never better than the contract of an output or a request       *)
(* reference that is evaluated, however many findings there were.            *)
(* (expression_contracts.go contract, build.go Assess)                       *)
ContractSound ==
  \A u \in uses :
    LET c == ContractOf(doc, u.ref, u.scope) IN
    /\ c.status = "compatible" =>
         IF c.schema = Nothing THEN u.value = Absent
         ELSE u.value # Absent /\ Conforms(u.value, c.schema)
    /\ assessment.outcome = "compatible" /\ ~Unvalidated(u) => c.status = "compatible"
    /\ assessment.outcome = "indeterminate" => c.status # "incompatible"

(* In a verified package every browser operation that runs is described by   *)
(* its supplement as it happens: the same kind, source and session, a        *)
(* session opened exactly once, used only after the very source the call     *)
(* names authenticated it, kept only by its authentication, and with         *)
(* credentials the handoff declares.  (deriveBrowserSupplement,              *)
(* verifyBrowserSupplement)                                                  *)
SessionBeforeUse ==
  called # NoCall =>
    LET call == findBrowserCall(supplement, called.op) IN
    /\ call.kind = called.kind /\ call.source = called.source /\ call.session = called.session
    /\ called.kind = "authentication" => called.before = NoSource
    /\ called.kind = "action" => called.before = call.authentication
    /\ called.kind = "action" /\ called.session # NoSession => called.before # NoSource
    /\ call.save => called.kind = "authentication"
    /\ {call.credentials[slot] : slot \in DOMAIN call.credentials} \subseteq handoff

(* docs/package-v3.md: "missing/forward/cyclic output references block       *)
(* compatible review", so that no reference of a compatible package is       *)
(* missing when it is evaluated.                                             *)
MissingBlocksReview ==
  assessment.outcome = "compatible" => \A u \in uses : u.value # Absent
=============================================================================
