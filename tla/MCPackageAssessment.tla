------------------------ MODULE MCPackageAssessment ------------------------
EXTENDS PackageAssessment

Names == <<"a", "b", "c">>

-----------------------------------------------------------------------------
(* Values, schemas and shapes. *)
One == Scalar("integer", 1)
Word == Scalar("string", "w")
Inner == Container([x |-> One])
Outer == Container([n |-> One, k |-> Inner])
SomeBodies ==
  {One, Word, Inner, Outer, Container([n |-> One, k |-> Inner, o |-> Word]),
   Container([n |-> One, k |-> Inner, z |-> Word]), Container([n |-> One])}

InnerSchema == ObjectOf([x |-> Typed("integer")], {"x"}, TRUE, FALSE)
OuterSchema(closed, restricted) ==
  ObjectOf([n |-> Typed("integer"), k |-> InnerSchema, o |-> Typed("string")],
           {"n", "k"}, closed, restricted)
Schemes ==
  {Unknown, Anything, Typed("integer"), Const(Inner, TRUE), Const(Outer, TRUE),
   OuterSchema(TRUE, FALSE), OuterSchema(FALSE, FALSE), OuterSchema(TRUE, TRUE)}

Output(location, name, schema) == [location |-> location, name |-> name, schema |-> schema]
Shape(protocol, action, complete, outputs) ==
  [protocol |-> protocol, action |-> action, complete |-> complete, takesBody |-> TRUE,
   outputs |-> outputs]
Http(schema) ==
  Shape("http", FALSE, TRUE, {Output("body", "body", schema), Output("header", "n", Typed("string"))})
Plain == Http(OuterSchema(TRUE, FALSE))
Shapes ==
  {Http(schema) : schema \in Schemes} \cup
  {Shape("http", FALSE, complete, {}) : complete \in BOOLEAN} \cup
  {Shape("fnct", FALSE, TRUE, {Output("body", "received_body", OuterSchema(TRUE, FALSE))}), NoShape}

Nested == UNION {{v.fields[f] : f \in DOMAIN v.fields} : v \in {b \in SomeBodies : b.kind = "container"}}
SomeValues == SomeBodies \cup Nested \cup {Scalar("integer", 200), Dynamic, Container([x |-> Dynamic])}
SomeSchemas ==
  Schemes \cup {Nothing, InnerSchema, Typed("string")} \cup {Const(v, TRUE) : v \in SomeValues}

(* JSON Schema's meaning of the keywords the model keeps. *)
RECURSIVE ConformsTo(_, _)
ConformsTo(value, schema) ==
  CASE schema.kind \in {"unknown", "any"} -> TRUE
    [] schema.kind = "false" -> FALSE
    [] schema.kind = "type" -> value.kind = "scalar" /\ value.type = schema.type
    [] schema.kind = "const" -> schema.sound /\ value = schema.value
    [] schema.kind = "object" ->
         /\ value.kind = "container" /\ schema.required \subseteq DOMAIN value.fields
         /\ \A f \in DOMAIN value.fields :
              IF f \in DOMAIN schema.properties
              THEN ConformsTo(value.fields[f], schema.properties[f]) ELSE ~schema.closed

-----------------------------------------------------------------------------
(* References. *)
Ref(root, step, name, path) == [root |-> root, step |-> step, name |-> name, path |-> path]
Body(path) == Ref("body", "", "", path)
OfStep(step, name, path) == Ref("steps", step, name, path)
OfOutput(name, path) == Ref("outputs", "", name, path)
OfVariable(name, path) == Ref("variables", "", name, path)
Opaque == {Ref("bad", "", "", <<>>), Ref("operator", "", "", <<>>), Ref("other", "", "", <<>>)}

Leaves ==
  {Body(p) : p \in {<<>>, <<"n">>, <<"o">>, <<"k">>, <<"z">>, <<"k", "x">>, <<"k", "z">>, <<"n", "z">>}}
  \cup {Ref("header", "", n, <<>>) : n \in {"n", "z"}} \cup {Ref("status", "", "", <<>>)}
  \cup {OfVariable(n, p) : n \in {"plain", "shaded", "shared", "live", "none"}, p \in {<<>>, <<"x">>}}
  \cup Opaque

SomeExpressions ==
  Leaves \cup {OfOutput(n, p) : n \in {"a", "b", "c"}, p \in {<<>>, <<"x">>}}
  \cup {OfStep(s, n, p) : s \in {"s1", "s2", "s3"}, n \in {"a", "b", "c"},
                         p \in {<<>>, <<"x">>, <<"n">>, <<"z">>}}

-----------------------------------------------------------------------------
(* Documents. *)
NoBrowser ==
  [extension |-> "none", bound |-> FALSE, source |-> NoSource, session |-> NoSession,
   call |-> "none", credentials |-> <<>>, terms |-> TRUE, input |-> "", flat |-> TRUE,
   timeout |-> 0]
KindOf(sh) ==
  CASE sh.protocol = "fnct" -> RuntimeSourceKind [] sh.protocol = "browser" -> "browser-profile"
    [] OTHER -> "openapi"
Operation(sh, request, outputs) ==
  [owner |-> IF sh.protocol = "fnct" THEN "runtime" ELSE "source", bodyOnly |-> TRUE,
   arguments |-> FALSE, shape |-> sh, actual |-> sh, listed |-> TRUE, kind |-> KindOf(sh), request |-> request, outputs |-> outputs,
   browser |-> NoBrowser]
Step(id, op, outputs) ==
  [id |-> id, op |-> op, flat |-> TRUE, when |-> FALSE, values |-> FALSE, outputs |-> outputs]
Catalog == [id |-> RuntimeSourceID, version |-> TRUE, revision |-> TRUE, functions |-> 1]
Document(operations, type, steps, outputs) ==
  [variables |-> [plain |-> Inner, shaded |-> Word, shared |-> One, live |-> Container([x |-> Dynamic])],
   data |-> [shaded |-> Inner], components |-> [shared |-> Word], componentsFirst |-> TRUE,
   operations |-> operations, sources |-> <<>>, names |-> {}, valid |-> TRUE, checks |-> <<>>,
   flow |-> <<>>, catalog |-> Catalog,
   manifest |-> SetToSeq({operations[op].kind : op \in DOMAIN operations}),
   workflows |-> <<[type |-> type, steps |-> steps, outputs |-> outputs]>>]

(* Every leaf reference on every shape, and a projection of it.              *)
Projections ==
  {Document([o1 |-> Operation(sh, <<>>, [a |-> leaf]),
             o2 |-> Operation(Plain, <<OfStep("s1", "b", <<>>)>>, <<>>)],
            "sequence",
            <<Step("s1", "o1", [a |-> leaf, b |-> OfOutput("a", p)]), Step("s2", "o2", <<>>)>>,
            [a |-> OfStep("s1", "a", q)]) :
     sh \in Shapes, leaf \in Leaves, p \in {<<>>, <<"x">>}, q \in {<<>>, <<"n">>, <<"z">>}}

PlainProjections == {d \in Projections : d.operations["o1"].shape = Plain}

(* Every way for the outputs of two steps and their workflow to refer to     *)
(* each other.                                                               *)
StepRefs == {OfStep(s, n, <<>>) : s \in {"s1", "s2", "s3"}, n \in {"a", "b"}}
OutputRefs == {OfOutput(n, <<>>) : n \in {"a", "b", "c"}}
Links ==
  {Document([o1 |-> Operation(Plain, <<>>, <<>>), o2 |-> Operation(Plain, request, <<>>)],
            type, <<Step("s1", "o1", first),
              Step("s2", "o2", [a |-> second])>>,
            [a |-> third, b |-> OfOutput("a", <<>>)]) :
     type \in {"sequence", "parallel"}, request \in {<<>>} \cup {<<OfStep(s, "a", <<>>)>> : s \in {"s1", "s2", "s3"}},
     first \in {[a |-> Body(<<"n">>), b |-> r] : r \in OutputRefs \cup {OfStep("s2", "a", <<>>)}}
              \cup {[a |-> r, b |-> Body(<<"n">>)] : r \in OutputRefs},
     second \in OutputRefs \cup StepRefs,
     third \in StepRefs \ {OfStep("s3", "b", <<>>)}}

(* A function, its claimed shape exact or not. *)
Function(schema) == Shape("fnct", FALSE, TRUE, {Output("body", "received_body", schema)})
Called ==
  Document([o1 |-> Operation(Function(OuterSchema(TRUE, FALSE)), <<>>, <<>>),
            o2 |-> Operation(Plain, <<OfStep("s1", "a", <<>>)>>, <<>>)],
           "sequence", <<Step("s1", "o1", [a |-> Body(<<"n">>)]), Step("s2", "o2", <<>>)>>,
           [a |-> OfStep("s1", "a", <<>>)])
Claims == {Called, [Called EXCEPT !.operations["o1"].actual = Function(Anything)],
           [Called EXCEPT !.operations["o2"].actual = Http(Typed("string"))]}

(* A step that may be skipped, has values of its own, or shares its          *)
(* operation; a function that takes arguments; other findings.               *)
Base ==
  Document([o1 |-> Operation(Plain, <<>>, [a |-> Body(<<"n">>)]),
            o2 |-> Operation(Plain, <<OfStep("s1", "a", <<>>)>>, [a |-> OfStep("s1", "a", <<>>)])],
           "sequence",
           <<Step("s1", "o1", [a |-> Body(<<"n">>), b |-> OfOutput("a", <<>>), c |-> OfOutput("b", <<>>)]),
             Step("s2", "o2", [a |-> OfStep("s1", "c", <<>>)])>>,
           [a |-> OfStep("s2", "a", <<>>)])
Variants ==
  {Base, [Base EXCEPT !.workflows[1].steps[1].when = TRUE],
   [Base EXCEPT !.workflows[1].steps[1].flat = FALSE],
   [Base EXCEPT !.workflows[1].steps[1].values = TRUE],
   [Base EXCEPT !.workflows[1].steps[2].id = "s1"],
   [Base EXCEPT !.workflows[1].steps = <<@[1], @[2], [@[1] EXCEPT !.id = "s3"]>>],
   [Base EXCEPT !.workflows[1].steps = <<@[2], @[1]>>],
   [Called EXCEPT !.operations["o1"].arguments = TRUE],
   [Called EXCEPT !.operations["o1"].listed = FALSE], [Called EXCEPT !.catalog.functions = 2],
   [Called EXCEPT !.manifest = <<"openapi">>], [Called EXCEPT !.manifest = @ \o @],
   [Base EXCEPT !.valid = FALSE], [Base EXCEPT !.checks = <<"incompatible">>],
   [Base EXCEPT !.flow = <<"compatible", "indeterminate">>]}

-----------------------------------------------------------------------------
(* Browser workflows. *)
BrowserSources ==
  [login |-> [kind |-> "authentication", version |-> "authentication.1.0", required |-> FALSE,
              slots |-> {"user"}],
   site |-> [kind |-> "action", version |-> "action.1.0", required |-> TRUE, slots |-> {}],
   page |-> [kind |-> "action", version |-> "action.1.0", required |-> FALSE, slots |-> {}],
   join |-> [kind |-> "registration", version |-> "registration.1.1", required |-> FALSE, slots |-> {}]]
Login ==
  [NoBrowser EXCEPT !.extension = "authentication", !.source = "login", !.session = "main",
     !.call = "authentication.1.0", !.credentials = [user |-> "alice"], !.timeout = 60]
Visit(source) == [NoBrowser EXCEPT !.bound = TRUE, !.source = source]
In(source) == [Visit(source) EXCEPT !.extension = "session", !.session = "main"]
Join ==
  [NoBrowser EXCEPT !.extension = "registration", !.source = "join", !.call = "registration.1.1",
     !.input = "form"]
Parts ==
  {Login, [Login EXCEPT !.timeout = 0], In("site"), In("page"), Visit("site"), Visit("page"), Join}
OddParts ==
  {[Login EXCEPT !.source = "site", !.timeout = 0, !.credentials = <<>>],
   [Login EXCEPT !.call = "authentication.1.1"], [Login EXCEPT !.credentials = <<>>],
   [Login EXCEPT !.session = "?"], [Login EXCEPT !.timeout = 601],
   [In("site") EXCEPT !.timeout = 60], [Login EXCEPT !.source = "other"],
   [Join EXCEPT !.terms = FALSE], [Join EXCEPT !.input = ""], [In("login") EXCEPT !.call = "none"],
   NoBrowser}

ActionShape ==
  Shape("browser", TRUE, TRUE, {Output("body", "n", Typed("integer")), Output("body", "k", InnerSchema)})
BrowserOperation(b) ==
  [Operation(IF Extended(b) THEN NoShape ELSE ActionShape, <<>>, <<>>) EXCEPT
     !.owner = IF Extended(b) THEN "browser" ELSE "source", !.browser = b]
Ids == <<"s1", "s2", "s3">>
Ops == <<"o1", "o2", "o3">>
BrowserDocument(type, parts) ==
  [Document([op \in {Ops[k] : k \in DOMAIN parts} |->
               BrowserOperation(parts[CHOOSE k \in DOMAIN parts : Ops[k] = op])],
            type, [k \in DOMAIN parts |-> Step(Ids[k], Ops[k], <<>>)], <<>>)
     EXCEPT !.sources = BrowserSources]

(* The leaf references on a browser action. *)
BrowserProjections ==
  {[BrowserDocument("sequence", <<Visit("page")>>) EXCEPT
      !.operations["o1"].outputs = [a |-> leaf],
      !.workflows[1].steps[1].outputs = [a |-> leaf, b |-> OfOutput("a", p)],
      !.workflows[1].outputs = [a |-> OfStep("s1", "a", q)]] :
     leaf \in Leaves, p \in {<<>>, <<"x">>}, q \in {<<>>, <<"z">>}}

SomeRevisions ==
  Claims \cup {BrowserDocument("sequence", parts) :
     parts \in {<<Login, p>> : p \in Parts} \cup {<<p, Login>> : p \in Parts}
               \cup {<<Login, In("page"), In("site")>>, <<Login, In("site"), Login>>,
                     <<Join, Login, In("site")>>}}
SomeDocuments ==
  Projections \cup BrowserProjections \cup Links \cup Variants \cup SomeRevisions
  \cup {BrowserDocument("parallel", <<Login, In("site")>>),
        [BrowserDocument("sequence", <<Login>>) EXCEPT !.names = {"key"}],
        [BrowserDocument("sequence", <<Login>>) EXCEPT
           !.operations["o1"].request = <<OfVariable("shared", <<>>)>>]}
  \cup {BrowserDocument("sequence", parts) :
          parts \in {<<Login, p>> : p \in OddParts} \cup {<<p>> : p \in Parts \cup OddParts}}

Grants == [reuse : BOOLEAN, save : BOOLEAN]
SomePermissions == {<<>>, [s2 |-> [reuse |-> TRUE, save |-> FALSE]]} \cup [{"s1"} -> Grants]
=============================================================================
