--------------------------- MODULE MCReviewArchive ---------------------------
EXTENDS ReviewArchive

Rows == [type |-> "array", presence |-> FALSE]
Banner == [type |-> "boolean", presence |-> TRUE]

OneProfile ==
  [digest |-> "p1", origins |-> {"site"}, verified |-> 1, expires |-> 3,
   actions |->
     [open |-> [sequence |-> <<[kind |-> "click", locator |-> TRUE, wait |-> "navigation"],
                               [kind |-> "wait_for", locator |-> FALSE, wait |-> "locator"]>>,
                outputs |-> [banner |-> Banner]],
      list |-> [sequence |-> <<>>, outputs |-> [rows |-> Rows]]]]

Seen(matches, type) == [failed |-> FALSE, matches |-> matches, reached |-> TRUE, type |-> type]
Good(r) == Seen(1, r.output.type)
Bad(r) == {[failed |-> FALSE, matches |-> 0, reached |-> FALSE, type |-> "none"],
           [failed |-> TRUE, matches |-> 0, reached |-> FALSE, type |-> "none"],
           [failed |-> FALSE, matches |-> 2, reached |-> FALSE, type |-> "array"]}

Report(version, actions, ok, checks, engines) ==
  [version |-> version, profileDigest |-> "p1", checkedAt |-> 1, origin |-> "site",
   actions |-> actions, ok |-> ok, checks |-> checks, engines |-> engines,
   pressure |-> version = "portability"]

(* Live reports on one action, at most one check not passing.                *)
OpenRequirements == buildRequirements({"open"})
GoodChecks == [r \in OpenRequirements |-> TruthfulCheck(r, Good(r))]
LiveChecks ==
  {GoodChecks} \cup
  {[GoodChecks EXCEPT ![r] = TruthfulCheck(r, o)] :
     r \in OpenRequirements, o \in UNION {Bad(q) : q \in OpenRequirements}}
LiveReports ==
  {Report("live", {"open"}, ok, checks, <<>>) : ok \in BOOLEAN, checks \in LiveChecks}

(* Checks with one field wrong. *)
LyingChecks ==
  UNION {{[GoodChecks EXCEPT ![r].ok = FALSE], [GoodChecks EXCEPT ![r].matches = 2],
          [GoodChecks EXCEPT ![r].observed = "array"], [GoodChecks EXCEPT ![r].message = "closed"],
          [q \in OpenRequirements \ {r} |-> GoodChecks[q]]} : r \in OpenRequirements}
LyingReports ==
  {Report("live", {"open"}, ok, checks, <<>>) : ok \in BOOLEAN, checks \in LyingChecks}

Fresh == Report("live", {"open"}, TRUE, GoodChecks, <<>>)
Misplaced ==
  {[Fresh EXCEPT !.profileDigest = "p2"], [Fresh EXCEPT !.origin = "elsewhere"],
   [Fresh EXCEPT !.actions = {}], [Fresh EXCEPT !.actions = {"open", "list"}],
   [Fresh EXCEPT !.actions = {"other"}], [Fresh EXCEPT !.version = "capture"],
   [Fresh EXCEPT !.checkedAt = 0], [Fresh EXCEPT !.checkedAt = 2], [Fresh EXCEPT !.checkedAt = 3]}

(* Portability reports: what each engine saw, and the baseline it claims.    *)
ListChecks(o) == [r \in buildRequirements({"list"}) |-> TruthfulCheck(r, o)]
Passing == {ListChecks(Seen(1, "array")), ListChecks(Seen(2, "array"))}
Failing == {ListChecks(Seen(0, "none"))}
Sights == ({"unavailable", "failed"} \X {NoChecks}) \cup ({"checked"} \X (Passing \cup Failing))
Pairs ==
  {<<TruthfulEngine("chromium", c[1], c[2], c[2]), TruthfulEngine("firefox", e[1], e[2], b[2])>> :
     c \in Sights, e \in Sights, b \in Sights}
Orders ==
  LET pair == CHOOSE p \in Pairs : \A i \in {1, 2} : p[i].status = "passed"
      webkit == [pair[2] EXCEPT !.engine = "webkit"]
  IN  {<<pair[1]>>, <<pair[2], pair[1]>>, <<pair[1], webkit>>, <<pair[1], pair[2], webkit>>,
       <<pair[1], webkit, pair[2]>>, <<pair[1], pair[1]>>, <<pair[2], webkit>>}
PortabilityReports ==
  {Report("portability", {"list"}, ok, NoChecks, engines) :
     ok \in BOOLEAN, engines \in Pairs \cup Orders}

Document(r) == <<[part |-> "head", report |-> r], [part |-> "body", report |-> r]>>
Oversized == Append(Document(Fresh), [part |-> "blank", report |-> Fresh])

(* A later check of the same profile, failing, renamed or written in place.  *)
Later == [Fresh EXCEPT !.checkedAt = 2, !.ok = FALSE,
            !.checks = [r \in OpenRequirements |->
                          TruthfulCheck(r, [Good(r) EXCEPT !.failed = TRUE])]]
Sooner == [Fresh EXCEPT !.ok = FALSE, !.checks = Later.checks]
SomeRewrites == {Document(Fresh), Document(Later), Document(Sooner), Oversized}
SomeDocuments ==
  SomeRewrites \cup
  {Document(r) : r \in LiveReports \cup LyingReports \cup Misplaced \cup PortabilityReports}
=============================================================================
