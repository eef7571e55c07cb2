------------------------ MODULE ReviewArchive_proofs ------------------------
(***************************************************************************)
(* Proofs about ReviewArchive, for every profile, set of documents, number *)
(* of writes and edits, and length of time: what InspectBytes accepts, that *)
(* it was read whole, and that its sealed summary keeps its worth.         *)
(***************************************************************************)
EXTENDS ReviewArchive, FiniteSetTheorems, SequenceTheorems, TLAPS

-----------------------------------------------------------------------------
(* A requirement is of one of three kinds; only an output has a type.        *)
LEMMA RequirementShape ==
  ASSUME NEW actions \in SUBSET DOMAIN Profile.actions, NEW r \in buildRequirements(actions)
  PROVE  /\ r.kind \in {"locator", "navigation_wait", "output"}
         /\ r.kind # "output" => r.output = NoOutput
         /\ r.kind = "output" => r.output \in Output
<1>1. PICK a \in actions :
        \/ \E i \in DOMAIN Profile.actions[a].sequence : r \in StepRequirements(a, i)
        \/ \E o \in DOMAIN Profile.actions[a].outputs :
             r = Requirement("output", a, <<0, o>>, Profile.actions[a].outputs[o])
  <2>. DEFINE steps(a) == {StepRequirements(a, i) : i \in DOMAIN Profile.actions[a].sequence}
              outputs(a) == {Requirement("output", a, <<0, o>>, Profile.actions[a].outputs[o]) :
                               o \in DOMAIN Profile.actions[a].outputs}
              all(a) == (UNION steps(a)) \cup outputs(a)
  <2>1. r \in UNION {all(a) : a \in actions}
    BY DEF buildRequirements
  <2>2. PICK a \in actions : r \in all(a)
    <3>. HIDE DEF all
    <3>. QED  BY <2>1
  <2>3. r \in UNION steps(a) \/ r \in outputs(a)
    BY <2>2
  <2>4. r \in outputs(a) => \E o \in DOMAIN Profile.actions[a].outputs :
          r = Requirement("output", a, <<0, o>>, Profile.actions[a].outputs[o])
    OBVIOUS
  <2>5. r \in UNION steps(a) =>
          \E i \in DOMAIN Profile.actions[a].sequence : r \in StepRequirements(a, i)
    OBVIOUS
  <2>. HIDE DEF steps, outputs
  <2>. QED  BY <2>3, <2>4, <2>5
<1>2. CASE \E i \in DOMAIN Profile.actions[a].sequence : r \in StepRequirements(a, i)
  <2>1. PICK i \in DOMAIN Profile.actions[a].sequence : r \in StepRequirements(a, i)
    BY <1>2
  <2>. DEFINE step == Profile.actions[a].sequence[i]
  <2>2. step \in Step
    BY <1>1, ProfileAssumption
  <2>3. step.wait \in {"locator", "navigation", "none"}
    BY <2>2 DEF Step
  <2>4. \/ r \in WaitRequirements(a, i, step.wait)
        \/ r = Requirement("locator", a, <<i, "locator">>, NoOutput)
    BY <2>1 DEF StepRequirements
  <2>5. \/ r = Requirement("locator", a, <<i, "wait_for">>, NoOutput)
        \/ r = Requirement("navigation_wait", a, <<i, "navigation">>, NoOutput)
        \/ r = Requirement("locator", a, <<i, "locator">>, NoOutput)
    BY <2>3, <2>4 DEF WaitRequirements
  <2>6. r.kind \in {"locator", "navigation_wait"} /\ r.output = NoOutput
    BY <2>5 DEF Requirement
  <2>. QED  BY <2>6
<1>3. CASE \E o \in DOMAIN Profile.actions[a].outputs :
             r = Requirement("output", a, <<0, o>>, Profile.actions[a].outputs[o])
  <2>1. PICK o \in DOMAIN Profile.actions[a].outputs :
          r = Requirement("output", a, <<0, o>>, Profile.actions[a].outputs[o])
    BY <1>3
  <2>2. r.kind = "output" /\ r.output = Profile.actions[a].outputs[o]
    BY <2>1 DEF Requirement
  <2>. QED  BY <1>1, <2>2, ProfileAssumption
<1>. QED  BY <1>1, <1>2, <1>3

(* A check is consistent exactly if some observation leads to it.            *)
LEMMA CheckTruthful ==
  ASSUME NEW r, NEW c \in Check, c.matches \in 0..MaxMatches,
         r.kind \in {"locator", "navigation_wait", "output"},
         r.kind # "output" => r.output = NoOutput
  PROVE  validateCheck(r, c) <=> \E o \in Observation : c = TruthfulCheck(r, o)
<1>1. c = [ok |-> c.ok, matches |-> c.matches, expected |-> c.expected,
           observed |-> c.observed, message |-> c.message]
  BY DEF Check
<1>2. c.ok \in BOOLEAN
  BY DEF Check
<1>3. ASSUME validateCheck(r, c) PROVE \E o \in Observation : c = TruthfulCheck(r, o)
  <2>1. CASE c.message = "closed"
    <3>. DEFINE o == [failed |-> TRUE, matches |-> c.matches, reached |-> FALSE, type |-> "none"]
    <3>1. o \in Observation
      BY DEF Observation
    <3>2. c.ok = FALSE /\ c.expected = "none" /\ c.observed = "none"
      BY <1>2, <1>3, <2>1 DEF validateCheck
    <3>3. TruthfulCheck(r, o) = [ok |-> FALSE, matches |-> c.matches, expected |-> "none",
                                 observed |-> "none", message |-> "closed"]
      BY DEF TruthfulCheck
    <3>4. c = TruthfulCheck(r, o)
      BY <1>1, <2>1, <3>2, <3>3
    <3>. QED  BY <3>1, <3>4
  <2>2. CASE c.message # "closed"
    <3>. DEFINE o == [failed |-> FALSE, matches |-> c.matches, reached |-> c.ok,
                      type |-> c.observed]
                d == [ok |-> FALSE, matches |-> c.matches, expected |-> r.output.type,
                      observed |-> IF r.kind = "output" THEN c.observed ELSE "none",
                      message |-> "none"]
    <3>1. /\ c.message = Message(c.ok)
          /\ r.kind # "output" => c.expected = "none" /\ c.observed = "none"
          /\ r.kind = "locator" => c.ok = (c.matches = 1)
          /\ r.kind = "output" =>
               /\ c.expected = r.output.type /\ c.observed \in OutputTypes \cup {"none"}
               /\ c.ok = OutputMatches(r.output, c)
      BY <1>3, <2>2 DEF validateCheck
    <3>2. o \in Observation
      BY <1>2, <3>1 DEF Observation
    <3>3. c.expected = d.expected /\ c.observed = d.observed
      BY <3>1 DEF NoOutput
    <3>4. OutputMatches(r.output, d) = OutputMatches(r.output, c)
      BY <3>3 DEF OutputMatches
    <3>5. c.ok = CASE r.kind = "locator" -> o.matches = 1
                   [] r.kind = "navigation_wait" -> o.reached
                   [] r.kind = "output" -> OutputMatches(r.output, d)
      BY <1>2, <3>1, <3>4
    <3>6. TruthfulCheck(r, o) = [d EXCEPT !.ok = c.ok, !.message = Message(c.ok)]
      BY <3>5 DEF TruthfulCheck
    <3>7. c = TruthfulCheck(r, o)
      BY <1>1, <3>1, <3>3, <3>6
    <3>. QED  BY <3>2, <3>7
  <2>. QED  BY <2>1, <2>2
<1>4. ASSUME NEW o \in Observation, c = TruthfulCheck(r, o) PROVE validateCheck(r, c)
  <2>1. CASE o.failed
    BY <1>4, <2>1 DEF TruthfulCheck, validateCheck
  <2>2. CASE ~o.failed
    <3>. DEFINE d == [ok |-> FALSE, matches |-> o.matches, expected |-> r.output.type,
                      observed |-> IF r.kind = "output" THEN o.type ELSE "none",
                      message |-> "none"]
                ok == CASE r.kind = "locator" -> o.matches = 1
                        [] r.kind = "navigation_wait" -> o.reached
                        [] r.kind = "output" -> OutputMatches(r.output, d)
    <3>1. c = [d EXCEPT !.ok = ok, !.message = Message(ok)]
      BY <1>4, <2>2 DEF TruthfulCheck
    <3>2. /\ c.ok = ok /\ c.message = Message(ok) /\ c.matches = o.matches
          /\ c.expected = d.expected /\ c.observed = d.observed
      <4>. HIDE DEF ok
      <4>. QED  BY <3>1
    <3>3. OutputMatches(r.output, d) = OutputMatches(r.output, c)
      BY <3>2 DEF OutputMatches
    <3>4. c.message # "closed" /\ c.message = Message(c.ok)
      BY <1>2, <3>2 DEF Message
    <3>5. r.kind # "output" => c.expected = "none" /\ c.observed = "none"
      BY <3>2 DEF NoOutput
    <3>6. o.type \in OutputTypes \cup {"none"}
      BY DEF Observation
    <3>7. r.kind = "output" => /\ c.expected = r.output.type
                               /\ c.observed \in OutputTypes \cup {"none"}
                               /\ c.ok = OutputMatches(r.output, c)
      BY <3>2, <3>3, <3>6
    <3>8. r.kind = "locator" => c.ok = (c.matches = 1)
      BY <3>2
    <3>. QED  BY <3>4, <3>5, <3>7, <3>8 DEF validateCheck
  <2>. QED  BY <2>1, <2>2
<1>. QED  BY <1>3, <1>4

(* The checks of a report are valid exactly if they were observed.           *)
LEMMA ChecksTruthful ==
  ASSUME NEW actions \in SUBSET DOMAIN Profile.actions, buildRequirements(actions) # {},
         NEW checks, WireChecks(checks)
  PROVE  validateChecks(buildRequirements(actions), checks) <=> Observed(checks, actions)
<1>. DEFINE R == buildRequirements(actions)
<1>1. ASSUME DOMAIN checks = R, NEW r \in R
      PROVE  checks[r].matches \in 0..MaxMatches /\ validateCheck(r, checks[r])
               <=> \E o \in Observation : checks[r] = TruthfulCheck(r, o)
  <2>1. checks[r] \in Check
    BY <1>1 DEF WireChecks
  <2>2. ASSUME NEW o \in Observation, checks[r] = TruthfulCheck(r, o)
        PROVE  checks[r].matches \in 0..MaxMatches
    <3>1. o.matches \in 0..MaxMatches
      BY DEF Observation
    <3>2. TruthfulCheck(r, o).matches = o.matches
      BY DEF TruthfulCheck
    <3>. QED  BY <2>2, <3>1, <3>2
  <2>. QED  BY <2>1, <2>2, RequirementShape, CheckTruthful
<1>2. checks = NoChecks => DOMAIN checks = {}
  BY DEF NoChecks
<1>. QED  BY <1>1, <1>2 DEF validateChecks, Observed
(* What is reported of an engine is valid exactly if it was seen so, in an   *)
(* alternate engine after Chromium's checks (first).                         *)
Seen(e) == IF e.checks = NoChecks THEN {"unavailable", "failed"} ELSE {"checked"}

LEMMA EngineTruthful ==
  ASSUME NEW actions \in SUBSET DOMAIN Profile.actions, buildRequirements(actions) # {},
         NEW e, EngineResult(e), NEW first, e.engine = "chromium" => e = first
  PROVE  (/\ validateEngine(buildRequirements(actions), e)
          /\ e.engine # "chromium" => AgreesWithBaseline(e, first))
         <=> \E seen \in Seen(e) :
               /\ e.checks # NoChecks => Observed(e.checks, actions)
               /\ e = TruthfulEngine(e.engine, seen, e.checks, first.checks)
<1>. DEFINE valid == Observed(e.checks, actions)
            none == e.checks = NoChecks
            pass == allChecksPass(e.checks)
            chromium == e.engine = "chromium"
            ready == first.checks # NoChecks
            equal == first.checks = e.checks
            Diagnosis(seen) == IF seen = "unavailable" THEN "engine_unavailable"
                               ELSE IF seen = "failed" THEN "browser_observation_failed"
                               ELSE IF ~pass THEN "profile_check_failed"
                               ELSE IF chromium THEN "none"
                               ELSE IF ~ready THEN "chromium_baseline_unavailable"
                               ELSE IF ~equal THEN "check_shape_mismatch" ELSE "none"
            Status(diagnosis) == CASE diagnosis = "none" -> "passed"
                                   [] diagnosis = "engine_unavailable" -> "unavailable"
                                   [] OTHER -> "failed"
<1>1. validateChecks(buildRequirements(actions), e.checks) <=> valid
  BY ChecksTruthful DEF EngineResult
<1>2. valid => ~none
  BY DEF Observed
<1>3. pass => ~none
  BY DEF allChecksPass
<1>4. chromium => equal
  OBVIOUS
<1>5. ASSUME NEW seen
      PROVE  e = TruthfulEngine(e.engine, seen, e.checks, first.checks)
               <=> e.diagnostic = Diagnosis(seen) /\ e.status = Status(e.diagnostic)
  <2>. DEFINE t == [engine |-> e.engine, diagnostic |-> Diagnosis(seen), checks |-> e.checks,
                    status |-> Status(Diagnosis(seen))]
  <2>1. TruthfulEngine(e.engine, seen, e.checks, first.checks) = t
    BY DEF TruthfulEngine
  <2>2. e = [engine |-> e.engine, diagnostic |-> e.diagnostic, checks |-> e.checks,
             status |-> e.status]
    BY DEF EngineResult
  <2>. HIDE DEF Diagnosis, Status
  <2>. QED  BY <2>1, <2>2
<1>6. validateEngine(buildRequirements(actions), e) <=>
        CASE e.status = "passed" -> e.diagnostic = "none" /\ valid /\ pass
          [] e.status = "unavailable" -> e.diagnostic = "engine_unavailable" /\ none
          [] e.status = "failed" ->
               CASE e.diagnostic = "browser_observation_failed" -> none
                 [] e.diagnostic = "profile_check_failed" -> valid /\ ~pass
                 [] e.diagnostic \in {"chromium_baseline_unavailable", "check_shape_mismatch"} ->
                      ~chromium /\ valid /\ pass
                 [] OTHER -> FALSE
          [] OTHER -> FALSE
  BY <1>1 DEF validateEngine
<1>7. AgreesWithBaseline(e, first) <=>
        CASE e.diagnostic = "chromium_baseline_unavailable" -> ~ready /\ pass
          [] e.diagnostic = "check_shape_mismatch" -> ready /\ pass /\ ~equal
          [] e.diagnostic = "none" -> e.status = "passed" => ready /\ equal
          [] OTHER -> TRUE
  BY DEF AgreesWithBaseline
<1>8. ready /\ equal => ~none
  OBVIOUS
<1>9. ~none /\ ~ready => ~equal
  OBVIOUS
<1>. HIDE DEF valid, none, pass, chromium, ready, equal
<1>10. (/\ validateEngine(buildRequirements(actions), e)
        /\ ~chromium => AgreesWithBaseline(e, first))
       <=> \/ none /\ \E seen \in {"unavailable", "failed"} :
                 e.diagnostic = Diagnosis(seen) /\ e.status = Status(e.diagnostic)
           \/ valid /\ e.diagnostic = Diagnosis("checked") /\ e.status = Status(e.diagnostic)
  <2>. DEFINE D == e.diagnostic
              S == e.status
              baseline == /\ validateEngine(buildRequirements(actions), e)
                          /\ ~chromium => AgreesWithBaseline(e, first)
              missing == \/ none /\ D = "engine_unavailable" /\ S = "unavailable"
                         \/ none /\ D = "browser_observation_failed" /\ S = "failed"
              failing == valid /\ ~pass /\ D = "profile_check_failed" /\ S = "failed"
              alone == valid /\ pass /\ ~chromium /\ ~ready
                         /\ D = "chromium_baseline_unavailable" /\ S = "failed"
              differing == valid /\ pass /\ ~chromium /\ ready /\ ~equal
                             /\ D = "check_shape_mismatch" /\ S = "failed"
              passing == valid /\ pass /\ (chromium \/ (ready /\ equal))
                           /\ D = "none" /\ S = "passed"
  <2>1. (\E seen \in {"unavailable", "failed"} : none /\ D = Diagnosis(seen) /\ S = Status(D))
          <=> missing
    <3>1. Diagnosis("unavailable") = "engine_unavailable"
      OBVIOUS
    <3>2. Diagnosis("failed") = "browser_observation_failed"
      OBVIOUS
    <3>3. Status("engine_unavailable") = "unavailable"
      OBVIOUS
    <3>4. Status("browser_observation_failed") = "failed"
      OBVIOUS
    <3>. HIDE DEF Diagnosis, Status
    <3>. QED  BY <3>1, <3>2, <3>3, <3>4
  <2>2. valid /\ D = Diagnosis("checked") /\ S = Status(D)
          <=> failing \/ alone \/ differing \/ passing
    <3>1. Diagnosis("checked") =
            IF ~pass THEN "profile_check_failed" ELSE IF chromium THEN "none"
            ELSE IF ~ready THEN "chromium_baseline_unavailable"
            ELSE IF ~equal THEN "check_shape_mismatch" ELSE "none"
      OBVIOUS
    <3>2. Status("none") = "passed"
      OBVIOUS
    <3>3. \A x \in {"profile_check_failed", "chromium_baseline_unavailable",
                    "check_shape_mismatch"} : Status(x) = "failed"
      OBVIOUS
    <3>. HIDE DEF Diagnosis, Status
    <3>. QED  BY <1>4, <3>1, <3>2, <3>3
  <2>3. baseline => missing \/ failing \/ alone \/ differing \/ passing
    <3>1. CASE S = "passed"
      <4>1. baseline => D = "none" /\ valid /\ pass
        BY <1>6, <3>1
      <4>2. D = "none" /\ AgreesWithBaseline(e, first) => ready /\ equal
        BY <3>1 DEF AgreesWithBaseline, ready, equal
      <4>. QED  BY <3>1, <4>1, <4>2
    <3>2. CASE S = "unavailable"
      BY <1>6, <3>2
    <3>3. CASE S = "failed"
      BY <1>6, <1>7, <3>3
    <3>4. baseline => S \in {"passed", "unavailable", "failed"}
      BY <1>6
    <3>. QED  BY <3>1, <3>2, <3>3, <3>4
  <2>4. missing => baseline
    BY <1>6, <1>7
  <2>5. failing => baseline
    BY <1>6, <1>7
  <2>6. alone => baseline
    BY <1>6, <1>7
  <2>7. differing => baseline
    BY <1>6, <1>7
  <2>8. passing => baseline
    BY <1>6, <1>7
  <2>. HIDE DEF missing, failing, alone, differing, passing
  <2>. QED  BY <2>1, <2>2, <2>3, <2>4, <2>5, <2>6, <2>7, <2>8
<1>. HIDE DEF Diagnosis, Status
<1>. QED  BY <1>2, <1>5, <1>10 DEF Seen, valid, none, chromium
(* Chromium comes first among the engines, and only there.                   *)
LEMMA ChromiumFirst ==
  ASSUME NEW engines, [i \in DOMAIN engines |-> engines[i].engine] \in EngineOrders
  PROVE  /\ engines # <<>> /\ 1 \in DOMAIN engines
         /\ \A i \in DOMAIN engines : engines[i].engine = "chromium" <=> i = 1
<1>. DEFINE names == [i \in DOMAIN engines |-> engines[i].engine]
<1>1. DOMAIN names = DOMAIN engines /\ \A i \in DOMAIN engines : names[i] = engines[i].engine
  OBVIOUS
<1>2. /\ 1 \in DOMAIN names
      /\ \A i \in DOMAIN names : names[i] = "chromium" <=> i = 1
  <2>1. CASE names = <<"chromium", "firefox">>
    <3>. HIDE DEF names
    <3>. QED  BY <2>1
  <2>2. CASE names = <<"chromium", "webkit">>
    <3>. HIDE DEF names
    <3>. QED  BY <2>2
  <2>3. CASE names = <<"chromium", "firefox", "webkit">>
    <3>. HIDE DEF names
    <3>. QED  BY <2>3
  <2>4. names \in EngineOrders
    OBVIOUS
  <2>. QED  BY <2>1, <2>2, <2>3, <2>4 DEF EngineOrders
<1>. HIDE DEF names
<1>3. DOMAIN <<>> = {}
  OBVIOUS
<1>. QED  BY <1>1, <1>2, <1>3

(* InspectBytes accepts what a truthful checker can write, within the limits *)
(* and the lifetime of the profile.                                          *)
LEMMA InspectTruthful ==
  ASSUME NEW d, WireReport(d), NEW at \in Nat
  PROVE  InspectBytesAccepts(d, at) <=>
           (/\ d # Malformed /\ Truthful(d) /\ WithinLimits(d.actions)
            /\ Profile.verified <= d.checkedAt /\ d.checkedAt <= at /\ at < Profile.expires)
<1>. DEFINE requirements == buildRequirements(d.actions)
            subject == /\ d.profileDigest = Profile.digest /\ d.origin \in Profile.origins
                       /\ d.actions # {} /\ d.actions \subseteq DOMAIN Profile.actions
            inTime == /\ Profile.verified <= d.checkedAt
                      /\ d.checkedAt <= at /\ at < Profile.expires
            limited == WithinLimits(d.actions)
            order == [i \in DOMAIN d.engines |-> d.engines[i].engine] \in EngineOrders
            passed == \A i \in DOMAIN d.engines : d.engines[i].status = "passed"
            asSeen(e) == \E seen \in Seen(e) :
               /\ e.checks # NoChecks => Observed(e.checks, d.actions)
               /\ e = TruthfulEngine(e.engine, seen, e.checks, d.engines[1].checks)
<1>1. d.checkedAt \in Int /\ d.ok \in BOOLEAN /\ WireChecks(d.checks)
      /\ \A i \in DOMAIN d.engines : EngineResult(d.engines[i])
  BY DEF WireReport
<1>2. validateCommon(d, at) <=> subject /\ limited /\ inTime
  BY <1>1, ProfileAssumption DEF validateCommon, Timely
<1>3. subject /\ limited => requirements # {} /\ d.actions \in SUBSET DOMAIN Profile.actions
  <2>1. limited => Cardinality(requirements) >= 1
    BY ProfileAssumption DEF WithinLimits
  <2>2. Cardinality({}) = 0
    BY FS_EmptySet
  <2>. HIDE DEF requirements, limited
  <2>. QED  BY <2>1, <2>2
<1>4. subject /\ limited => (validateChecks(requirements, d.checks) <=> Observed(d.checks, d.actions))
  BY <1>1, <1>3, ChecksTruthful
<1>5. ASSUME subject, limited, order
      PROVE  (/\ \A i \in DOMAIN d.engines : validateEngine(requirements, d.engines[i])
              /\ \A i \in DOMAIN d.engines \ {1} : AgreesWithBaseline(d.engines[i], d.engines[1]))
             <=> \A i \in DOMAIN d.engines : asSeen(d.engines[i])
  <2>1. 1 \in DOMAIN d.engines
        /\ \A i \in DOMAIN d.engines : d.engines[i].engine = "chromium" <=> i = 1
    BY <1>5, ChromiumFirst
  <2>2. ASSUME NEW i \in DOMAIN d.engines
        PROVE  (/\ validateEngine(requirements, d.engines[i])
                /\ i # 1 => AgreesWithBaseline(d.engines[i], d.engines[1]))
               <=> asSeen(d.engines[i])
    <3>1. EngineResult(d.engines[i])
      BY <1>1
    <3>2. d.engines[i].engine = "chromium" => d.engines[i] = d.engines[1]
      BY <2>1
    <3>. HIDE DEF subject, limited
    <3>. QED  BY <1>3, <1>5, <2>1, <3>1, <3>2, EngineTruthful
  <2>. HIDE DEF asSeen, requirements
  <2>. QED  BY <2>2
<1>6. CASE d.version = "live"
  <2>1. InspectBytesAccepts(d, at) <=>
          /\ d # Malformed /\ subject /\ limited /\ inTime
          /\ d.engines = <<>> /\ ~d.pressure /\ d.checks # NoChecks
          /\ validateChecks(requirements, d.checks) /\ d.ok = allChecksPass(d.checks)
    BY <1>2, <1>6 DEF InspectBytesAccepts, validateReportShape, validateLive
  <2>2. Truthful(d) <=>
          /\ subject /\ d.engines = <<>> /\ ~d.pressure /\ Observed(d.checks, d.actions)
          /\ d.ok = (\A r \in DOMAIN d.checks : d.checks[r].ok)
    BY <1>6 DEF Truthful
  <2>3. Observed(d.checks, d.actions) =>
          d.checks # NoChecks
          /\ (d.ok = allChecksPass(d.checks) <=> d.ok = (\A r \in DOMAIN d.checks : d.checks[r].ok))
    BY DEF Observed, allChecksPass
  <2>. HIDE DEF subject, limited, inTime, requirements
  <2>. QED  BY <1>4, <2>1, <2>2, <2>3 DEF limited, inTime
<1>7. CASE d.version = "portability"
  <2>. DEFINE all == \A i \in DOMAIN d.engines : asSeen(d.engines[i])
  <2>1. InspectBytesAccepts(d, at) <=>
          /\ d # Malformed /\ subject /\ limited /\ inTime
          /\ d.engines # <<>> /\ d.checks = NoChecks /\ d.pressure /\ order
          /\ \A i \in DOMAIN d.engines : validateEngine(requirements, d.engines[i])
          /\ \A i \in DOMAIN d.engines \ {1} : AgreesWithBaseline(d.engines[i], d.engines[1])
          /\ d.ok = passed
    BY <1>2, <1>7 DEF InspectBytesAccepts, validateReportShape, validatePortability
  <2>2. Truthful(d) <=>
          /\ subject /\ d.checks = NoChecks /\ d.pressure /\ order /\ all /\ d.ok = passed
    BY <1>7 DEF Truthful, Seen
  <2>3. order => d.engines # <<>>
    BY ChromiumFirst
  <2>. HIDE DEF subject, limited, inTime, requirements, order, passed, all
  <2>. QED  BY <1>5, <2>1, <2>2, <2>3 DEF limited, inTime, all
<1>8. CASE d.version \notin {"live", "portability"}
  BY <1>8 DEF InspectBytesAccepts, validateReportShape, Truthful
<1>. QED  BY <1>6, <1>7, <1>8
-----------------------------------------------------------------------------
(* The inductive invariant.  While no report is accepted, every file is a    *)
(* document but for the blocks still to come in the one the path names.      *)
Node == [regular: BOOLEAN, blocks: Seq(Block), mtime: Nat]

CheckerInv ==
  summary = None =>
    /\ nodes \in Seq(Node) /\ path \in DOMAIN nodes /\ writing \in Seq(Block)
    /\ Blocks(path) \o writing \in Documents
    /\ \A n \in DOMAIN nodes : n # path => Blocks(n) \in Documents

(* What was read so far are the first blocks of the file as it is now, as    *)
(* long as its modification time says so.                                    *)
ReadSoFar ==
  /\ reader.mtime <= nodes[reader.node].mtime
  /\ ~coarse /\ reader.mtime = nodes[reader.node].mtime =>
       /\ Len(reader.data) <= Len(Blocks(reader.node))
       /\ \A i \in 1..Len(reader.data) : reader.data[i] = Blocks(reader.node)[i]
       /\ reader.phase = "read" => \/ Len(reader.data) = Len(Blocks(reader.node))
                                  \/ Len(reader.data) > MaxBlocks

ReaderInv ==
  \/ reader = Idle
  \/ /\ summary = None
     /\ \/ reader \in [phase: {"lstat"}, node: DOMAIN nodes]
        \/ /\ reader \in [phase: {"reading", "read"}, node: DOMAIN nodes, size: Nat, mtime: Nat,
                         data: Seq(Block)]
           /\ ReadSoFar

(* The verdict is InspectBytes' on what the bytes decode to.                 *)
InspectedInv ==
  inspected # None =>
    /\ inspected.data = Malformed \/ WireReport(inspected.data)
    /\ inspected.at \in Nat
    /\ inspected.accepted = InspectBytesAccepts(inspected.data, inspected.at)

(* The summary validates from now on until the profile expires.              *)
Revalidates(s, from) ==
  \A at \in Nat : from <= at => (ValidateSummary(s, at) <=> at < Profile.expires)

SummaryInv == clock \in Nat \ {0} /\ (summary # None => Revalidates(summary, clock))

SealedInv == sealed # None => summary # None /\ sealed = Sealed(summary)

ReviewInv ==
  review # None =>
    /\ sealed # None
    /\ review.accepted = InspectHistory(Request(review.format))
    /\ review.current = ValidateSummary(files[SummaryPath].summary, clock)

IInv ==
  /\ CheckerInv /\ ReaderInv /\ WrittenWhole /\ InspectedInv
  /\ SummaryInv /\ SealedInv /\ ReviewInv
(* The keeper's steps touch the files of the package only.                   *)
LEMMA KeepEdits ==
  ASSUME Keep
  PROVE  /\ sealed # None /\ review' = None
         /\ UNCHANGED <<fileVars, readVars, sealed, clock>>
<1>1. sealed # None
  BY DEF Keep
<1>2. CASE ChangeWorkflow
  BY <1>1, <1>2 DEF ChangeWorkflow, Edit
<1>3. CASE ChangeSummary
  BY <1>1, <1>3 DEF ChangeSummary, Edit
<1>4. CASE DropWorkflow
  BY <1>1, <1>4 DEF DropWorkflow, Edit
<1>5. CASE ResealKept
  BY <1>1, <1>5 DEF ResealKept, Edit
<1>6. CASE RespellManifest
  BY <1>1, <1>6 DEF RespellManifest, Edit
<1>7. CASE ChangePolicy
  BY <1>1, <1>7 DEF ChangePolicy, Edit
<1>. QED  BY <1>2, <1>3, <1>4, <1>5, <1>6, <1>7 DEF Keep

LEMMA DocumentIsBlocks ==
  ASSUME NEW d \in Documents PROVE d \in Seq(Block)
BY ArchiveAssumption

(* Moving a block from what is to come to what is written changes no whole.  *)
LEMMA AppendHead ==
  ASSUME NEW S, NEW s \in Seq(S), NEW t \in Seq(S), t # <<>>
  PROVE  Append(s, Head(t)) \o Tail(t) = s \o t
<1>. DEFINE l == Append(s, Head(t)) \o Tail(t)
            r == s \o t
<1>1. Head(t) \in S /\ Tail(t) \in Seq(S) /\ Len(Tail(t)) = Len(t) - 1 /\ Len(t) \in Nat \ {0}
  BY HeadTailProperties, EmptySeq
<1>2. l \in Seq(S) /\ r \in Seq(S) /\ Len(l) = Len(r) /\ Len(r) = Len(s) + Len(t)
  BY <1>1, ConcatProperties
<1>3. ASSUME NEW i \in 1..Len(r) PROVE l[i] = r[i]
  <2>1. CASE i <= Len(s)
    BY <1>1, <2>1
  <2>2. CASE i = Len(s) + 1
    BY <1>1, <2>2
  <2>3. CASE i > Len(s) + 1
    BY <1>1, <1>2, <2>3
  <2>. QED  BY <1>2, <2>1, <2>2, <2>3
<1>. HIDE DEF l, r
<1>4. l = r
  BY <1>2, <1>3, SeqEqual
<1>. QED  BY <1>4 DEF l, r

(* Changing the file the path names disturbs no reader unnoticed.            *)
LEMMA ModifyKeeps ==
  ASSUME CheckerInv, ReaderInv, summary = None, NEW blocks \in Seq(Block),
         Modify(path, blocks), UNCHANGED <<reader, summary>>
  PROVE  /\ nodes' \in Seq(Node) /\ DOMAIN nodes' = DOMAIN nodes
         /\ nodes'[path].blocks = blocks
         /\ \A n \in DOMAIN nodes : n # path => nodes'[n] = nodes[n]
         /\ ReaderInv'
<1>1. PICK tick \in {0, 1} :
        /\ nodes' = [nodes EXCEPT ![path].blocks = blocks, ![path].mtime = @ + tick]
        /\ coarse' = (coarse \/ (/\ reader.phase \in {"reading", "read"} /\ reader.node = path
                                 /\ nodes'[path].mtime = reader.mtime))
  BY DEF Modify
<1>2. nodes \in Seq(Node) /\ path \in DOMAIN nodes
  BY DEF CheckerInv
<1>. DEFINE now == [nodes[path] EXCEPT !.blocks = blocks, !.mtime = @ + tick]
<1>3. nodes[path] \in Node /\ now \in Node /\ now.blocks = blocks
      /\ now.mtime = nodes[path].mtime + tick
  <2>1. nodes[path] \in Node
    BY <1>2
  <2>. DEFINE time == nodes[path].mtime + tick
  <2>2. time \in Nat
    BY <2>1 DEF Node
  <2>3. now = [nodes[path] EXCEPT !.blocks = blocks, !.mtime = time]
    OBVIOUS
  <2>. HIDE DEF now, time
  <2>4. now \in Node /\ now.blocks = blocks /\ now.mtime = time
    BY <2>1, <2>2, <2>3 DEF Node
  <2>. QED  BY <2>1, <2>4 DEF time
<1>4. nodes' = [nodes EXCEPT ![path] = now]
  BY <1>1, <1>2, <1>3 DEF Node
<1>. HIDE DEF now
<1>5. nodes' \in Seq(Node) /\ DOMAIN nodes' = DOMAIN nodes /\ nodes'[path] = now
      /\ \A n \in DOMAIN nodes : n # path => nodes'[n] = nodes[n]
  BY <1>2, <1>3, <1>4
<1>6. ReaderInv'
  <2>1. CASE reader = Idle
    BY <2>1 DEF ReaderInv
  <2>2. CASE reader \in [phase: {"lstat"}, node: DOMAIN nodes]
    BY <1>5, <2>2 DEF ReaderInv
  <2>3. CASE /\ reader \in [phase: {"reading", "read"}, node: DOMAIN nodes, size: Nat, mtime: Nat,
                            data: Seq(Block)]
             /\ ReadSoFar
    <3>1. CASE reader.node = path
      <4>1. reader.mtime <= now.mtime
        BY <1>3, <2>3, <3>1 DEF ReadSoFar, Node
      <4>2. ~coarse' => reader.mtime # now.mtime
        BY <1>1, <1>5, <2>3, <3>1
      <4>3. ReadSoFar'
        BY <1>5, <3>1, <4>1, <4>2 DEF ReadSoFar
      <4>. QED  BY <1>5, <2>3, <4>3 DEF ReaderInv
    <3>2. CASE reader.node # path
      <4>1. nodes'[reader.node] = nodes[reader.node] /\ (~coarse' => ~coarse)
        BY <1>1, <1>5, <2>3, <3>2
      <4>2. ReadSoFar'
        BY <2>3, <4>1 DEF ReadSoFar, Blocks
      <4>. QED  BY <1>5, <2>3, <4>2 DEF ReaderInv
    <3>. QED  BY <3>1, <3>2
  <2>. QED  BY <2>1, <2>2, <2>3 DEF ReaderInv
<1>. QED  BY <1>3, <1>5, <1>6
(* What was read decodes to a report of the closed wire or to none.          *)
LEMMA DecodeShape ==
  ASSUME NEW data \in Seq(Block), Decode(data) # Malformed
  PROVE  WireReport(Decode(data))
<1>. DEFINE head == data[1].report
            body == data[2].report
            d == [body EXCEPT !.version = head.version, !.profileDigest = head.profileDigest,
                              !.checkedAt = head.checkedAt, !.origin = head.origin,
                              !.actions = head.actions, !.ok = head.ok]
<1>1. Len(data) = 2 /\ Decode(data) = d
  BY DEF Decode
<1>2. data[1] \in Block /\ data[2] \in Block
  BY <1>1
<1>3. WireReport(head) /\ WireReport(body)
  BY <1>2, ArchiveAssumption
<1>4. DOMAIN d = DOMAIN body
  OBVIOUS
<1>5. /\ d.checkedAt = head.checkedAt /\ d.ok = head.ok /\ d.pressure = body.pressure
      /\ d.checks = body.checks /\ d.engines = body.engines
  BY <1>3 DEF WireReport
<1>. HIDE DEF d
<1>. QED  BY <1>1, <1>3, <1>4, <1>5 DEF WireReport

(* A stable read of a report is a document: the whole of a finished one, or  *)
(* a part of an unfinished one, which decodes to no report otherwise.        *)
LEMMA ReadWhole ==
  ASSUME CheckerInv, ReaderInv, reader.phase = "read", ~coarse,
         SizeAllowed(Len(reader.data)), Unchanged, Decode(reader.data) # Malformed
  PROVE  reader.data \in Documents
<1>1. /\ summary = None /\ ReadSoFar
      /\ reader \in [phase: {"reading", "read"}, node: DOMAIN nodes, size: Nat, mtime: Nat,
                     data: Seq(Block)]
  BY DEF ReaderInv, Idle
<1>. DEFINE data == reader.data
            blocks == Blocks(reader.node)
<1>2. nodes \in Seq(Node) /\ path \in DOMAIN nodes /\ writing \in Seq(Block)
      /\ Blocks(path) \o writing \in Documents
      /\ (reader.node # path => blocks \in Documents)
  BY <1>1 DEF CheckerInv
<1>3. nodes[reader.node] \in Node
  BY <1>1, <1>2
<1>4. data \in Seq(Block) /\ blocks \in Seq(Block)
  BY <1>1, <1>3 DEF Node, Blocks
<1>5. Len(data) = Len(blocks) /\ \A i \in 1..Len(data) : data[i] = blocks[i]
  BY <1>1, <1>4, ArchiveAssumption DEF ReadSoFar, Unchanged, SizeAllowed
<1>6. data = blocks
  <2>. HIDE DEF data, blocks
  <2>. QED  BY <1>4, <1>5, SeqEqual
<1>7. CASE reader.node # path
  BY <1>2, <1>6, <1>7
<1>8. CASE reader.node = path
  <2>. DEFINE whole == blocks \o writing
              part == SubSeq(whole, 1, Len(blocks))
  <2>1. whole \in Documents /\ whole \in Seq(Block) /\ Len(whole) = Len(blocks) + Len(writing)
        /\ \A i \in 1..Len(blocks) : whole[i] = blocks[i]
    BY <1>2, <1>4, <1>8
  <2>2. Len(blocks) \in 0..Len(whole)
    BY <1>2, <1>4, <2>1
  <2>3. part \in Seq(Block) /\ Len(part) = Len(blocks)
        /\ \A i \in 1..Len(blocks) : part[i] = blocks[i]
    <3>. HIDE DEF whole, blocks
    <3>1. Len(blocks) \in Nat /\ Len(whole) \in Nat
      BY <1>4, <2>1
    <3>. QED  BY <2>1, <2>2, <3>1
  <2>4. part = blocks
    <3>. HIDE DEF part, blocks
    <3>. QED  BY <1>4, <2>3, SeqEqual
  <2>5. part \in Documents \/ Decode(part) = Malformed
    <3>. HIDE DEF whole
    <3>. QED  BY <2>1, <2>2, PrefixAssumption
  <2>. QED  BY <1>6, <2>4, <2>5
<1>. QED  BY <1>7, <1>8

(* A summary needs nothing but itself and a time while the profile is in force. *)
LEMMA SummaryRevalidates ==
  ASSUME NEW d, WireReport(d), NEW at \in Nat, InspectBytesAccepts(d, at)
  PROVE  Revalidates(SummaryOf(d), at)
<1>. DEFINE s == SummaryOf(d)
<1>. SUFFICES ASSUME NEW later \in Nat, at <= later
              PROVE  ValidateSummary(s, later) <=> later < Profile.expires
  BY DEF Revalidates
<1>1. /\ s.version = d.version /\ s.profileDigest = d.profileDigest
      /\ s.checkedAt = d.checkedAt /\ s.origin = d.origin /\ s.actions = d.actions
      /\ s.ok = d.ok /\ s.checks = d.checks /\ s.engines = d.engines
      /\ s.engine = IF d.version = "live" THEN "chromium" ELSE "none"
  BY DEF SummaryOf
<1>. HIDE DEF s
<1>2. validateCommon(s, later) <=> validateCommon(d, later)
  BY <1>1 DEF validateCommon
<1>3. d.checkedAt \in Int
  BY DEF WireReport
<1>4. validateCommon(d, at) => (validateCommon(d, later) <=> later < Profile.expires)
  BY <1>3, ProfileAssumption DEF validateCommon, Timely
<1>5. CASE d.version = "live"
  <2>1. d.engines = <<>> /\ validateLive(d, at)
    BY <1>5 DEF InspectBytesAccepts, validateReportShape
  <2>2. validateLive(s, later) <=> later < Profile.expires
    BY <1>1, <1>2, <1>4, <2>1 DEF validateLive
  <2>. QED  BY <1>1, <1>5, <2>1, <2>2 DEF ValidateSummary
<1>6. CASE d.version = "portability"
  <2>1. d.checks = NoChecks /\ validatePortability(d, at, TRUE)
    BY <1>6 DEF InspectBytesAccepts, validateReportShape
  <2>2. validatePortability(s, later, FALSE) <=> later < Profile.expires
    BY <1>1, <1>2, <1>4, <2>1 DEF validatePortability
  <2>. QED  BY <1>1, <1>6, <2>1, <2>2 DEF ValidateSummary
<1>7. d.version \in {"live", "portability"}
  BY DEF InspectBytesAccepts, validateReportShape
<1>. QED  BY <1>5, <1>6, <1>7
-----------------------------------------------------------------------------
(* The parts of the invariant a step of the checker or of the reader leaves  *)
(* alone.                                                                    *)
Later == InspectedInv /\ SummaryInv /\ SealedInv /\ ReviewInv

LEMMA LaterKept ==
  ASSUME Later, UNCHANGED <<inspected, summary, archiveVars, clock>>
  PROVE  Later'
BY DEF Later, InspectedInv, SummaryInv, SealedInv, ReviewInv, Request, archiveVars

LEMMA WholeWhileReading ==
  ASSUME summary' = None PROVE WrittenWhole'
BY DEF WrittenWhole

(* Truncate and WriteBlock: what is written and what is to come change in    *)
(* one file.                                                                 *)
LEMMA WritingKeeps ==
  ASSUME CheckerInv, ReaderInv, summary = None, NEW blocks \in Seq(Block), Modify(path, blocks),
         writing' \in Seq(Block), blocks \o writing' \in Documents,
         UNCHANGED <<path, reader, summary>>
  PROVE  CheckerInv' /\ ReaderInv'
<1>1. /\ nodes' \in Seq(Node) /\ DOMAIN nodes' = DOMAIN nodes
      /\ nodes'[path].blocks = blocks
      /\ \A n \in DOMAIN nodes : n # path => nodes'[n] = nodes[n]
      /\ ReaderInv'
  BY ModifyKeeps
<1>2. \A n \in DOMAIN nodes' : n # path' => nodes'[n].blocks \in Documents
  BY <1>1 DEF CheckerInv, Blocks
<1>3. path' \in DOMAIN nodes' /\ nodes'[path'].blocks \o writing' \in Documents
  BY <1>1 DEF CheckerInv
<1>. QED  BY <1>1, <1>2, <1>3 DEF CheckerInv, Blocks

LEMMA TruncateStep ==
  ASSUME CheckerInv, ReaderInv, NEW document \in Rewrites, Truncate(document)
  PROVE  CheckerInv' /\ ReaderInv'
<1>1. document \in Documents /\ document \in Seq(Block) /\ <<>> \in Seq(Block)
  BY ArchiveAssumption
<1>2. <<>> \o document = document
  BY <1>1
<1>. QED  BY <1>1, <1>2, WritingKeeps DEF Truncate

LEMMA WriteBlockStep ==
  ASSUME CheckerInv, ReaderInv, WriteBlock
  PROVE  CheckerInv' /\ ReaderInv'
<1>. DEFINE blocks == Append(Blocks(path), Head(writing))
<1>1. /\ nodes \in Seq(Node) /\ path \in DOMAIN nodes /\ writing \in Seq(Block) /\ writing # <<>>
      /\ summary = None /\ Blocks(path) \o writing \in Documents
  BY DEF CheckerInv, WriteBlock
<1>2. nodes[path] \in Node
  BY <1>1
<1>3. Blocks(path) \in Seq(Block)
  BY <1>2 DEF Node, Blocks
<1>4. blocks \in Seq(Block) /\ Tail(writing) \in Seq(Block)
  BY <1>1, <1>3
<1>5. blocks \o Tail(writing) = Blocks(path) \o writing
  BY <1>1, <1>3, AppendHead
<1>6. Modify(path, blocks) /\ writing' = Tail(writing) /\ UNCHANGED <<path, reader, summary>>
  BY DEF WriteBlock
<1>. HIDE DEF blocks
<1>. QED  BY <1>1, <1>4, <1>5, <1>6, WritingKeeps

LEMMA ReplaceStep ==
  ASSUME CheckerInv, ReaderInv, NEW document \in Rewrites, NEW regular \in BOOLEAN,
         Replace(document, regular)
  PROVE  CheckerInv' /\ ReaderInv'
<1>. DEFINE node == [regular |-> regular, blocks |-> document, mtime |-> 0]
<1>1. /\ nodes \in Seq(Node) /\ path \in DOMAIN nodes /\ writing = <<>> /\ summary = None
      /\ Blocks(path) \o writing \in Documents
      /\ \A n \in DOMAIN nodes : n # path => Blocks(n) \in Documents
  BY DEF CheckerInv, Replace
<1>2. /\ path' = Len(nodes) + 1 /\ nodes' = Append(nodes, node)
      /\ UNCHANGED <<writing, reader, summary, coarse>>
  BY DEF Replace, readVars
<1>3. document \in Documents /\ document \in Seq(Block)
  BY ArchiveAssumption
<1>4. node \in Node /\ node.blocks = document
  BY <1>3 DEF Node
<1>5. \A n \in DOMAIN nodes : Blocks(n) \in Seq(Block) /\ Blocks(n) \in Documents
  <2>1. \A n \in DOMAIN nodes : nodes[n] \in Node
    BY <1>1
  <2>2. \A n \in DOMAIN nodes : Blocks(n) \in Seq(Block)
    BY <2>1 DEF Node, Blocks
  <2>3. Blocks(path) \o <<>> = Blocks(path)
    BY <1>1, <2>2
  <2>. QED  BY <1>1, <2>2, <2>3
<1>. HIDE DEF node
<1>6. /\ nodes' \in Seq(Node) /\ Len(nodes') = Len(nodes) + 1 /\ nodes'[path'] = node
      /\ path' \in DOMAIN nodes' /\ Len(nodes) \in Nat
      /\ \A n \in DOMAIN nodes' : n # path' => n \in DOMAIN nodes
      /\ \A n \in DOMAIN nodes : n \in DOMAIN nodes' /\ nodes'[n] = nodes[n]
  BY <1>1, <1>2, <1>4
<1>7. CheckerInv'
  <2>1. writing' \in Seq(Block) /\ nodes'[path'].blocks \o writing' \in Documents
    BY <1>1, <1>2, <1>3, <1>4, <1>6
  <2>2. \A n \in DOMAIN nodes' : n # path' => nodes'[n].blocks \in Documents
    BY <1>5, <1>6 DEF Blocks
  <2>. QED  BY <1>6, <2>1, <2>2 DEF CheckerInv, Blocks
<1>8. ReaderInv'
  <2>1. CASE reader = Idle
    BY <1>2, <2>1 DEF ReaderInv
  <2>2. CASE reader \in [phase: {"lstat"}, node: DOMAIN nodes]
    BY <1>1, <1>2, <1>6, <2>2 DEF ReaderInv
  <2>3. CASE /\ reader \in [phase: {"reading", "read"}, node: DOMAIN nodes, size: Nat, mtime: Nat,
                            data: Seq(Block)]
             /\ ReadSoFar
    <3>1. nodes'[reader.node] = nodes[reader.node]
      BY <1>6, <2>3
    <3>2. ReadSoFar'
      BY <1>2, <2>3, <3>1 DEF ReadSoFar, Blocks
    <3>. QED  BY <1>1, <1>2, <1>6, <2>3, <3>2 DEF ReaderInv
  <2>. QED  BY <2>1, <2>2, <2>3 DEF ReaderInv
<1>. QED  BY <1>7, <1>8
LEMMA LstatStep ==
  ASSUME CheckerInv, ReaderInv, Lstat
  PROVE  CheckerInv' /\ ReaderInv'
<1>1. path \in DOMAIN nodes /\ summary = None /\ reader' = [phase |-> "lstat", node |-> path]
      /\ UNCHANGED <<fileVars, summary>>
  BY DEF CheckerInv, Lstat
<1>2. CheckerInv'
  BY <1>1 DEF CheckerInv, Blocks, fileVars
<1>3. ReaderInv'
  BY <1>1 DEF ReaderInv, fileVars
<1>. QED  BY <1>2, <1>3

LEMMA OpenStep ==
  ASSUME CheckerInv, ReaderInv, Open
  PROVE  CheckerInv' /\ ReaderInv'
<1>1. /\ summary = None /\ UNCHANGED <<fileVars, summary>>
      /\ nodes \in Seq(Node) /\ path \in DOMAIN nodes
  BY DEF CheckerInv, ReaderInv, Idle, Open
<1>2. CheckerInv'
  BY <1>1 DEF CheckerInv, Blocks, fileVars
<1>3. CASE path # reader.node
  BY <1>2, <1>3 DEF Open, ReaderInv
<1>4. CASE path = reader.node
  <2>. DEFINE opened == [phase |-> "reading", node |-> path, size |-> Len(Blocks(path)),
                         mtime |-> nodes[path].mtime, data |-> <<>>]
  <2>1. reader' = opened
    BY <1>4 DEF Open
  <2>2. nodes[path] \in Node
    BY <1>1
  <2>3. Len(Blocks(path)) \in Nat /\ nodes[path].mtime \in Nat
    BY <2>2 DEF Node, Blocks
  <2>4. opened \in [phase: {"reading", "read"}, node: DOMAIN nodes, size: Nat, mtime: Nat,
                     data: Seq(Block)]
    BY <1>1, <2>3
  <2>5. opened.data = <<>> /\ opened.mtime = nodes[path].mtime /\ opened.node = path
        /\ opened.phase = "reading"
    OBVIOUS
  <2>. HIDE DEF opened
  <2>6. ReadSoFar'
    BY <1>1, <2>1, <2>3, <2>5 DEF ReadSoFar, Blocks, fileVars
  <2>. QED  BY <1>1, <1>2, <2>1, <2>4, <2>6 DEF ReaderInv, fileVars
<1>. QED  BY <1>2, <1>3, <1>4

LEMMA ReadBlockStep ==
  ASSUME CheckerInv, ReaderInv, ReadBlock
  PROVE  CheckerInv' /\ ReaderInv'
<1>. DEFINE Holding == [phase: {"reading", "read"}, node: DOMAIN nodes, size: Nat, mtime: Nat,
                        data: Seq(Block)]
            blocks == Blocks(reader.node)
<1>1. /\ summary = None /\ UNCHANGED <<fileVars, coarse, summary>>
      /\ nodes \in Seq(Node) /\ reader \in Holding /\ ReadSoFar /\ reader.phase = "reading"
  BY DEF CheckerInv, ReaderInv, Idle, ReadBlock
<1>2. CheckerInv'
  BY <1>1 DEF CheckerInv, Blocks, fileVars
<1>3. nodes[reader.node] \in Node
  BY <1>1
<1>4. blocks \in Seq(Block) /\ reader.data \in Seq(Block)
  BY <1>1, <1>3 DEF Node, Blocks
<1>5. CASE AtEnd
  <2>1. reader' = [reader EXCEPT !.phase = "read"]
    BY <1>5 DEF ReadBlock
  <2>2. /\ reader' \in Holding /\ reader'.phase = "read" /\ reader'.node = reader.node
        /\ reader'.mtime = reader.mtime /\ reader'.data = reader.data
    BY <1>1, <2>1
  <2>3. Len(reader.data) >= Len(blocks) \/ Len(reader.data) > MaxBlocks
    BY <1>5 DEF AtEnd
  <2>4. Len(reader.data) \in Nat /\ Len(blocks) \in Nat
    BY <1>4
  <2>5. ReadSoFar'
    BY <1>1, <2>2, <2>3, <2>4 DEF ReadSoFar, Blocks, fileVars
  <2>. QED  BY <1>1, <1>2, <2>2, <2>5 DEF ReaderInv, fileVars
<1>6. CASE ~AtEnd
  <2>. DEFINE next == blocks[Len(reader.data) + 1]
              more == Append(reader.data, next)
  <2>1. reader' = [reader EXCEPT !.data = more]
    BY <1>6 DEF ReadBlock
  <2>2. Len(reader.data) \in Nat /\ Len(blocks) \in Nat /\ Len(reader.data) < Len(blocks)
    BY <1>4, <1>6 DEF AtEnd
  <2>3. next \in Block
    BY <1>4, <2>2
  <2>4. more \in Seq(Block) /\ Len(more) = Len(reader.data) + 1
        /\ \A i \in 1..Len(more) :
             more[i] = IF i <= Len(reader.data) THEN reader.data[i] ELSE blocks[i]
    <3>. HIDE DEF blocks
    <3>. QED  BY <1>4, <2>3
  <2>. HIDE DEF more
  <2>5. /\ reader' \in Holding /\ reader'.phase = "reading" /\ reader'.node = reader.node
        /\ reader'.mtime = reader.mtime /\ reader'.data = more
    BY <1>1, <2>1, <2>4
  <2>6. ASSUME ~coarse, reader.mtime = nodes[reader.node].mtime
        PROVE  /\ Len(more) <= Len(blocks)
               /\ \A i \in 1..Len(more) : more[i] = blocks[i]
    <3>1. \A i \in 1..Len(reader.data) : reader.data[i] = blocks[i]
      BY <1>1, <2>6 DEF ReadSoFar
    <3>. HIDE DEF blocks
    <3>. QED  BY <2>2, <2>4, <3>1
  <2>7. ReadSoFar'
    BY <1>1, <2>5, <2>6 DEF ReadSoFar, Blocks, fileVars
  <2>. QED  BY <1>1, <1>2, <2>5, <2>7 DEF ReaderInv, fileVars
<1>. QED  BY <1>5, <1>6

LEMMA InspectStep ==
  ASSUME IInv, NEW at \in {0, clock}, Inspect(at)
  PROVE  IInv'
<1>. DEFINE data == Decode(reader.data)
            stable == SizeAllowed(Len(reader.data)) /\ Unchanged
            accepted == stable /\ InspectBytesAccepts(data, at)
            found == [blocks |-> reader.data, data |-> data, at |-> at, accepted |-> accepted]
<1>1. /\ reader.phase = "read" /\ reader' = Idle
      /\ inspected' = IF stable THEN found ELSE inspected
      /\ summary' = IF accepted THEN SummaryOf(data) ELSE None
      /\ UNCHANGED <<fileVars, coarse, archiveVars, clock>>
  BY DEF Inspect
<1>2. CheckerInv /\ ReaderInv /\ InspectedInv /\ SummaryInv /\ SealedInv /\ ReviewInv
  BY DEF IInv
<1>3. summary = None /\ reader.data \in Seq(Block)
  BY <1>1, <1>2 DEF ReaderInv, Idle
<1>4. at \in Nat /\ clock \in Nat \ {0}
  BY <1>2 DEF SummaryInv
<1>5. data = Malformed \/ WireReport(data)
  BY <1>3, DecodeShape
<1>6. accepted => data # Malformed /\ WireReport(data) /\ at = clock
  BY <1>5 DEF InspectBytesAccepts, validateLive, validatePortability, validateCommon
<1>7. sealed = None /\ review = None
  BY <1>2, <1>3 DEF SealedInv, ReviewInv
<1>8. CheckerInv'
  BY <1>1, <1>2, <1>3 DEF CheckerInv, Blocks, fileVars
<1>9. ReaderInv'
  BY <1>1 DEF ReaderInv
<1>10. WrittenWhole'
  <2>1. CASE accepted
    <3>1. ~coarse => reader.data \in Documents
      BY <1>1, <1>2, <1>6, <2>1, ReadWhole
    <3>2. inspected'.blocks = reader.data
      BY <1>1, <2>1
    <3>. QED  BY <1>1, <3>1, <3>2 DEF WrittenWhole
  <2>2. CASE ~accepted
    BY <1>1, <2>2 DEF WrittenWhole
  <2>. QED  BY <2>1, <2>2
<1>11. InspectedInv'
  <2>1. CASE stable
    <3>1. inspected' = found
      BY <1>1, <2>1
    <3>2. InspectBytesAccepts(data, at) \in BOOLEAN
      BY DEF InspectBytesAccepts
    <3>3. found.data = data /\ found.at = at /\ found.accepted = InspectBytesAccepts(data, at)
      BY <2>1, <3>2
    <3>. HIDE DEF found, data
    <3>. QED  BY <1>4, <1>5, <3>1, <3>3 DEF InspectedInv
  <2>2. CASE ~stable
    BY <1>1, <1>2, <2>2 DEF InspectedInv
  <2>. QED  BY <2>1, <2>2
<1>12. SummaryInv'
  <2>1. CASE accepted
    <3>1. Revalidates(SummaryOf(data), clock)
      BY <1>4, <1>6, <2>1, SummaryRevalidates
    <3>. HIDE DEF data, accepted
    <3>. QED  BY <1>1, <1>4, <2>1, <3>1 DEF SummaryInv
  <2>2. CASE ~accepted
    BY <1>1, <1>4, <2>2 DEF SummaryInv
  <2>. QED  BY <2>1, <2>2
<1>13. SealedInv' /\ ReviewInv'
  BY <1>1, <1>7 DEF SealedInv, ReviewInv, archiveVars
<1>. QED  BY <1>8, <1>9, <1>10, <1>11, <1>12, <1>13 DEF IInv
LEMMA SealStep ==
  ASSUME IInv, Seal
  PROVE  IInv'
<1>1. summary # None /\ sealed = None /\ sealed' = Sealed(summary) /\ inspected' = None
      /\ UNCHANGED <<reader, summary, review, clock>>
  BY DEF Seal
<1>2. reader = Idle /\ review = None
  BY <1>1 DEF IInv, ReaderInv, ReviewInv
<1>3. CheckerInv' /\ ReaderInv' /\ WrittenWhole' /\ InspectedInv'
  BY <1>1, <1>2 DEF CheckerInv, ReaderInv, WrittenWhole, InspectedInv
<1>4. SummaryInv'
  BY <1>1 DEF IInv, SummaryInv
<1>5. SealedInv' /\ ReviewInv'
  BY <1>1, <1>2 DEF SealedInv, ReviewInv
<1>. QED  BY <1>3, <1>4, <1>5 DEF IInv

LEMMA KeepStep ==
  ASSUME IInv, Keep
  PROVE  IInv'
<1>1. review' = None /\ UNCHANGED <<fileVars, readVars, sealed, clock>>
  BY KeepEdits
<1>2. CheckerInv' /\ ReaderInv' /\ WrittenWhole' /\ InspectedInv'
  BY <1>1 DEF IInv, CheckerInv, ReaderInv, ReadSoFar, Blocks, WrittenWhole, InspectedInv,
              fileVars, readVars
<1>3. SummaryInv' /\ SealedInv' /\ ReviewInv'
  BY <1>1 DEF IInv, SummaryInv, SealedInv, ReviewInv, readVars
<1>. QED  BY <1>2, <1>3 DEF IInv

LEMMA InspectArchiveStep ==
  ASSUME IInv, NEW format \in {"v2", "v3"}, InspectArchive(format)
  PROVE  IInv'
<1>1. /\ sealed # None /\ UNCHANGED <<fileVars, readVars, sealed, files, clock>>
      /\ review' = [format |-> format,
                    accepted |-> InspectHistory(Request(format)),
                    current |-> ValidateSummary(files[SummaryPath].summary, clock)]
  BY DEF InspectArchive
<1>2. CheckerInv' /\ ReaderInv' /\ WrittenWhole' /\ InspectedInv'
  BY <1>1 DEF IInv, CheckerInv, ReaderInv, ReadSoFar, Blocks, WrittenWhole, InspectedInv,
              fileVars, readVars
<1>3. SummaryInv' /\ SealedInv'
  BY <1>1 DEF IInv, SummaryInv, SealedInv, readVars
<1>4. ReviewInv'
  BY <1>1 DEF ReviewInv, Request
<1>. QED  BY <1>2, <1>3, <1>4 DEF IInv

LEMMA TickStep ==
  ASSUME IInv, Tick
  PROVE  IInv'
<1>1. /\ clock' = clock + 1 /\ review' = None
      /\ UNCHANGED <<fileVars, readVars, sealed, files>>
  BY DEF Tick
<1>2. CheckerInv' /\ ReaderInv' /\ WrittenWhole' /\ InspectedInv'
  BY <1>1 DEF IInv, CheckerInv, ReaderInv, ReadSoFar, Blocks, WrittenWhole, InspectedInv,
              fileVars, readVars
<1>3. SummaryInv'
  <2>1. clock \in Nat \ {0} /\ (summary # None => Revalidates(summary, clock))
    BY DEF IInv, SummaryInv
  <2>2. summary # None => Revalidates(summary, clock + 1)
    BY <2>1 DEF Revalidates
  <2>3. summary' = summary
    BY <1>1 DEF readVars
  <2>. QED  BY <1>1, <2>1, <2>2, <2>3 DEF SummaryInv
<1>4. SealedInv' /\ ReviewInv'
  BY <1>1 DEF IInv, SealedInv, ReviewInv, readVars
<1>. QED  BY <1>2, <1>3, <1>4 DEF IInv

(* A step that only writes or reads leaves what follows an inspection alone. *)
LEMMA WorkStep ==
  ASSUME IInv, CheckerInv', ReaderInv', WrittenWhole',
         UNCHANGED <<inspected, summary, archiveVars, clock>>
  PROVE  IInv'
<1>1. Later'
  BY LaterKept DEF IInv, Later
<1>. QED  BY <1>1 DEF IInv, Later

LEMMA InitIInv ==
  ASSUME Init PROVE IInv
<1>1. PICK document \in Documents :
        nodes = <<[regular |-> TRUE, blocks |-> document, mtime |-> 0]>>
  BY DEF Init
<1>2. document \in Seq(Block) /\ document \o <<>> = document
  BY DocumentIsBlocks
<1>. DEFINE node == [regular |-> TRUE, blocks |-> document, mtime |-> 0]
<1>3. node \in Node /\ node.blocks = document
  BY <1>2 DEF Node
<1>4. path = 1 /\ writing = <<>> /\ nodes = <<node>>
  BY <1>1 DEF Init
<1>. HIDE DEF node
<1>5. nodes \in Seq(Node) /\ DOMAIN nodes = {1} /\ nodes[1] = node
  BY <1>3, <1>4
<1>6. CheckerInv
  BY <1>2, <1>3, <1>4, <1>5 DEF CheckerInv, Blocks
<1>7. /\ reader = Idle /\ inspected = None /\ summary = None /\ sealed = None /\ review = None
      /\ clock = 1
  BY DEF Init
<1>8. ReaderInv /\ WrittenWhole /\ InspectedInv /\ SummaryInv /\ SealedInv /\ ReviewInv
  BY <1>7 DEF ReaderInv, WrittenWhole, InspectedInv, SummaryInv, SealedInv, ReviewInv
<1>. QED  BY <1>6, <1>8 DEF IInv

LEMMA NextIInv ==
  ASSUME IInv, [Next]_vars PROVE IInv'
<1>0. CheckerInv /\ ReaderInv
  BY DEF IInv
<1>1. ASSUME NEW document \in Rewrites, Truncate(document) PROVE IInv'
  <2>1. summary' = None /\ UNCHANGED <<inspected, summary, archiveVars, clock>>
    BY <1>1 DEF Truncate
  <2>. QED  BY <1>0, <1>1, <2>1, TruncateStep, WholeWhileReading, WorkStep
<1>2. ASSUME NEW document \in Rewrites, NEW regular \in BOOLEAN, Replace(document, regular)
      PROVE  IInv'
  <2>1. summary' = None /\ UNCHANGED <<inspected, summary, archiveVars, clock>>
    BY <1>2 DEF Replace, readVars
  <2>. QED  BY <1>0, <1>2, <2>1, ReplaceStep, WholeWhileReading, WorkStep
<1>3. CASE WriteBlock
  <2>1. summary' = None /\ UNCHANGED <<inspected, summary, archiveVars, clock>>
    BY <1>3 DEF WriteBlock
  <2>. QED  BY <1>0, <1>3, <2>1, WriteBlockStep, WholeWhileReading, WorkStep
<1>4. CASE Lstat
  <2>1. summary' = None /\ UNCHANGED <<inspected, summary, archiveVars, clock>>
    BY <1>4 DEF Lstat
  <2>. QED  BY <1>0, <1>4, <2>1, LstatStep, WholeWhileReading, WorkStep
<1>5. CASE Open
  <2>1. summary' = None /\ UNCHANGED <<inspected, summary, archiveVars, clock>>
    BY <1>0, <1>5 DEF Open, ReaderInv, Idle
  <2>. QED  BY <1>0, <1>5, <2>1, OpenStep, WholeWhileReading, WorkStep
<1>6. CASE ReadBlock
  <2>1. summary' = None /\ UNCHANGED <<inspected, summary, archiveVars, clock>>
    BY <1>0, <1>6 DEF ReadBlock, ReaderInv, Idle
  <2>. QED  BY <1>0, <1>6, <2>1, ReadBlockStep, WholeWhileReading, WorkStep
<1>7. ASSUME NEW at \in {0, clock}, Inspect(at) PROVE IInv'
  BY <1>7, InspectStep
<1>8. CASE Seal
  BY <1>8, SealStep
<1>9. CASE Keep
  BY <1>9, KeepStep
<1>10. ASSUME NEW format \in {"v2", "v3"}, InspectArchive(format) PROVE IInv'
  BY <1>10, InspectArchiveStep
<1>11. CASE Tick
  BY <1>11, TickStep
<1>12. CASE UNCHANGED vars
  BY <1>12 DEF vars, fileVars, readVars, archiveVars, IInv, CheckerInv, ReaderInv, ReadSoFar,
              Blocks, WrittenWhole, InspectedInv, SummaryInv, SealedInv, ReviewInv, Request
<1>. QED
  BY <1>1, <1>2, <1>3, <1>4, <1>5, <1>6, <1>7, <1>8, <1>9, <1>10, <1>11, <1>12 DEF Next

(* Every behaviour keeps the inductive invariant.                            *)
THEOREM SpecIInv == Spec => []IInv
<1>1. Init => IInv
  BY InitIInv
<1>2. IInv /\ [Next]_vars => IInv'
  BY NextIInv
<1>. QED  BY <1>1, <1>2, PTL DEF Spec
(* An accepted report was one document from its beginning to its end: what   *)
(* readStableRegularFile reads between two equal Stats was not half of one   *)
(* report and half of another, unless it was changed within one tick.        *)
THEOREM SpecWrittenWhole == Spec => []WrittenWhole
BY SpecIInv, PTL DEF IInv

(* InspectBytes accepts the reports a truthful checker of this profile can   *)
(* write, in its lifetime and limits, and no other.                          *)
THEOREM SpecAcceptedIffTruthful == Spec => []AcceptedIffTruthful
<1>1. IInv => AcceptedIffTruthful
  <2>. SUFFICES ASSUME IInv, inspected # None
                PROVE  inspected.accepted =
                         (/\ inspected.data # Malformed /\ Truthful(inspected.data)
                          /\ WithinLimits(inspected.data.actions)
                          /\ Profile.verified <= inspected.data.checkedAt
                          /\ inspected.data.checkedAt <= inspected.at
                          /\ inspected.at < Profile.expires)
    BY DEF AcceptedIffTruthful
  <2>1. /\ inspected.data = Malformed \/ WireReport(inspected.data)
        /\ inspected.at \in Nat
        /\ inspected.accepted = InspectBytesAccepts(inspected.data, inspected.at)
    BY DEF IInv, InspectedInv
  <2>2. InspectBytesAccepts(inspected.data, inspected.at) \in BOOLEAN
    BY DEF InspectBytesAccepts
  <2>3. CASE inspected.data = Malformed
    BY <2>1, <2>3 DEF InspectBytesAccepts
  <2>4. CASE WireReport(inspected.data)
    BY <2>1, <2>2, <2>4, InspectTruthful
  <2>. QED  BY <2>1, <2>3, <2>4
<1>. QED  BY <1>1, SpecIInv, PTL

(* An archive that is accepted is, file by file, the one that was sealed.    *)
LEMMA AcceptedIsSealed ==
  ASSUME IInv, review # None, review.accepted
  PROVE  review.format = "v2" /\ files = sealed
<1>1. InspectHistory(Request(review.format))
  BY DEF IInv, ReviewInv
<1>. DEFINE request == Request(review.format)
<1>2. /\ request.format = review.format /\ request.files = files /\ request.scope = "package"
      /\ request.expected = PackageSHA256([scope |-> "package", manifestPath |-> ManifestPath,
                                           files |-> sealed])
  BY DEF Request
<1>3. request.format = "v2" /\ PackageSHA256(request) = request.expected
  BY <1>1 DEF InspectHistory
<1>. HIDE DEF request
<1>4. DigestFiles("package", files) = DigestFiles("package", sealed)
  BY <1>2, <1>3 DEF PackageSHA256
<1>5. DigestFiles("package", files).files = DigestFiles("package", sealed).files
  BY <1>4
<1>. QED  BY <1>2, <1>3, <1>5 DEF DigestFiles

(* The retained summary of an accepted archive validates without the report  *)
(* as long as the profile is in force, and never after.                      *)
THEOREM SpecSummaryKeepsWorking == Spec => []SummaryKeepsWorking
<1>1. IInv => SummaryKeepsWorking
  <2>. SUFFICES ASSUME IInv, review # None, review.accepted
                PROVE  review.current = (clock < Profile.expires)
    BY DEF SummaryKeepsWorking
  <2>1. summary # None /\ files = Sealed(summary)
        /\ review.current = ValidateSummary(files[SummaryPath].summary, clock)
    BY AcceptedIsSealed DEF IInv, ReviewInv, SealedInv
  <2>2. Sealed(summary)[SummaryPath] = SummaryFile(summary)
    BY ArchiveAssumption DEF Sealed, Contents
  <2>3. files[SummaryPath].summary = summary
    BY <2>1, <2>2 DEF SummaryFile
  <2>4. ValidateSummary(summary, clock) <=> clock < Profile.expires
    BY <2>1 DEF IInv, SummaryInv, Revalidates
  <2>5. ValidateSummary(summary, clock) \in BOOLEAN
    BY DEF ValidateSummary, validateLive, validatePortability
  <2>. QED  BY <2>1, <2>3, <2>4, <2>5
<1>. QED  BY <1>1, SpecIInv, PTL
-----------------------------------------------------------------------------
(* The manifest of three files: its inputs in path order, each with a path   *)
(* of its own.                                                               *)
InOrder(q) ==
  /\ DOMAIN q = 1..3 /\ q = [i \in 1..3 |-> q[i]] /\ \A i \in 1..3 : q[i].path \in Nat
  /\ q[1].path < q[2].path /\ q[2].path < q[3].path

LEMMA SortThree ==
  ASSUME NEW q, DOMAIN q = 1..3, \A i \in 1..3 : q[i].path \in Nat,
         \A i, j \in 1..3 : i # j => q[i].path # q[j].path
  PROVE  /\ InOrder(SortInputs(q))
         /\ \A i \in 1..3 : \E j \in 1..3 : SortInputs(q)[i] = q[j]
<1>. DEFINE order == CHOOSE o \in [1..3 -> 1..3] : InPathOrder(q, o)
<1>1. \E o \in [1..3 -> 1..3] : InPathOrder(q, o)
  <2>1. \E a, b, c \in 1..3 : q[a].path < q[b].path /\ q[b].path < q[c].path
    <3>1. /\ q[1].path \in Nat /\ q[2].path \in Nat /\ q[3].path \in Nat
          /\ q[1].path # q[2].path /\ q[2].path # q[3].path /\ q[1].path # q[3].path
      OBVIOUS
    <3>2. \/ q[1].path < q[2].path /\ q[2].path < q[3].path
          \/ q[1].path < q[3].path /\ q[3].path < q[2].path
          \/ q[2].path < q[1].path /\ q[1].path < q[3].path
          \/ q[2].path < q[3].path /\ q[3].path < q[1].path
          \/ q[3].path < q[1].path /\ q[1].path < q[2].path
          \/ q[3].path < q[2].path /\ q[2].path < q[1].path
      BY <3>1
    <3>. QED  BY <3>2
  <2>2. PICK a \in 1..3, b \in 1..3, c \in 1..3 : q[a].path < q[b].path /\ q[b].path < q[c].path
    BY <2>1
  <2>. DEFINE o == [i \in 1..3 |-> IF i = 1 THEN a ELSE IF i = 2 THEN b ELSE c]
  <2>3. o \in [1..3 -> 1..3] /\ o[1] = a /\ o[2] = b /\ o[3] = c
    OBVIOUS
  <2>. HIDE DEF o
  <2>4. InPathOrder(q, o)
    BY <2>2, <2>3 DEF InPathOrder
  <2>. QED  BY <2>3, <2>4
<1>2. order \in [1..3 -> 1..3] /\ InPathOrder(q, order)
  BY <1>1
<1>3. SortInputs(q) = [i \in 1..3 |-> q[order[i]]]
  BY DEF SortInputs
<1>. HIDE DEF order
<1>4. \A i \in 1..3 : order[i] \in 1..3 /\ SortInputs(q)[i] = q[order[i]]
  BY <1>2, <1>3
<1>5. /\ q[order[1]].path < q[order[2]].path \/ (q[order[1]].path = q[order[2]].path /\ order[1] < order[2])
      /\ q[order[2]].path < q[order[3]].path \/ (q[order[2]].path = q[order[3]].path /\ order[2] < order[3])
  BY <1>2 DEF InPathOrder
<1>6. q[order[1]].path < q[order[2]].path /\ q[order[2]].path < q[order[3]].path
  <2>1. order[1] \in 1..3 /\ order[2] \in 1..3 /\ order[3] \in 1..3
    BY <1>4
  <2>. QED  BY <1>5, <2>1
<1>7. DOMAIN SortInputs(q) = 1..3 /\ SortInputs(q) = [i \in 1..3 |-> SortInputs(q)[i]]
  BY <1>3
<1>. QED  BY <1>4, <1>6, <1>7 DEF InOrder

LEMMA SortAgain ==
  ASSUME NEW q, InOrder(q) PROVE SortInputs(q) = q
<1>. DEFINE same == [i \in 1..3 |-> i]
<1>1. DOMAIN q = 1..3 /\ q = [i \in 1..3 |-> q[i]]
      /\ q[1].path \in Nat /\ q[2].path \in Nat /\ q[3].path \in Nat
      /\ q[1].path < q[2].path /\ q[2].path < q[3].path
  BY DEF InOrder
<1>2. same \in [1..3 -> 1..3] /\ same[1] = 1 /\ same[2] = 2 /\ same[3] = 3
  OBVIOUS
<1>. HIDE DEF same
<1>3. InPathOrder(q, same)
  BY <1>1, <1>2 DEF InPathOrder
<1>4. ASSUME NEW o \in [1..3 -> 1..3], InPathOrder(q, o)
      PROVE  o[1] = 1 /\ o[2] = 2 /\ o[3] = 3
  <2>1. o[1] \in 1..3 /\ o[2] \in 1..3 /\ o[3] \in 1..3
    OBVIOUS
  <2>2. /\ q[o[1]].path < q[o[2]].path \/ (q[o[1]].path = q[o[2]].path /\ o[1] < o[2])
        /\ q[o[2]].path < q[o[3]].path \/ (q[o[2]].path = q[o[3]].path /\ o[2] < o[3])
    BY <1>1, <1>4 DEF InPathOrder
  <2>3. \A i, j \in 1..3 : q[i].path < q[j].path \/ (q[i].path = q[j].path /\ i < j) => i < j
    BY <1>1
  <2>4. o[1] < o[2] /\ o[2] < o[3]
    BY <2>1, <2>2, <2>3
  <2>. QED  BY <2>1, <2>4
<1>. DEFINE order == CHOOSE o \in [1..3 -> 1..3] : InPathOrder(q, o)
<1>5. order \in [1..3 -> 1..3] /\ InPathOrder(q, order)
  BY <1>2, <1>3
<1>6. SortInputs(q) = [i \in 1..3 |-> q[order[i]]]
  BY <1>1 DEF SortInputs
<1>. HIDE DEF order
<1>7. order[1] = 1 /\ order[2] = 2 /\ order[3] = 3
  BY <1>4, <1>5
<1>8. \A i \in 1..3 : order[i] = i
  BY <1>7
<1>9. SortInputs(q) = [i \in 1..3 |-> q[i]]
  BY <1>6, <1>8
<1>. QED  BY <1>1, <1>9
(* A manifest as it is written and digested has every default filled in.     *)
Filled(version, state, states, q, owners, values, policy) ==
  [version |-> version, generatedState |-> state, approvalStates |-> states, inputs |-> q,
   owners |-> owners, valuesAllowed |-> values, policy |-> policy]

Normal(q) ==
  Filled(Exact("v2"), "generated", DefaultReviewStateMachine, q, [host |-> {"execution"}], FALSE,
         DefaultReviewExecutionPolicy(TRUE))

LEMMA FilledInputs ==
  ASSUME NEW v, NEW s, NEW l, NEW q, NEW o, NEW a, NEW p, NEW x
  PROVE  [Filled(v, s, l, q, o, a, p) EXCEPT !.inputs = x] = Filled(v, s, l, x, o, a, p)
BY DEF Filled

LEMMA NewFills ==
  ASSUME NEW version \in {"v2", Blank}, NEW state \in {"generated", Blank},
         NEW states \in {<<>>, DefaultReviewStateMachine},
         NEW q, NEW owners, NEW values, NEW policy
  PROVE  NewReviewHandoff(Filled(Exact(version), state, states, q, owners, values, policy)) =
           Filled(Exact("v2"), "generated", DefaultReviewStateMachine, SortInputs(q), owners,
                  values, policy)
<1>. DEFINE m == Filled(Exact(version), state, states, q, owners, values, policy)
            done == DefaultReviewStateMachine
            sorted == SortInputs(q)
            v2 == Exact("v2")
            A == [m EXCEPT !.version = v2]
            B == [A EXCEPT !.generatedState = "generated"]
            C == [B EXCEPT !.approvalStates = done]
            D == [C EXCEPT !.inputs = sorted]
<1>1. m.version = Exact(version) /\ m.generatedState = state /\ m.approvalStates = states
      /\ m.inputs = q /\ Exact(version).value = version
  BY DEF Filled, Exact
<1>2. A = Filled(v2, state, states, q, owners, values, policy)
  BY DEF Filled
<1>. HIDE DEF A
<1>3. B = Filled(v2, "generated", states, q, owners, values, policy)
  BY <1>2 DEF Filled
<1>. HIDE DEF B
<1>4. C = Filled(v2, "generated", done, q, owners, values, policy)
  BY <1>3 DEF Filled
<1>. HIDE DEF C
<1>5. D = Filled(v2, "generated", done, sorted, owners, values, policy)
  BY <1>4 DEF Filled
<1>. HIDE DEF D
<1>6. (IF m.version.value = Blank THEN "v2" ELSE m.version.value) = "v2"
  BY <1>1
<1>7. (IF m.generatedState = Blank THEN "generated" ELSE m.generatedState) = "generated"
  BY <1>1
<1>8. (IF m.approvalStates = <<>> THEN done ELSE m.approvalStates) = done
  BY <1>1
<1>9. NewReviewHandoff(m) = [m EXCEPT !.version = v2, !.generatedState = "generated",
                                      !.approvalStates = done, !.inputs = sorted]
  <2>. HIDE DEF m
  <2>. QED  BY <1>1, <1>6, <1>7, <1>8 DEF NewReviewHandoff
<1>10. [m EXCEPT !.version = v2, !.generatedState = "generated",
                 !.approvalStates = done, !.inputs = sorted] = D
  BY DEF A, B, C, D
<1>. QED  BY <1>5, <1>9, <1>10

LEMMA NormalInputs ==
  ASSUME NEW q, NEW x PROVE Normal(q).inputs = q /\ [Normal(q) EXCEPT !.inputs = x] = Normal(x)
<1>1. Normal(q).inputs = q
  BY DEF Normal, Filled
<1>. DEFINE no == FALSE
            policy == DefaultReviewExecutionPolicy(TRUE)
            N(r) == Filled(Exact("v2"), "generated", DefaultReviewStateMachine, r,
                           [host |-> {"execution"}], no, policy)
<1>2. Normal(q) = N(q) /\ Normal(x) = N(x)
  BY DEF Normal
<1>. HIDE DEF no, policy
<1>3. [N(q) EXCEPT !.inputs = x] = N(x)
  BY FilledInputs
<1>. QED  BY <1>1, <1>2, <1>3

LEMMA NormalAgain ==
  ASSUME NEW q, InOrder(q) PROVE NewReviewHandoff(Normal(q)) = Normal(q)
<1>. DEFINE no == FALSE
            policy == DefaultReviewExecutionPolicy(TRUE)
            N == Filled(Exact("v2"), "generated", DefaultReviewStateMachine, q,
                        [host |-> {"execution"}], no, policy)
<1>1. Normal(q) = N
  BY DEF Normal
<1>. HIDE DEF no, policy
<1>2. NewReviewHandoff(N) = N
  BY NewFills, SortAgain
<1>. QED  BY <1>1, <1>2
LEMMA InputFields ==
  ASSUME NEW p, NEW sha, NEW x
  PROVE  /\ Input(p, sha).path = p /\ Input(p, sha).required /\ Input(p, sha).sha256 = sha
         /\ [Input(p, sha) EXCEPT !.sha256 = x] = Input(p, x)
<1>1. Input(p, sha).path = p /\ Input(p, sha).required /\ Input(p, sha).sha256 = sha
  BY DEF Input
<1>. DEFINE yes == TRUE
            I(h) == [path |-> p, required |-> yes, sha256 |-> h]
<1>2. Input(p, sha) = I(sha) /\ Input(p, x) = I(x)
  BY DEF Input
<1>. HIDE DEF yes
<1>3. [I(sha) EXCEPT !.sha256 = x] = I(x)
  OBVIOUS
<1>. QED  BY <1>1, <1>2, <1>3

(* The manifest with its own digest cleared. *)
Cleared(q, self) ==
  [i \in DOMAIN q |-> IF q[i].path = self THEN [q[i] EXCEPT !.sha256 = Exact(Blank)] ELSE q[i]]

LEMMA SelfDigestClears ==
  ASSUME NEW q, InOrder(q), NEW self
  PROVE  ReviewHandoffSelfDigest(Normal(q), self) = Normal(Cleared(q, self))
<1>1. NewReviewHandoff(Normal(q)) = Normal(q) /\ Normal(q).inputs = q
  BY NormalAgain, NormalInputs
<1>2. ReviewHandoffSelfDigest(Normal(q), self) = [Normal(q) EXCEPT !.inputs = Cleared(q, self)]
  BY <1>1 DEF ReviewHandoffSelfDigest, Cleared
<1>. QED  BY <1>2, NormalInputs

(* The manifest sealed with a summary: in path order each file with the      *)
(* digest it declares, the manifest itself with its self digest.             *)
LEMMA ManifestShape ==
  ASSUME NEW s
  PROVE  \E q :
           /\ Manifest(Contents(s)) = Normal(q) /\ InOrder(q)
           /\ {q[i].path : i \in 1..3} = {ManifestPath, SummaryPath, WorkflowPath}
           /\ \A i \in 1..3 :
                q[i] \in {Input(WorkflowPath, Exact(WorkflowFile("reviewed"))),
                         Input(SummaryPath, Exact(SummaryFile(s))),
                         Input(ManifestPath,
                               Exact(ReviewHandoffSelfDigest(Normal(q), ManifestPath)))}
<1>. DEFINE contents == Contents(s)
            blank == Exact(Blank)
            W == Input(WorkflowPath, blank)
            S == Input(SummaryPath, blank)
            M == Input(ManifestPath, blank)
            draft == <<W, S, M>>
            q0 == SortInputs(draft)
            q1 == [i \in DOMAIN q0 |->
                     IF q0[i].path \in DOMAIN contents
                     THEN Input(q0[i].path, Exact(contents[q0[i].path])) ELSE q0[i]]
            self == ReviewHandoffSelfDigest(Normal(q1), ManifestPath)
            q2 == [i \in DOMAIN q0 |->
                     IF q0[i].path = ManifestPath THEN Input(ManifestPath, Exact(self)) ELSE q1[i]]
<1>0. /\ ManifestPath \in Nat /\ SummaryPath \in Nat /\ WorkflowPath \in Nat
      /\ ManifestPath # SummaryPath /\ SummaryPath # WorkflowPath /\ WorkflowPath # ManifestPath
  BY ArchiveAssumption, BlankAssumption
<1>1. W.path = WorkflowPath /\ S.path = SummaryPath /\ M.path = ManifestPath
  BY InputFields
<1>. HIDE DEF W, S, M
<1>2. /\ DOMAIN draft = 1..3 /\ draft[1] = W /\ draft[2] = S /\ draft[3] = M
  OBVIOUS
<1>. HIDE DEF draft
<1>3. InOrder(q0) /\ \A i \in 1..3 : \E j \in 1..3 : q0[i] = draft[j]
  <2>1. \A i \in 1..3 : draft[i].path \in Nat
    BY <1>0, <1>1, <1>2
  <2>2. \A i, j \in 1..3 : i # j => draft[i].path # draft[j].path
    BY <1>0, <1>1, <1>2
  <2>. QED  BY <1>2, <2>1, <2>2, SortThree
<1>. HIDE DEF q0
<1>4. DOMAIN q0 = 1..3 /\ \A i \in 1..3 : q0[i] \in {W, S, M}
  <2>1. DOMAIN q0 = 1..3
    BY <1>3 DEF InOrder
  <2>2. \A j \in 1..3 : draft[j] \in {W, S, M}
    BY <1>2
  <2>. QED  BY <1>3, <2>1, <2>2
<1>5. \A i \in 1..3 : \/ q0[i] = W /\ q0[i].path = WorkflowPath
                      \/ q0[i] = S /\ q0[i].path = SummaryPath
                      \/ q0[i] = M /\ q0[i].path = ManifestPath
  BY <1>1, <1>4
<1>6. /\ DOMAIN contents = {SummaryPath, WorkflowPath}
      /\ contents[SummaryPath] = SummaryFile(s) /\ contents[WorkflowPath] = WorkflowFile("reviewed")
  BY <1>0 DEF Contents
<1>. HIDE DEF contents
<1>7. \A i \in 1..3 :
        /\ q0[i].path = WorkflowPath => q1[i] = Input(WorkflowPath, Exact(WorkflowFile("reviewed")))
        /\ q0[i].path = SummaryPath => q1[i] = Input(SummaryPath, Exact(SummaryFile(s)))
        /\ q0[i].path = ManifestPath => q1[i] = M
  BY <1>0, <1>4, <1>5, <1>6
<1>8. DOMAIN q1 = 1..3 /\ q1 = [i \in 1..3 |-> q1[i]]
  BY <1>4
<1>. HIDE DEF q1
<1>9. \A i \in 1..3 : q1[i].path = q0[i].path
  BY <1>1, <1>5, <1>7, InputFields
<1>10. InOrder(q1)
  BY <1>3, <1>8, <1>9 DEF InOrder
<1>11. self = Normal(Cleared(q1, ManifestPath))
  BY <1>10, SelfDigestClears
<1>. HIDE DEF self
<1>12. \A i \in 1..3 :
         /\ q0[i].path = ManifestPath => q2[i] = Input(ManifestPath, Exact(self))
         /\ q0[i].path # ManifestPath => q2[i] = q1[i]
  BY <1>4
<1>13. DOMAIN q2 = 1..3 /\ q2 = [i \in 1..3 |-> q2[i]]
  BY <1>4
<1>. HIDE DEF q2
<1>14. \A i \in 1..3 : q2[i].path = q0[i].path
  BY <1>9, <1>12, InputFields
<1>15. InOrder(q2)
  BY <1>3, <1>13, <1>14 DEF InOrder
<1>16. Cleared(q1, ManifestPath) = Cleared(q2, ManifestPath)
  <2>. DEFINE clear(r) == IF r.path = ManifestPath THEN [r EXCEPT !.sha256 = Exact(Blank)] ELSE r
  <2>1. ASSUME NEW i \in 1..3 PROVE clear(q1[i]) = clear(q2[i])
    <3>1. CASE q0[i].path = ManifestPath
      <4>1. clear(q1[i]) = Input(ManifestPath, blank)
        BY <1>7, <1>9, <3>1, InputFields DEF M
      <4>2. clear(q2[i]) = Input(ManifestPath, blank)
        BY <1>12, <1>14, <3>1, InputFields
      <4>. QED  BY <4>1, <4>2
    <3>2. CASE q0[i].path # ManifestPath
      BY <1>12, <3>2
    <3>. QED  BY <3>1, <3>2
  <2>2. Cleared(q1, ManifestPath) = [i \in 1..3 |-> clear(q1[i])]
    BY <1>8 DEF Cleared
  <2>3. Cleared(q2, ManifestPath) = [i \in 1..3 |-> clear(q2[i])]
    BY <1>13 DEF Cleared
  <2>. HIDE DEF clear
  <2>. QED  BY <2>1, <2>2, <2>3
<1>17. self = ReviewHandoffSelfDigest(Normal(q2), ManifestPath)
  BY <1>11, <1>15, <1>16, SelfDigestClears
<1>18. Manifest(Contents(s)) = Normal(q2)
  <2>1. Manifest(contents) = Reseal(contents, Normal(q0))
    <3>. DEFINE no == FALSE
                policy == DefaultReviewExecutionPolicy(TRUE)
    <3>1. Manifest(contents) =
            Reseal(contents, NewReviewHandoff(
              Filled(Exact(Blank), Blank, <<>>, draft, [host |-> {"execution"}], no, policy)))
      BY DEF Manifest, Filled, draft, W, S, M
    <3>2. Normal(q0) = Filled(Exact("v2"), "generated", DefaultReviewStateMachine, q0,
                              [host |-> {"execution"}], no, policy)
      BY DEF Normal
    <3>. HIDE DEF no, policy
    <3>3. NewReviewHandoff(Filled(Exact(Blank), Blank, <<>>, draft, [host |-> {"execution"}],
                                  no, policy))
            = Normal(q0)
      BY <3>2, NewFills DEF q0
    <3>. QED  BY <3>1, <3>3
  <2>2. Normal(q0).inputs = q0 /\ [Normal(q0) EXCEPT !.inputs = q1] = Normal(q1)
        /\ [Normal(q1) EXCEPT !.inputs = q2] = Normal(q2) /\ Normal(q1).inputs = q1
    BY NormalInputs
  <2>3. [i \in DOMAIN Normal(q0).inputs |->
           IF Normal(q0).inputs[i].path \in DOMAIN contents
           THEN Input(Normal(q0).inputs[i].path, Exact(contents[Normal(q0).inputs[i].path]))
           ELSE Normal(q0).inputs[i]] = q1
    BY <2>2 DEF q1
  <2>4. [i \in DOMAIN Normal(q0).inputs |->
           IF Normal(q0).inputs[i].path = ManifestPath
           THEN Input(ManifestPath, Exact(self)) ELSE Normal(q1).inputs[i]] = q2
    BY <2>2 DEF q2
  <2>5. Reseal(contents, Normal(q0)) = Normal(q2)
    <3>. DEFINE N == Normal(q0)
                given == [i \in DOMAIN N.inputs |->
                            IF N.inputs[i].path \in DOMAIN contents
                            THEN Input(N.inputs[i].path, Exact(contents[N.inputs[i].path]))
                            ELSE N.inputs[i]]
                shas == [N EXCEPT !.inputs = given]
                own(m) == [i \in DOMAIN N.inputs |->
                             IF N.inputs[i].path = ManifestPath
                             THEN Input(ManifestPath,
                                        Exact(ReviewHandoffSelfDigest(m, ManifestPath)))
                             ELSE m.inputs[i]]
                sealedAs(m) == [m EXCEPT !.inputs = own(m)]
    <3>1. Reseal(contents, N) = sealedAs(shas)
      BY DEF Reseal
    <3>2. shas = Normal(q1)
      <4>1. given = q1
        BY <2>3
      <4>. HIDE DEF given
      <4>. QED  BY <2>2, <4>1
    <3>3. own(Normal(q1)) = q2
      BY <2>4 DEF self
    <3>4. sealedAs(Normal(q1)) = Normal(q2)
      <4>. HIDE DEF own
      <4>. QED  BY <2>2, <3>3
    <3>. HIDE DEF shas, sealedAs
    <3>. QED  BY <3>1, <3>2, <3>4
  <2>. QED  BY <2>1, <2>5 DEF contents
<1>19. \A i \in 1..3 :
         q2[i] \in {Input(WorkflowPath, Exact(WorkflowFile("reviewed"))),
                   Input(SummaryPath, Exact(SummaryFile(s))),
                   Input(ManifestPath, Exact(ReviewHandoffSelfDigest(Normal(q2), ManifestPath)))}
  BY <1>0, <1>5, <1>7, <1>12, <1>17
<1>20. {q2[i].path : i \in 1..3} = {ManifestPath, SummaryPath, WorkflowPath}
  <2>1. /\ q2[1].path \in {ManifestPath, SummaryPath, WorkflowPath}
        /\ q2[2].path \in {ManifestPath, SummaryPath, WorkflowPath}
        /\ q2[3].path \in {ManifestPath, SummaryPath, WorkflowPath}
    BY <1>5, <1>14
  <2>2. q2[1].path < q2[2].path /\ q2[2].path < q2[3].path
    BY <1>15 DEF InOrder
  <2>3. {q2[i].path : i \in 1..3} = {q2[1].path, q2[2].path, q2[3].path}
    OBVIOUS
  <2>. QED  BY <1>0, <2>1, <2>2, <2>3
<1>. QED  BY <1>15, <1>18, <1>19, <1>20
(* The policy, the owners and the states of a normal manifest are valid.     *)
LEMMA StatesValid ==
  /\ validateReviewApprovalStates(DefaultReviewStateMachine)
  /\ ReviewStateMachineHasRequiredStates(DefaultReviewStateMachine)
<1>. DEFINE states == DefaultReviewStateMachine
<1>1. /\ DOMAIN states = 1..6
      /\ states[1].name = "generated" /\ states[2].name = "validated"
      /\ states[3].name = "review_required" /\ states[4].name = "approved_for_sandbox"
      /\ states[5].name = "approved_for_production" /\ states[6].name = "rejected"
      /\ states[1].next = {"validated", "rejected"}
      /\ states[2].next = {"review_required", "rejected"}
      /\ states[3].next = {"approved_for_sandbox", "approved_for_production", "rejected"}
      /\ states[4].next = {"review_required", "approved_for_production", "rejected"}
      /\ states[5].next = {"rejected"} /\ states[6].next = {"generated"}
  BY DEF DefaultReviewStateMachine, ApprovalState
<1>. HIDE DEF states
<1>2. Declared(states) = ReviewStateNames
  <2>1. Declared(states) = {states[1].name, states[2].name, states[3].name,
                            states[4].name, states[5].name, states[6].name}
    BY <1>1 DEF Declared
  <2>. QED  BY <1>1, <2>1 DEF ReviewStateNames
<1>3. Blank \notin ReviewStateNames
  BY BlankAssumption DEF ReviewStateNames
<1>4. \A i \in 1..6 : states[i].next \subseteq ReviewStateNames
  BY <1>1 DEF ReviewStateNames
<1>5. IsInjective([i \in DOMAIN states |-> states[i].name])
  <2>. DEFINE names == [i \in DOMAIN states |-> states[i].name]
  <2>1. /\ DOMAIN names = 1..6
        /\ names[1] = "generated" /\ names[2] = "validated" /\ names[3] = "review_required"
        /\ names[4] = "approved_for_sandbox" /\ names[5] = "approved_for_production"
        /\ names[6] = "rejected"
    BY <1>1
  <2>. HIDE DEF names
  <2>2. \A a, b \in 1..6 : names[a] = names[b] => a = b
    BY <2>1
  <2>. QED  BY <2>1, <2>2 DEF IsInjective, names
<1>6. validateReviewApprovalStates(states)
  BY <1>1, <1>2, <1>3, <1>4, <1>5 DEF validateReviewApprovalStates
<1>. QED  BY <1>2, <1>6 DEF ReviewStateMachineHasRequiredStates, states

LEMMA NormalValid ==
  ASSUME NEW q, InOrder(q), validateReviewHandoffInputs(q)
  PROVE  ValidateReviewHandoff(Normal(q))
<1>1. /\ Normal(q).version = Exact("v2") /\ Normal(q).generatedState = "generated"
      /\ Normal(q).inputs = q /\ Normal(q).owners = [host |-> {"execution"}]
      /\ Normal(q).approvalStates = DefaultReviewStateMachine
      /\ Normal(q).valuesAllowed = FALSE
      /\ Normal(q).policy = DefaultReviewExecutionPolicy(TRUE)
  BY DEF Normal, Filled
<1>2. Exact("v2").value = "v2"
  BY DEF Exact
<1>3. validateReviewOwnerSplit([host |-> {"execution"}])
  BY BlankAssumption DEF validateReviewOwnerSplit
<1>4. PolicyAllowed(DefaultReviewExecutionPolicy(TRUE))
  BY DEF PolicyAllowed, DefaultReviewExecutionPolicy
<1>. QED  BY <1>1, <1>2, <1>3, <1>4, StatesValid DEF ValidateReviewHandoff

(* A digest is never the empty text. *)
BlankIsNoDigest ==
  /\ \A w : WorkflowFile(w) # Blank
  /\ \A s : SummaryFile(s) # Blank
  /\ \A m : ReviewHandoffSelfDigest(m, ManifestPath) # Blank

(* What Seal writes is accepted with the digest of exactly that.             *)
LEMMA SealedAccepted ==
  ASSUME BlankIsNoDigest, NEW s, NEW request,
         request = [format |-> "v2", scope |-> "package", files |-> Sealed(s),
                    manifestPath |-> ManifestPath, requiredPaths |-> {SummaryPath, WorkflowPath},
                    expected |-> PackageSHA256([scope |-> "package",
                                  manifestPath |-> ManifestPath, files |-> Sealed(s)])]
  PROVE  InspectHistory(request)
<1>1. PICK q :
        /\ Manifest(Contents(s)) = Normal(q) /\ InOrder(q)
        /\ {q[i].path : i \in 1..3} = {ManifestPath, SummaryPath, WorkflowPath}
        /\ \A i \in 1..3 :
             q[i] \in {Input(WorkflowPath, Exact(WorkflowFile("reviewed"))),
                      Input(SummaryPath, Exact(SummaryFile(s))),
                      Input(ManifestPath,
                            Exact(ReviewHandoffSelfDigest(Normal(q), ManifestPath)))}
  BY ManifestShape
<1>. DEFINE kept == Sealed(s)
            self == ReviewHandoffSelfDigest(Normal(q), ManifestPath)
            paths == {ManifestPath, SummaryPath, WorkflowPath}
<1>2. /\ paths \subseteq CanonicalPaths /\ MaxFiles \in Nat /\ MaxFiles >= 3
      /\ ManifestPath # SummaryPath /\ SummaryPath # WorkflowPath /\ WorkflowPath # ManifestPath
  BY ArchiveAssumption, BlankAssumption
<1>3. /\ DOMAIN kept = paths /\ kept[ManifestPath] = ManifestFile(Normal(q))
      /\ kept[SummaryPath] = SummaryFile(s) /\ kept[WorkflowPath] = WorkflowFile("reviewed")
  BY <1>1, <1>2 DEF Sealed, Contents
<1>. HIDE DEF kept
<1>4. /\ request.format = "v2" /\ request.scope = "package" /\ request.files = kept
      /\ request.manifestPath = ManifestPath /\ request.requiredPaths = {SummaryPath, WorkflowPath}
      /\ request.expected = PackageSHA256([scope |-> "package", manifestPath |-> ManifestPath,
                                           files |-> kept])
  BY DEF kept
<1>5. \A i \in 1..3 :
        \/ /\ q[i].path = WorkflowPath /\ q[i].required
           /\ q[i].sha256.value = WorkflowFile("reviewed")
        \/ /\ q[i].path = SummaryPath /\ q[i].required /\ q[i].sha256.value = SummaryFile(s)
        \/ /\ q[i].path = ManifestPath /\ q[i].required /\ q[i].sha256.value = self
  <2>1. \A p, x : /\ Input(p, Exact(x)).path = p /\ Input(p, Exact(x)).required
                  /\ Input(p, Exact(x)).sha256.value = x
    BY InputFields DEF Exact
  <2>. QED  BY <1>1, <2>1
<1>6. DOMAIN q = 1..3 /\ q[1].path < q[2].path /\ q[2].path < q[3].path
      /\ \A i \in 1..3 : q[i].path \in Nat
  BY <1>1 DEF InOrder
<1>7. q \in Seq({q[i] : i \in 1..3}) /\ Len(q) = 3
  <2>1. q \in [1..3 -> {q[i] : i \in 1..3}]
    BY <1>1 DEF InOrder
  <2>2. q \in Seq({q[i] : i \in 1..3})
    BY <2>1, SeqDef
  <2>. QED  BY <1>6, <2>2
<1>8. validateReviewHandoffInputs(q)
  <2>1. q # <<>>
    BY <1>7
  <2>2. ASSUME NEW i \in DOMAIN q
        PROVE  q[i].path \in CanonicalPaths /\ q[i].sha256.value # Blank
    BY <1>2, <1>5, <1>6 DEF BlankIsNoDigest
  <2>3. ASSUME NEW i \in DOMAIN q, NEW j \in 1..(i - 1)
        PROVE  q[j].path # q[i].path
    BY <1>6
  <2>. QED  BY <2>1, <2>2, <2>3 DEF validateReviewHandoffInputs
<1>9. Normal(q).inputs = q /\ Normal(q).version = Exact("v2")
      /\ ValidateReviewHandoff(Normal(q))
  BY <1>1, <1>8, NormalValid DEF Normal, Filled
<1>10. Required(Normal(q)) = paths
  <2>1. {i \in DOMAIN q : q[i].required} = 1..3
    BY <1>5, <1>6
  <2>. QED  BY <1>1, <1>9, <2>1 DEF Required
<1>11. \A i \in 1..3 : /\ q[i].path \in paths
                       /\ q[i].sha256.value = DeclaredDigest(request, Normal(q), q[i].path)
  BY <1>2, <1>3, <1>4, <1>5 DEF DeclaredDigest
<1>12. ManifestFile(Normal(q)).manifest = Normal(q)
  BY DEF ManifestFile
<1>13. TrustInspect(request)
  <2>1. request.files[request.manifestPath].manifest = Normal(q)
    BY <1>3, <1>4, <1>12
  <2>2. Len(Normal(q).inputs) <= MaxFiles
    BY <1>2, <1>7, <1>9
  <2>. HIDE DEF paths
  <2>3. DOMAIN request.files = paths /\ paths \subseteq CanonicalPaths
    BY <1>2, <1>3, <1>4
  <2>4. ManifestPath \in paths /\ {SummaryPath, WorkflowPath} \subseteq paths
    BY DEF paths
  <2>. DEFINE m == Normal(q)
  <2>5. m.inputs = q /\ ValidateReviewHandoff(m) /\ Required(m) = paths
        /\ request.files[request.manifestPath].manifest = m /\ Len(m.inputs) <= MaxFiles
    BY <1>9, <1>10, <2>1, <2>2
  <2>6. \A i \in 1..3 : /\ q[i].path \in paths
                        /\ q[i].sha256.value = DeclaredDigest(request, m, q[i].path)
    BY <1>11
  <2>. HIDE DEF m
  <2>7. request.manifestPath \in paths /\ request.requiredPaths \subseteq paths
    BY <1>4, <2>4
  <2>8. \A i \in DOMAIN m.inputs : m.inputs[i].required =>
          /\ m.inputs[i].path \in DOMAIN request.files
          /\ m.inputs[i].sha256.value = DeclaredDigest(request, m, m.inputs[i].path)
    BY <1>6, <2>3, <2>5, <2>6
  <2>. QED  BY <2>3, <2>5, <2>7, <2>8 DEF TrustInspect
<1>14. \A p \in DOMAIN request.files : ~request.files[p].private
  BY <1>3, <1>4 DEF ManifestFile, SummaryFile, WorkflowFile
<1>15. PackageSHA256(request) = request.expected
  BY <1>4 DEF PackageSHA256
<1>. QED  BY <1>3, <1>4, <1>9, <1>12, <1>13, <1>14, <1>15 DEF InspectHistory

(* InspectHistory with the retained digest accepts the archive exactly as    *)
(* long as it is what was sealed, whatever its keeper did to it: a resealed  *)
(* or respelled manifest is no exception.                                    *)
THEOREM SpecArchiveIsSealed == ASSUME BlankIsNoDigest PROVE Spec => []ArchiveIsSealed
<1>1. IInv => ArchiveIsSealed
  <2>. SUFFICES ASSUME IInv, review # None
                PROVE  review.accepted = (review.format = "v2" /\ files = sealed)
    BY DEF ArchiveIsSealed
  <2>1. /\ review.accepted = InspectHistory(Request(review.format))
        /\ sealed = Sealed(summary)
    BY DEF IInv, ReviewInv, SealedInv
  <2>2. InspectHistory(Request(review.format)) \in BOOLEAN
    BY DEF InspectHistory
  <2>3. review.accepted => review.format = "v2" /\ files = sealed
    BY AcceptedIsSealed
  <2>4. ASSUME review.format = "v2", files = sealed PROVE review.accepted
    BY <2>1, <2>4, SealedAccepted DEF Request
  <2>. QED  BY <2>1, <2>2, <2>3, <2>4
<1>. QED  BY <1>1, SpecIInv, PTL
=============================================================================
