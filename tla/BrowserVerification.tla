------------------------- MODULE BrowserVerification -------------------------
(***************************************************************************)
(* browserverify: the value-free live and portability reports of an        *)
(* external checker, validated field by field against the reviewed browser *)
(* profile (InspectBytes), and the Summary that is retained and validated  *)
(* again later without the report (ValidateSummary).                       *)
(*                                                                         *)
(* The profile's actions are sequences of steps and typed outputs; what a  *)
(* check must observe is derived from them.  A requirement is one path of  *)
(* the profile; checks are a function on requirements, which is what the   *)
(* code's sorted, gap-free list of checks amounts to.  Messages are        *)
(* "pass", "fail" (fixed per probe kind) or "closed", the generic failure. *)
(***************************************************************************)
EXTENDS Integers, Sequences, FiniteSets

CONSTANTS
  Profile,       \* [digest, origins, actions, verified, expires]
  MaxMatches,    \* 1000000 in the code
  MaxActions,    \* 64 in the code
  MaxChecks,     \* 512 in the code
  Malformed      \* bytes that are no report of a known, closed shape

OutputTypes == {"string", "integer", "number", "boolean", "array", "object", "null"}

(* A reviewed profile: its lifetime, and per action its steps and outputs.   *)
Step == [kind: STRING, locator: BOOLEAN, wait: {"locator", "navigation", "none"}]
Output == [type: OutputTypes, presence: BOOLEAN]

ASSUME ProfileAssumption ==
  /\ Profile.verified \in Nat \ {0} /\ Profile.expires \in Nat
  /\ MaxMatches \in Nat /\ MaxActions \in Nat /\ MaxChecks \in Nat
  /\ \A a \in DOMAIN Profile.actions :
       /\ Profile.actions[a].sequence \in Seq(Step)
       /\ \A o \in DOMAIN Profile.actions[a].outputs : Profile.actions[a].outputs[o] \in Output

(* A report of the closed wire: a text may be any text, "" being "none".     *)
Check ==
  [ok: BOOLEAN, matches: Int, expected: STRING, observed: STRING, message: STRING]

WireChecks(checks) == \A r \in DOMAIN checks : checks[r] \in Check

EngineResult(e) ==
  /\ DOMAIN e = {"engine", "diagnostic", "checks", "status"}
  /\ e = [engine |-> e.engine, diagnostic |-> e.diagnostic, checks |-> e.checks,
          status |-> e.status]
  /\ WireChecks(e.checks)

WireReport(d) ==
  /\ DOMAIN d = {"version", "profileDigest", "checkedAt", "origin", "actions", "ok", "checks",
                 "engines", "pressure"}
  /\ d.checkedAt \in Int /\ d.ok \in BOOLEAN /\ d.pressure \in BOOLEAN
  /\ WireChecks(d.checks) /\ \A i \in DOMAIN d.engines : EngineResult(d.engines[i])

-----------------------------------------------------------------------------
(* buildRequirements: one probe per locator and wait of a step, one per      *)
(* output.                                                                   *)
NoOutput == [type |-> "none", presence |-> FALSE]

Requirement(kind, action, part, output) ==
  [kind |-> kind, action |-> action, part |-> part, output |-> output]

WaitRequirements(action, i, wait) ==
  CASE wait = "locator" -> {Requirement("locator", action, <<i, "wait_for">>, NoOutput)}
    [] wait = "navigation" ->
         {Requirement("navigation_wait", action, <<i, "navigation">>, NoOutput)}
    [] wait = "none" -> {}

StepRequirements(action, i) ==
  LET step == Profile.actions[action].sequence[i] IN
  WaitRequirements(action, i, step.wait) \cup
    (IF step.kind # "wait_for" /\ step.locator
     THEN {Requirement("locator", action, <<i, "locator">>, NoOutput)} ELSE {})

buildRequirements(actions) ==
  UNION {(UNION {StepRequirements(a, i) : i \in DOMAIN Profile.actions[a].sequence}) \cup
         {Requirement("output", a, <<0, o>>, Profile.actions[a].outputs[o]) :
            o \in DOMAIN Profile.actions[a].outputs} : a \in actions}

-----------------------------------------------------------------------------
Message(ok) == IF ok THEN "pass" ELSE "fail"

OutputMatches(output, c) ==
  /\ \/ output.presence
     \/ IF output.type = "array" THEN c.matches > 0 ELSE c.matches = 1
  /\ c.observed = output.type

validateCheck(r, c) ==
  IF c.message = "closed" THEN ~c.ok /\ c.expected = "none" /\ c.observed = "none"
  ELSE /\ c.message = Message(c.ok)
       /\ r.kind # "output" => c.expected = "none" /\ c.observed = "none"
       /\ r.kind = "locator" => c.ok = (c.matches = 1)
       /\ r.kind = "output" =>
            /\ c.expected = r.output.type /\ c.observed \in OutputTypes \cup {"none"}
            /\ c.ok = OutputMatches(r.output, c)

NoChecks == <<>>

validateChecks(requirements, checks) ==
  /\ requirements # {} /\ DOMAIN checks = requirements
  /\ \A r \in requirements :
       checks[r].matches \in 0..MaxMatches /\ validateCheck(r, checks[r])

allChecksPass(checks) == checks # NoChecks /\ \A r \in DOMAIN checks : checks[r].ok

(* Mutant: the profile may expire before the report is used. *)
CheckedInLifetime(checkedAt, at) ==
  checkedAt >= Profile.verified /\ checkedAt < Profile.expires /\ checkedAt <= at

Timely(checkedAt, at) ==
  /\ checkedAt >= Profile.verified /\ checkedAt < Profile.expires
  /\ checkedAt <= at /\ at < Profile.expires

WithinLimits(actions) ==
  /\ Cardinality(actions) <= MaxActions
  /\ Cardinality(buildRequirements(actions)) \in 1..MaxChecks

(* Digest, times, origin and actions; at = 0 is the zero time.               *)
validateCommon(r, at) ==
  /\ r.profileDigest = Profile.digest
  /\ at # 0 /\ Timely(r.checkedAt, at)
  /\ r.origin \in Profile.origins
  /\ r.actions # {} /\ r.actions \subseteq DOMAIN Profile.actions
  /\ WithinLimits(r.actions)

validateLive(r, at) ==
  /\ validateCommon(r, at)
  /\ validateChecks(buildRequirements(r.actions), r.checks)
  /\ r.ok = allChecksPass(r.checks)

-----------------------------------------------------------------------------
validateEngine(requirements, e) ==
  CASE e.status = "passed" ->
         /\ e.diagnostic = "none"
         /\ validateChecks(requirements, e.checks) /\ allChecksPass(e.checks)
    [] e.status = "unavailable" -> e.diagnostic = "engine_unavailable" /\ e.checks = NoChecks
    [] e.status = "failed" ->
         CASE e.diagnostic = "browser_observation_failed" -> e.checks = NoChecks
           [] e.diagnostic = "profile_check_failed" ->
                validateChecks(requirements, e.checks) /\ ~allChecksPass(e.checks)
           [] e.diagnostic \in {"chromium_baseline_unavailable", "check_shape_mismatch"} ->
                /\ e.engine # "chromium"
                /\ validateChecks(requirements, e.checks) /\ allChecksPass(e.checks)
           [] OTHER -> FALSE
    [] OTHER -> FALSE

EngineOrders ==
  {<<"chromium", "firefox">>, <<"chromium", "webkit">>, <<"chromium", "firefox", "webkit">>}

(* Mutant: an alternate engine that passes is not compared with Chromium. *)
AgreesWithItself(e, chromium) == e.status = "passed" => allChecksPass(e.checks)

(* An alternate engine's diagnosis follows from Chromium's checks.           *)
AgreesWithBaseline(e, chromium) ==
  LET ready == chromium.checks # NoChecks
      equal == ready /\ e.checks = chromium.checks
  IN  CASE e.diagnostic = "chromium_baseline_unavailable" -> ~ready /\ allChecksPass(e.checks)
        [] e.diagnostic = "check_shape_mismatch" -> ready /\ allChecksPass(e.checks) /\ ~equal
        [] e.diagnostic = "none" -> e.status = "passed" => equal
        [] OTHER -> TRUE

(* pressure: contractPressure is the fixed inventory, asked of reports only. *)
validatePortability(r, at, requirePressure) ==
  LET requirements == buildRequirements(r.actions) IN
  /\ validateCommon(r, at)
  /\ requirePressure => r.pressure
  /\ [i \in DOMAIN r.engines |-> r.engines[i].engine] \in EngineOrders
  /\ \A i \in DOMAIN r.engines : validateEngine(requirements, r.engines[i])
  /\ \A i \in DOMAIN r.engines \ {1} : AgreesWithBaseline(r.engines[i], r.engines[1])
  /\ r.ok = (\A i \in DOMAIN r.engines : r.engines[i].status = "passed")

-----------------------------------------------------------------------------
(* A live report has checks and no engines, a portability report the reverse.*)
validateReportShape(data) ==
  CASE data.version = "live" -> data.engines = <<>> /\ ~data.pressure /\ data.checks # NoChecks
    [] data.version = "portability" -> data.engines # <<>> /\ data.checks = NoChecks
    [] OTHER -> FALSE

(* InspectBytes accepts data, or derives the summary from it: everything but *)
(* the fixed pressure prose, with the digest of the exact bytes.             *)
InspectBytesAccepts(data, at) ==
  /\ data # Malformed /\ validateReportShape(data)
  /\ IF data.version = "live" THEN validateLive(data, at)
     ELSE validatePortability(data, at, TRUE)

(* Mutant: the engine of a live report is left to its version. *)
SummaryWithoutEngine(data) ==
  [version |-> data.version, source |-> data, profileDigest |-> data.profileDigest,
   checkedAt |-> data.checkedAt, origin |-> data.origin, actions |-> data.actions,
   ok |-> data.ok, engine |-> "none", checks |-> data.checks, engines |-> data.engines]

SummaryOf(data) ==
  [version |-> data.version, source |-> data, profileDigest |-> data.profileDigest,
   checkedAt |-> data.checkedAt, origin |-> data.origin, actions |-> data.actions,
   ok |-> data.ok, engine |-> IF data.version = "live" THEN "chromium" ELSE "none",
   checks |-> data.checks, engines |-> data.engines]

ValidateSummary(s, at) ==
  CASE s.version = "live" ->
         s.engine = "chromium" /\ s.engines = <<>> /\ validateLive(s, at)
    [] s.version = "portability" ->
         s.engine = "none" /\ s.checks = NoChecks /\ validatePortability(s, at, FALSE)
    [] OTHER -> FALSE

-----------------------------------------------------------------------------
(* Reference: what a truthful checker writes.  For a requirement it saw the  *)
(* backend fail, or a number of matches, a navigation reached or not, and a  *)
(* type; for an engine such checks, a failed observation, or no engine.      *)
Observation ==
  [failed: BOOLEAN, matches: 0..MaxMatches, reached: BOOLEAN, type: OutputTypes \cup {"none"}]

TruthfulCheck(r, o) ==
  IF o.failed
  THEN [ok |-> FALSE, matches |-> o.matches, expected |-> "none", observed |-> "none",
        message |-> "closed"]
  ELSE LET c == [ok |-> FALSE, matches |-> o.matches, expected |-> r.output.type,
                 observed |-> IF r.kind = "output" THEN o.type ELSE "none", message |-> "none"]
           ok == CASE r.kind = "locator" -> o.matches = 1
                   [] r.kind = "navigation_wait" -> o.reached
                   [] r.kind = "output" -> OutputMatches(r.output, c)
       IN  [c EXCEPT !.ok = ok, !.message = Message(ok)]

Observed(checks, actions) ==
  /\ checks # NoChecks /\ DOMAIN checks = buildRequirements(actions)
  /\ \A r \in DOMAIN checks : \E o \in Observation : checks[r] = TruthfulCheck(r, o)

(* seen is "unavailable", "failed" or the checks that were made. *)
TruthfulEngine(engine, seen, checks, chromium) ==
  LET diagnostic ==
        IF seen = "unavailable" THEN "engine_unavailable"
        ELSE IF seen = "failed" THEN "browser_observation_failed"
        ELSE IF ~allChecksPass(checks) THEN "profile_check_failed"
        ELSE IF engine = "chromium" THEN "none"
        ELSE IF chromium = NoChecks THEN "chromium_baseline_unavailable"
        ELSE IF chromium # checks THEN "check_shape_mismatch" ELSE "none"
  IN  [engine |-> engine, diagnostic |-> diagnostic, checks |-> checks,
       status |-> CASE diagnostic = "none" -> "passed"
                    [] diagnostic = "engine_unavailable" -> "unavailable"
                    [] OTHER -> "failed"]

Truthful(data) ==
  /\ data.profileDigest = Profile.digest /\ data.origin \in Profile.origins
  /\ data.actions # {} /\ data.actions \subseteq DOMAIN Profile.actions
  /\ \/ /\ data.version = "live" /\ data.engines = <<>> /\ ~data.pressure
        /\ Observed(data.checks, data.actions)
        /\ data.ok = (\A r \in DOMAIN data.checks : data.checks[r].ok)
     \/ /\ data.version = "portability" /\ data.checks = NoChecks /\ data.pressure
        /\ [i \in DOMAIN data.engines |-> data.engines[i].engine] \in EngineOrders
        /\ \A i \in DOMAIN data.engines : LET e == data.engines[i] IN
             \E seen \in IF e.checks = NoChecks THEN {"unavailable", "failed"} ELSE {"checked"} :
               /\ e.checks # NoChecks => Observed(e.checks, data.actions)
               /\ e = TruthfulEngine(e.engine, seen, e.checks, data.engines[1].checks)
        /\ data.ok = (\A i \in DOMAIN data.engines : data.engines[i].status = "passed")
=============================================================================
