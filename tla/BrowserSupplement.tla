-------------------------- MODULE BrowserSupplement --------------------------
(***************************************************************************)
(* packagev3/browser.go: the browser supplement of a package, derived from *)
(* the workflow, the verified shapes and the human-reviewed permissions,   *)
(* and derived again when a package is verified.                           *)
(*                                                                         *)
(* A document's browser sources are a function from source id to           *)
(*   [kind, version, required, slots]                                      *)
(* the shape of the one flow or action they offer: its call kind, profile  *)
(* version (Protocols knows a pair for each), whether it needs a session, and *)
(* its credential slots.  The browser part of an operation is              *)
(*   [extension, bound, source, session, call, credentials, terms, input,  *)
(*    flat, timeout]                                                       *)
(* call is the profile version its call profile names, terms that the      *)
(* registration's duplicate, ambiguity and cleanup policies are the        *)
(* closed ones, timeout a timeout in seconds, 0 for none.                  *)
(***************************************************************************)
EXTENDS ExpressionContracts

CONSTANTS
  Identifiers,   \* the names authority.Identifier accepts
  MaxCalls,      \* 100 in the code
  MaxNames       \* 64 in the code

ASSUME IdentifiersAssumption == "" \notin Identifiers   \* an identifier is not empty

NoSession == ""
NoSource == "no source"
Fresh == [reuse |-> FALSE, save |-> FALSE]

(* browserCall of one step and operation: "none", "error" or a call.         *)
NoCall == [kind |-> "none"]
Failed == [kind |-> "error"]

AuthenticationVersions == {"authentication.1.0", "authentication.1.1"}
FirstRegistration == "registration.1.0"
RegistrationVersions == {FirstRegistration, "registration.1.1"}
Versions == AuthenticationVersions \cup RegistrationVersions \cup {"action.1.0"}

CallVersions(extension) ==
  IF extension = "authentication" THEN AuthenticationVersions ELSE RegistrationVersions

Extended(b) == b.extension \in {"authentication", "registration"}

(* The early returns before the source's shape is resolved. *)
Selection(d, b) ==
  CASE Extended(b) ->
         IF \/ b.bound \/ b.call \notin CallVersions(b.extension) \/ b.source \notin DOMAIN d.sources
            \/ (b.extension = "registration" /\ ~b.terms)
         THEN "error" ELSE "call"
    [] b.bound /\ ~Extended(b) ->
         IF b.source \notin DOMAIN d.sources THEN "none"
         ELSE IF b.extension \in {"none", "session"} THEN "call" ELSE "error"
    [] OTHER -> "none"

Session(b) == IF b.extension \in {"authentication", "session"} THEN b.session ELSE NoSession

(* Mutant: a session may be authenticated again. *)
SessionNamed(b, s, sessions) ==
  Session(b) \in Identifiers /\ b.call = s.version

(* The rules of each kind.  The kind is the shape's, never the extension's.  *)
SessionOpens(b, s, sessions) ==
  Session(b) \in Identifiers /\ Session(b) \notin DOMAIN sessions /\ b.call = s.version

RegistrationBinds(b, s) ==
  b.call = s.version /\ (s.version = FirstRegistration \/ b.input \in Identifiers)

SessionHeld(b, s, sessions) ==
  /\ s.required => Session(b) # NoSession
  /\ Session(b) # NoSession => Session(b) \in DOMAIN sessions

browserCall(d, step, sessions) ==
  LET b == d.operations[step.op].browser
      s == d.sources[b.source]
      named == Session(b)
      credentials == IF Extended(b) THEN b.credentials ELSE <<>>
  IN  IF Selection(d, b) # "call" THEN [kind |-> Selection(d, b)]
      ELSE IF /\ s.version \in Versions
              /\ s.kind = "authentication" => SessionOpens(b, s, sessions)
              /\ s.kind = "registration" => RegistrationBinds(b, s)
              /\ s.kind = "action" => SessionHeld(b, s, sessions)
              /\ DOMAIN credentials = s.slots
              /\ \A slot \in s.slots : credentials[slot] \in Identifiers
           THEN [kind |-> s.kind, step |-> step.id, op |-> step.op, source |-> b.source,
                 version |-> s.version, session |-> named,
                 authentication |-> IF s.kind = "action" /\ named # NoSession
                                    THEN sessions[named] ELSE NoSource,
                 credentials |-> credentials, reuse |-> FALSE, save |-> FALSE]
           ELSE Failed

(* A flat operation, or one whose only exception is the timeout of an        *)
(* authentication call of its own profile.                                   *)
flatBrowserOperation(b, call) ==
  /\ b.flat
  /\ b.timeout # 0 => /\ call.kind = "authentication" /\ b.extension = "authentication"
                      /\ b.call = call.version /\ b.timeout \in 1..600

PermissionFits(call) ==
  /\ call.reuse \/ call.save => call.session # NoSession /\ call.kind # "registration"
  /\ call.save => call.kind = "authentication"

-----------------------------------------------------------------------------
NoSupplement == [calls |-> <<>>, sources |-> <<>>, workflow |-> <<>>]
Refused == [calls |-> "refused"]

(* One step of the loop of deriveBrowserSupplement over the workflow.        *)
AddCall(d, permissions, acc, step) ==
  LET b == d.operations[step.op].browser
      plain == browserCall(d, step, acc.sessions)
      permission == IF step.id \in DOMAIN permissions THEN permissions[step.id] ELSE Fresh
      call == [plain EXCEPT !.reuse = permission.reuse, !.save = permission.save]
  IN  IF acc.failed \/ ~step.flat \/ step.when \/ step.op \in acc.used
         \/ step.op \notin DOMAIN d.operations
      THEN [acc EXCEPT !.failed = TRUE]
      ELSE IF plain = Failed \/ ~flatBrowserOperation(b, plain)
      THEN [acc EXCEPT !.failed = TRUE]
      ELSE IF plain = NoCall THEN [acc EXCEPT !.used = @ \cup {step.op}]
      ELSE [failed |-> ~PermissionFits(call), used |-> acc.used \cup {step.op},
            seen |-> IF step.id \in DOMAIN permissions THEN acc.seen \cup {step.id} ELSE acc.seen,
            sessions |-> IF call.kind = "authentication"
                         THEN With(acc.sessions, call.session, call.source)
                         ELSE acc.sessions,
            calls |-> Append(acc.calls, call)]

(* What the loop holds after each number of steps. *)
Loop(d, permissions) ==
  LET start == [failed |-> FALSE, used |-> {}, seen |-> {}, sessions |-> <<>>, calls |-> <<>>]
      after[n \in 0..Len(d.workflows[1].steps)] ==
        IF n = 0 THEN start ELSE AddCall(d, permissions, after[n - 1], d.workflows[1].steps[n])
  IN  after

deriveBrowserSupplement(d, permissions) ==
  LET end == Loop(d, permissions)[Len(d.workflows[1].steps)]
  IN  IF DOMAIN d.sources = {}
      THEN IF DOMAIN permissions = {} THEN NoSupplement ELSE Refused
      ELSE IF /\ Len(d.workflows) = 1 /\ ~end.failed
              /\ end.seen = DOMAIN permissions /\ Len(end.calls) \in 1..MaxCalls
              /\ end.used = DOMAIN d.operations
           THEN [calls |-> end.calls, sources |-> d.sources, workflow |-> d]
           ELSE Refused

(* The permissions a supplement itself grants, as verification reads them:   *)
(* only a step that was granted something may not be listed again.           *)
GrantedOnce(s) ==
  \A i, j \in DOMAIN s.calls :
    i < j /\ s.calls[i].step = s.calls[j].step => ~s.calls[i].reuse /\ ~s.calls[i].save
Granted(s) ==
  [step \in {s.calls[i].step : i \in DOMAIN s.calls} |->
     LET last == CHOOSE i \in DOMAIN s.calls :
                   s.calls[i].step = step /\ \A j \in DOMAIN s.calls :
                                               s.calls[j].step = step => j <= i
     IN  [reuse |-> s.calls[last].reuse, save |-> s.calls[last].save]]

(* Mutant: the calls of the package are believed. *)
SupplementBelieved(d, s) == s.workflow = d /\ GrantedOnce(s)

verifyBrowserSupplement(d, s) ==
  s # NoSupplement => GrantedOnce(s) /\ s = deriveBrowserSupplement(d, Granted(s))

-----------------------------------------------------------------------------
(* The call of the plan's leaf for an operation, and the credential names a  *)
(* handoff declares.                                                         *)
findBrowserCall(s, op) ==
  LET found == {i \in DOMAIN s.calls : s.calls[i].op = op}
  IN  IF found = {} THEN NoCall ELSE s.calls[CHOOSE i \in found : \A j \in found : i <= j]

CallNames(s) ==
  UNION {{s.calls[i].credentials[slot] : slot \in DOMAIN s.calls[i].credentials} :
           i \in DOMAIN s.calls}

mergeBrowserCredentials(names, s) == names \cup CallNames(s)

(* The bound is on the merged names of a supplement's package: without one   *)
(* the names are returned as they are.                                       *)
MergeFits(names, s) ==
  s # NoSupplement => Cardinality(mergeBrowserCredentials(names, s)) <= MaxNames
=============================================================================
