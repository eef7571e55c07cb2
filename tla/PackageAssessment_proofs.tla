---------------------- MODULE PackageAssessment_proofs ----------------------
(***************************************************************************)
(* Proofs about PackageAssessment, for every set of documents that fits    *)
(* its assumptions, every alphabet, depth and schema, every other          *)
(* producer's package and every response.                                  *)
(*                                                                         *)
(*   Induction, and the loops of the model                                 *)
(*   The browser supplement: what the loop of deriveBrowserSupplement      *)
(*     knows of its steps when it accepts them                             *)
(*   Sessions: SessionInv is inductive, SpecSessionBeforeUse               *)
(*   Values and schemas: what a schema says of a value is so below a path  *)
(*   Contracts: the equations of contract, and its outcomes                *)
(*   Evaluation, The outputs of one owner: a contract says what the value  *)
(*     will be                                                             *)
(*   Findings, What is found on a document: the outcome of the assessment  *)
(*     covers every reference that is evaluated                            *)
(*   The run of a verified package, The invariant: ContractInv is          *)
(*     inductive, SpecContractSound                                        *)
(***************************************************************************)
EXTENDS PackageAssessment, TLAPS, FiniteSetTheorems, WellFoundedInduction

-----------------------------------------------------------------------------
(* Induction, and the loops of the model. *)

(* A set of numbers that is not empty has a least one. *)
LEMMA Least ==
  ASSUME NEW T, T \subseteq Nat, T # {}
  PROVE  \E x \in T : \A y \in T : x <= y
<1>. DEFINE R == OpToRel(<, Nat)
<1>1. IsWellFoundedOn(R, Nat)
  BY NatLessThanWellFounded
<1>2. \E x \in T : \A y \in T : ~ (<<y, x>> \in R)
  <2>. HIDE DEF R
  <2>. QED  BY <1>1, WFMin
<1>3. PICK x \in T : \A y \in T : ~ (<<y, x>> \in R)
  BY <1>2
<1>4. ASSUME NEW y \in T PROVE x <= y
  <2>1. SUFFICES ASSUME y < x PROVE FALSE
    OBVIOUS
  <2>2. <<y, x>> \in R
    BY <2>1 DEF OpToRel
  <2>. QED  BY <2>2, <1>3
<1>. QED  BY <1>4

(* A set that has zero and with each number the next has every number. *)
LEMMA SetInduction ==
  ASSUME NEW S, 0 \in S, \A n \in Nat : n \in S => n + 1 \in S
  PROVE  Nat \subseteq S
<1>1. SUFFICES ASSUME Nat \ S # {} PROVE FALSE
  OBVIOUS
<1>2. PICK x \in Nat \ S : \A y \in Nat \ S : x <= y
  BY <1>1, Least
<1>3. x - 1 \in Nat /\ x - 1 \notin S
  OBVIOUS
<1>. QED  BY <1>2, <1>3

(* What the loop of deriveBrowserSupplement holds before its first step and  *)
(* after each of them.                                                       *)
NoCalls == [failed |-> FALSE, used |-> {}, seen |-> {}, sessions |-> <<>>, calls |-> <<>>]

LEMMA LoopLaw ==
  ASSUME NEW d, NEW p, NEW N \in Nat, N = Len(d.workflows[1].steps)
  PROVE  /\ Loop(d, p)[0] = NoCalls
         /\ \A n \in 1..N : Loop(d, p)[n] = AddCall(d, p, Loop(d, p)[n - 1], d.workflows[1].steps[n])
<1>. DEFINE Steps1 == d.workflows[1].steps
            Next1(acc, n) == AddCall(d, p, acc, Steps1[n])
            Run(f, k) == f = [i \in 0..k |-> IF i = 0 THEN NoCalls ELSE Next1(f[i - 1], i)]
            S == {k \in Nat : \E f : Run(f, k)}
<1>1. 0 \in S
  <2>. DEFINE f == [i \in 0..0 |-> NoCalls]
  <2>1. Run(f, 0)
    OBVIOUS
  <2>. QED  BY <2>1
<1>2. ASSUME NEW k \in Nat, k \in S PROVE k + 1 \in S
  <2>1. PICK f : Run(f, k)
    BY <1>2
  <2>. HIDE DEF Next1
  <2>. DEFINE g == [i \in 0..(k + 1) |-> IF i = k + 1 THEN Next1(f[k], i) ELSE f[i]]
              h == [i \in 0..(k + 1) |-> IF i = 0 THEN NoCalls ELSE Next1(g[i - 1], i)]
  <2>2. ASSUME NEW i \in 0..(k + 1) PROVE g[i] = h[i]
    <3>1. CASE i = k + 1
      BY <3>1
    <3>2. CASE i # k + 1
      <4>1. i \in 0..k /\ (i # 0 => i - 1 \in 0..k)
        BY <3>2
      <4>. QED  BY <4>1, <2>1
    <3>. QED  BY <3>1, <3>2
  <2>3. g = h
    BY <2>2, Zenon
  <2>4. Run(g, k + 1)
    BY <2>3
  <2>5. \E e : Run(e, k + 1)
    <3>. HIDE DEF g, Run
    <3>. QED  BY <2>4
  <2>. QED  BY <2>5
<1>3. N \in S
  <2>. HIDE DEF S
  <2>. QED  BY <1>1, <1>2, SetInduction
<1>4. Run(Loop(d, p), N)
  <2>1. Loop(d, p) = CHOOSE f : Run(f, N)
    BY DEF Loop, NoCalls
  <2>. HIDE DEF Run
  <2>. QED  BY <2>1, <1>3
<1>. HIDE DEF Next1
<1>5. Loop(d, p)[0] = NoCalls /\ \A n \in 1..N : Loop(d, p)[n] = Next1(Loop(d, p)[n - 1], n)
  <2>. DEFINE L == Loop(d, p)
  <2>. HIDE DEF L
  <2>1. L = [i \in 0..N |-> IF i = 0 THEN NoCalls ELSE Next1(L[i - 1], i)]
    BY <1>4 DEF L
  <2>2. \A n \in 0..N : L[n] = IF n = 0 THEN NoCalls ELSE Next1(L[n - 1], n)
    BY <2>1, Zenon
  <2>. QED  BY <2>2 DEF L
<1>. QED  BY <1>5 DEF Next1

-----------------------------------------------------------------------------
(* The browser supplement. *)

(* What the loop holds: five things. *)
IsAcc(acc) ==
  acc = [failed |-> acc.failed, used |-> acc.used, seen |-> acc.seen,
         sessions |-> acc.sessions, calls |-> acc.calls]

Permission(p, step) == IF step.id \in DOMAIN p THEN p[step.id] ELSE Fresh
Permitted(p, step, plain) ==
  [plain EXCEPT !.reuse = Permission(p, step).reuse, !.save = Permission(p, step).save]

SessionsAfter(sessions, call) ==
  IF call.kind = "authentication"
  THEN With(sessions, call.session, call.source) ELSE sessions

RoundAccepted(acc, step, plain, call, next) ==
  /\ ~acc.failed /\ ~step.when /\ step.op \notin acc.used /\ plain # Failed
  /\ IsAcc(next) /\ next.used = acc.used \cup {step.op}
  /\ plain = NoCall => next.sessions = acc.sessions /\ next.calls = acc.calls
  /\ plain # NoCall =>
       /\ PermissionFits(call) /\ next.calls = Append(acc.calls, call)
       /\ next.sessions = SessionsAfter(acc.sessions, call)

(* A round keeps the shape of what the loop holds. *)
LEMMA AddCallIsAcc ==
  ASSUME NEW d, NEW p, NEW acc, IsAcc(acc), NEW step
  PROVE  IsAcc(AddCall(d, p, acc, step))
<1>1. PICK f0, u0, n0, s0, c0 :
        acc = [failed |-> f0, used |-> u0, seen |-> n0, sessions |-> s0, calls |-> c0]
  BY DEF IsAcc
<1>2. ASSUME NEW v PROVE IsAcc([acc EXCEPT !.failed = v]) /\ IsAcc([acc EXCEPT !.used = v])
  BY <1>1 DEF IsAcc
<1>3. \A f, u, n, s, c :
        IsAcc([failed |-> f, used |-> u, seen |-> n, sessions |-> s, calls |-> c])
  BY DEF IsAcc
<1>. QED  BY <1>2, <1>3, Zenon DEF AddCall

(* A round of the loop that does not fail appends the step's call, if it has *)
(* one, and opens the session of an authentication.                          *)
LEMMA AddCallAccepts ==
  ASSUME NEW d, NEW p, NEW acc, IsAcc(acc), NEW step,
         NEW next, next = AddCall(d, p, acc, step), ~next.failed,
         NEW plain, plain = browserCall(d, step, acc.sessions),
         NEW call, call = Permitted(p, step, plain)
  PROVE  RoundAccepted(acc, step, plain, call, next)
<1>. DEFINE b == d.operations[step.op].browser
            refused == \/ acc.failed \/ ~step.flat \/ step.when \/ step.op \in acc.used
                       \/ step.op \notin DOMAIN d.operations
            odd == plain = Failed \/ ~flatBrowserOperation(b, plain)
            fits == PermissionFits(call)
            seen == IF step.id \in DOMAIN p THEN acc.seen \cup {step.id} ELSE acc.seen
            sessions == SessionsAfter(acc.sessions, call)
<1>1. next = IF refused THEN [acc EXCEPT !.failed = TRUE]
             ELSE IF odd THEN [acc EXCEPT !.failed = TRUE]
             ELSE IF plain = NoCall THEN [acc EXCEPT !.used = @ \cup {step.op}]
             ELSE [failed |-> ~fits, used |-> acc.used \cup {step.op}, seen |-> seen,
                   sessions |-> sessions, calls |-> Append(acc.calls, call)]
  BY DEF AddCall, Permitted, Permission, SessionsAfter
<1>. HIDE DEF refused, odd, fits, seen, sessions
<1>2. ~refused /\ ~odd
  BY <1>1 DEF IsAcc
<1>3. CASE plain = NoCall
  BY <1>1, <1>2, <1>3 DEF IsAcc, RoundAccepted, refused, odd
<1>4. CASE plain # NoCall
  <2>1. next = [failed |-> ~fits, used |-> acc.used \cup {step.op}, seen |-> seen,
                sessions |-> sessions, calls |-> Append(acc.calls, call)]
    BY <1>1, <1>2, <1>4
  <2>2. fits
    <3>1. fits \in BOOLEAN
      BY DEF fits, PermissionFits
    <3>2. ~next.failed /\ next.failed = ~fits
      BY <2>1
    <3>. QED  BY <3>1, <3>2
  <2>. QED  BY <1>2, <1>4, <2>1, <2>2 DEF IsAcc, RoundAccepted, refused, odd, fits, sessions
<1>. QED  BY <1>3, <1>4

(* What browserCall returns when it returns a call. *)
CallFits(d, step, sessions, call) ==
  LET b == d.operations[step.op].browser
      s == d.sources[b.source]
  IN  /\ b.source \in DOMAIN d.sources
      /\ call.kind = s.kind /\ call.op = step.op /\ call.source = b.source
      /\ call.session = Session(b)
      /\ call.authentication = (IF s.kind = "action" /\ Session(b) # NoSession
                                THEN sessions[Session(b)] ELSE NoSource)
      /\ s.kind = "authentication" =>
           Session(b) \in Identifiers /\ Session(b) \notin DOMAIN sessions
      /\ s.kind = "action" /\ Session(b) # NoSession => Session(b) \in DOMAIN sessions

CallKeys ==
  {"kind", "step", "op", "source", "version", "session", "authentication", "credentials",
   "reuse", "save"}

(* browserCall, read backwards: the call it returns fits the step. *)
LEMMA CallFields ==
  ASSUME NEW d, NEW step, NEW sessions,
         NEW call, call = browserCall(d, step, sessions), call # NoCall, call # Failed
  PROVE  CallFits(d, step, sessions, call) /\ DOMAIN call = CallKeys
<1>. DEFINE b == d.operations[step.op].browser
            s == d.sources[b.source]
            named == Session(b)
            credentials == IF Extended(b) THEN b.credentials ELSE <<>>
            passes == /\ s.version \in Versions
                      /\ s.kind = "authentication" => SessionOpens(b, s, sessions)
                      /\ s.kind = "registration" => RegistrationBinds(b, s)
                      /\ s.kind = "action" => SessionHeld(b, s, sessions)
                      /\ DOMAIN credentials = s.slots
                      /\ \A slot \in s.slots : credentials[slot] \in Identifiers
            made == [kind |-> s.kind, step |-> step.id, op |-> step.op, source |-> b.source,
                     version |-> s.version, session |-> named,
                     authentication |-> IF s.kind = "action" /\ named # NoSession
                                        THEN sessions[named] ELSE NoSource,
                     credentials |-> credentials, reuse |-> FALSE, save |-> FALSE]
<1>1. call = IF Selection(d, b) # "call" THEN [kind |-> Selection(d, b)]
             ELSE IF passes THEN made ELSE Failed
  BY Zenon DEF browserCall
<1>2. Selection(d, b) \in {"none", "error", "call"}
  BY DEF Selection
<1>3. Selection(d, b) = "call"
  BY <1>1, <1>2, Zenon DEF NoCall, Failed
<1>4. b.source \in DOMAIN d.sources
  BY <1>3 DEF Selection
<1>5. passes /\ call = made
  BY <1>1, <1>3, Zenon
<1>6. s.kind = "authentication" => named \in Identifiers /\ named \notin DOMAIN sessions
  BY <1>5, Zenon DEF SessionOpens
<1>7. s.kind = "action" /\ named # NoSession => named \in DOMAIN sessions
  BY <1>5, Zenon DEF SessionHeld
<1>8. /\ made.kind = s.kind /\ made.op = step.op /\ made.source = b.source /\ made.session = named
      /\ made.authentication = (IF s.kind = "action" /\ named # NoSession
                                THEN sessions[named] ELSE NoSource)
      /\ DOMAIN made = CallKeys
  <2>. HIDE DEF b, s, named, credentials
  <2>. QED  BY DEF CallKeys
<1>. HIDE DEF made, passes
<1>. QED  BY <1>4, <1>5, <1>6, <1>7, <1>8 DEF CallFits

(* The step at an index of the entry workflow, what browserCall makes of it  *)
(* and the call of the supplement.                                           *)
StepAt(d, i) == d.workflows[1].steps[i]
Plain(d, p, i) == browserCall(d, StepAt(d, i), Loop(d, p)[i - 1].sessions)
CallAt(d, p, i) == Permitted(p, StepAt(d, i), Plain(d, p, i))
CallSet(d, p) == {CallAt(d, p, i) : i \in 1..Len(d.workflows[1].steps)}

(* The loop got to n: no step before it has a condition or repeats an        *)
(* operation, and the calls are those of the steps.                          *)
StepAccepted(d, p, m) ==
  /\ ~StepAt(d, m).when /\ Plain(d, p, m) # Failed
  /\ \A l \in 1..(m - 1) : StepAt(d, l).op # StepAt(d, m).op
  /\ Plain(d, p, m) = NoCall => Loop(d, p)[m].sessions = Loop(d, p)[m - 1].sessions
  /\ Plain(d, p, m) # NoCall =>
       /\ PermissionFits(CallAt(d, p, m))
       /\ Loop(d, p)[m].sessions = SessionsAfter(Loop(d, p)[m - 1].sessions, CallAt(d, p, m))

CallsOfSteps(d, p, n) ==
  LET calls == Loop(d, p)[n].calls IN
  /\ calls \in Seq(CallSet(d, p))
  /\ \A k \in DOMAIN calls : \E m \in 1..n : calls[k] = CallAt(d, p, m) /\ Plain(d, p, m) # NoCall

LoopAccepted(d, p, n) ==
  LET acc == Loop(d, p)[n] IN
  /\ IsAcc(acc)
  /\ acc.used = {StepAt(d, m).op : m \in 1..n}
  /\ CallsOfSteps(d, p, n)
  /\ \A m \in 1..n : StepAccepted(d, p, m)

(* Whatever the steps are, the loop holds the same five things after each. *)
LEMMA LoopIsAcc ==
  ASSUME NEW d, NEW p, NEW N \in Nat, N = Len(d.workflows[1].steps)
  PROVE  \A n \in 0..N : IsAcc(Loop(d, p)[n])
<1>. DEFINE L == Loop(d, p)
            S == {n \in Nat : n <= N => IsAcc(L[n])}
<1>1. L[0] = NoCalls /\ \A n \in 1..N : L[n] = AddCall(d, p, L[n - 1], StepAt(d, n))
  BY LoopLaw, Zenon DEF StepAt
<1>. HIDE DEF L
<1>2. 0 \in S
  BY <1>1 DEF IsAcc, NoCalls
<1>3. ASSUME NEW n \in Nat, n \in S PROVE n + 1 \in S
  <2>. SUFFICES ASSUME n + 1 <= N PROVE IsAcc(L[n + 1])
    OBVIOUS
  <2>1. IsAcc(L[n]) /\ L[n + 1] = AddCall(d, p, L[n], StepAt(d, n + 1))
    BY <1>1, <1>3
  <2>. QED  BY <2>1, AddCallIsAcc
<1>. HIDE DEF S
<1>4. Nat \subseteq S
  BY <1>2, <1>3, SetInduction
<1>. QED  BY <1>4 DEF S, L

(* If the loop has not failed at the end, every step was accepted. *)
LEMMA LoopAccepts ==
  ASSUME NEW d, NEW p, NEW N \in Nat, N = Len(d.workflows[1].steps), ~Loop(d, p)[N].failed
  PROVE  LoopAccepted(d, p, N)
<1>. DEFINE L == Loop(d, p)
            S == {n \in Nat : n <= N /\ ~L[n].failed => LoopAccepted(d, p, n)}
<1>1. L[0] = NoCalls /\ \A n \in 1..N : L[n] = AddCall(d, p, L[n - 1], StepAt(d, n))
  BY LoopLaw, Zenon DEF StepAt
<1>. HIDE DEF L
<1>2. 0 \in S
  <2>. SUFFICES LoopAccepted(d, p, 0)
    OBVIOUS
  <2>1. IsAcc(L[0]) /\ L[0].used = {} /\ L[0].calls = <<>>
    BY <1>1 DEF IsAcc, NoCalls
  <2>. QED  BY <2>1 DEF LoopAccepted, CallsOfSteps, L
<1>3. ASSUME NEW n \in Nat, n \in S PROVE n + 1 \in S
  <2>. SUFFICES ASSUME n + 1 <= N, ~L[n + 1].failed PROVE LoopAccepted(d, p, n + 1)
    OBVIOUS
  <2>. DEFINE step == StepAt(d, n + 1)
              plain == Plain(d, p, n + 1)
              call == CallAt(d, p, n + 1)
  <2>1. L[n + 1] = AddCall(d, p, L[n], step)
    BY <1>1
  <2>2. plain = browserCall(d, step, L[n].sessions) /\ call = Permitted(p, step, plain)
    BY DEF Plain, CallAt, L
  <2>3. IsAcc(L[n])
    BY LoopIsAcc DEF L
  <2>4. /\ ~L[n].failed /\ ~step.when /\ step.op \notin L[n].used /\ plain # Failed
        /\ IsAcc(L[n + 1]) /\ L[n + 1].used = L[n].used \cup {step.op}
        /\ plain = NoCall => L[n + 1].sessions = L[n].sessions /\ L[n + 1].calls = L[n].calls
        /\ plain # NoCall =>
             /\ PermissionFits(call) /\ L[n + 1].calls = Append(L[n].calls, call)
             /\ L[n + 1].sessions = SessionsAfter(L[n].sessions, call)
    <3>. HIDE DEF step, plain, call
    <3>1. ~AddCall(d, p, L[n], step).failed
      BY <2>1
    <3>. DEFINE acc == L[n]
                next == L[n + 1]
    <3>2. IsAcc(acc) /\ next = AddCall(d, p, acc, step) /\ ~next.failed
      BY <2>1, <2>3
    <3>3. plain = browserCall(d, step, acc.sessions) /\ call = Permitted(p, step, plain)
      BY <2>2
    <3>. HIDE DEF acc, next
    <3>4. RoundAccepted(acc, step, plain, call, next)
      BY <3>2, <3>3, AddCallAccepts
    <3>. QED  BY <3>4 DEF RoundAccepted, acc, next
  <2>5. LoopAccepted(d, p, n)
    BY <1>3, <2>4
  <2>6. L[n + 1].used = {StepAt(d, m).op : m \in 1..(n + 1)}
    <3>1. L[n].used = {StepAt(d, m).op : m \in 1..n}
      BY <2>5 DEF LoopAccepted, L
    <3>2. 1..(n + 1) = (1..n) \cup {n + 1}
      OBVIOUS
    <3>. QED  BY <2>4, <3>1, <3>2
  <2>7. CallsOfSteps(d, p, n + 1)
    <3>1. CallsOfSteps(d, p, n)
      BY <2>5 DEF LoopAccepted
    <3>2. CASE plain = NoCall
      BY <3>1, <3>2, <2>4 DEF CallsOfSteps, L
    <3>3. CASE plain # NoCall
      <4>1. call \in CallSet(d, p)
        BY DEF CallSet
      <4>. DEFINE calls == L[n].calls
      <4>2. calls \in Seq(CallSet(d, p)) /\ L[n + 1].calls = Append(calls, call)
        BY <3>1, <3>3, <2>4 DEF CallsOfSteps, L
      <4>3. \A k \in DOMAIN calls : \E m \in 1..n : calls[k] = CallAt(d, p, m) /\ Plain(d, p, m) # NoCall
        BY <3>1 DEF CallsOfSteps, L
      <4>. HIDE DEF calls, call, plain
      <4>4. L[n + 1].calls \in Seq(CallSet(d, p))
        BY <4>1, <4>2
      <4>5. ASSUME NEW k \in DOMAIN L[n + 1].calls
            PROVE  \E m \in 1..(n + 1) : L[n + 1].calls[k] = CallAt(d, p, m) /\ Plain(d, p, m) # NoCall
        <5>1. CASE k \in DOMAIN calls
          <6>1. L[n + 1].calls[k] = calls[k]
            BY <5>1, <4>1, <4>2
          <6>2. PICK m \in 1..n : calls[k] = CallAt(d, p, m) /\ Plain(d, p, m) # NoCall
            BY <5>1, <4>3
          <6>. QED  BY <6>1, <6>2
        <5>2. CASE k \notin DOMAIN calls
          <6>1. L[n + 1].calls[k] = call
            BY <5>2, <4>1, <4>2
          <6>. QED  BY <6>1, <3>3 DEF call, plain
        <5>. QED  BY <5>1, <5>2
      <4>. QED  BY <4>4, <4>5 DEF CallsOfSteps, L
    <3>. QED  BY <3>2, <3>3
  <2>8. ASSUME NEW m \in 1..(n + 1) PROVE StepAccepted(d, p, m)
    <3>1. CASE m \in 1..n
      BY <3>1, <2>5 DEF LoopAccepted
    <3>2. CASE m = n + 1
      <4>1. \A l \in 1..n : StepAt(d, l).op # step.op
        BY <2>4, <2>5 DEF LoopAccepted, L
      <4>. QED  BY <3>2, <4>1, <2>4 DEF StepAccepted, L
    <3>. QED  BY <3>1, <3>2
  <2>. QED  BY <2>4, <2>6, <2>7, <2>8 DEF LoopAccepted, L
<1>. HIDE DEF S
<1>4. N \in S
  BY <1>2, <1>3, SetInduction
<1>. QED  BY <1>4 DEF S, L

(* A permission adds reuse and save to a call and changes nothing else. *)
LEMMA PermittedFields ==
  ASSUME NEW p, NEW step, NEW plain,
         {"kind", "op", "source", "session", "authentication", "credentials", "save"} \subseteq DOMAIN plain
  PROVE  LET call == Permitted(p, step, plain)
         IN  /\ call.kind = plain.kind /\ call.op = plain.op /\ call.source = plain.source
             /\ call.session = plain.session /\ call.authentication = plain.authentication
             /\ call.credentials = plain.credentials
  BY DEF Permitted

(* In a derived supplement the call found for the operation of a step is the *)
(* one that was made for the step.                                           *)
LEMMA FoundCall ==
  ASSUME NEW d, NEW p, NEW N \in Nat, N = Len(d.workflows[1].steps),
         NEW s, s = deriveBrowserSupplement(d, p), s # NoSupplement, s # Refused,
         NEW i \in 1..N, findBrowserCall(s, StepAt(d, i).op) # NoCall
  PROVE  /\ findBrowserCall(s, StepAt(d, i).op) = CallAt(d, p, i)
         /\ Plain(d, p, i) # NoCall /\ Plain(d, p, i) # Failed
         /\ StepAccepted(d, p, i)
         /\ \E k \in DOMAIN s.calls : s.calls[k] = CallAt(d, p, i)
<1>. DEFINE calls == s.calls
            op == StepAt(d, i).op
            found == {k \in DOMAIN calls : calls[k].op = op}
<1>1. ~Loop(d, p)[N].failed /\ s.calls = Loop(d, p)[N].calls
  BY DEF deriveBrowserSupplement
<1>2. LoopAccepted(d, p, N)
  BY <1>1, LoopAccepts
<1>3. /\ calls \in Seq(CallSet(d, p)) /\ \A m \in 1..N : StepAccepted(d, p, m)
      /\ \A k \in DOMAIN calls : \E m \in 1..N : calls[k] = CallAt(d, p, m) /\ Plain(d, p, m) # NoCall
  BY <1>1, <1>2 DEF LoopAccepted, CallsOfSteps
<1>4. findBrowserCall(s, op) =
        IF found = {} THEN NoCall ELSE calls[CHOOSE k \in found : \A j \in found : k <= j]
  BY DEF findBrowserCall
<1>5. found # {} /\ found \subseteq Nat
  <2>1. found # {}
    BY <1>4
  <2>2. DOMAIN calls \subseteq Nat
    BY <1>3
  <2>. QED  BY <2>1, <2>2
<1>. HIDE DEF calls, op
<1>6. PICK k \in found : findBrowserCall(s, op) = calls[k]
  <2>. HIDE DEF found
  <2>1. \E k \in found : \A j \in found : k <= j
    BY <1>5, Least
  <2>. QED  BY <2>1, <1>4, <1>5
<1>7. PICK m \in 1..N : calls[k] = CallAt(d, p, m) /\ Plain(d, p, m) # NoCall
  BY <1>3, <1>6
<1>8. Plain(d, p, m) # Failed /\ StepAccepted(d, p, m)
  BY <1>3 DEF StepAccepted
<1>9. CallAt(d, p, m).op = StepAt(d, m).op
  <2>. DEFINE plain == Plain(d, p, m)
  <2>1. plain = browserCall(d, StepAt(d, m), Loop(d, p)[m - 1].sessions)
    BY DEF Plain
  <2>2. plain # NoCall /\ plain # Failed
    BY <1>7, <1>8
  <2>. HIDE DEF plain
  <2>3. plain.op = StepAt(d, m).op /\ DOMAIN plain = CallKeys
    BY <2>1, <2>2, CallFields DEF CallFits
  <2>. QED  BY <2>3, PermittedFields DEF CallAt, CallKeys, plain
<1>10. m = i
  <2>1. StepAt(d, m).op = StepAt(d, i).op
    BY <1>6, <1>7, <1>9 DEF op
  <2>2. \A l \in 1..(i - 1) : StepAt(d, l).op # StepAt(d, i).op
    BY <1>3 DEF StepAccepted
  <2>3. \A l \in 1..(m - 1) : StepAt(d, l).op # StepAt(d, m).op
    BY <1>3 DEF StepAccepted
  <2>. QED  BY <2>1, <2>2, <2>3
<1>. QED  BY <1>1, <1>6, <1>7, <1>8, <1>10 DEF op, calls

(* The fields of an accepted step's call. *)
LEMMA AcceptedCall ==
  ASSUME NEW d, NEW p, NEW m, Plain(d, p, m) # NoCall, Plain(d, p, m) # Failed
  PROVE  CallFits(d, StepAt(d, m), Loop(d, p)[m - 1].sessions, CallAt(d, p, m))
<1>. DEFINE plain == Plain(d, p, m)
            sessions == Loop(d, p)[m - 1].sessions
            step == StepAt(d, m)
            call == CallAt(d, p, m)
<1>1. plain = browserCall(d, step, sessions)
  BY DEF Plain
<1>2. call = Permitted(p, step, plain)
  BY DEF CallAt
<1>. HIDE DEF plain, sessions, step, call
<1>3. CallFits(d, step, sessions, plain) /\ DOMAIN plain = CallKeys
  BY <1>1, CallFields DEF plain
<1>4. /\ call.kind = plain.kind /\ call.op = plain.op /\ call.source = plain.source
      /\ call.session = plain.session /\ call.authentication = plain.authentication
  BY <1>2, <1>3, PermittedFields DEF CallKeys
<1>5. CallFits(d, step, sessions, call)
  BY <1>3, <1>4 DEF CallFits
<1>. QED  BY <1>5 DEF step, sessions, call

(* The sessions that are open have names, and sources that exist. *)
SessionsFit(d, sessions) ==
  DOMAIN sessions \subseteq Identifiers /\ \A n \in DOMAIN sessions : sessions[n] \in DOMAIN d.sources

(* The sessions the loop has open are named and authenticated by known       *)
(* sources.                                                                  *)
LEMMA SessionsAreKnown ==
  ASSUME NEW d, NEW p, NEW N \in Nat, N = Len(d.workflows[1].steps), ~Loop(d, p)[N].failed
  PROVE  \A n \in 0..N : SessionsFit(d, Loop(d, p)[n].sessions)
<1>. DEFINE L == Loop(d, p)
            S == {n \in Nat : n <= N => SessionsFit(d, L[n].sessions)}
<1>1. \A m \in 1..N : StepAccepted(d, p, m)
  BY LoopAccepts DEF LoopAccepted
<1>2. 0 \in S
  <2>1. L[0].sessions = <<>>
    BY LoopLaw DEF NoCalls
  <2>. QED  BY <2>1 DEF SessionsFit
<1>3. ASSUME NEW n \in Nat, n \in S PROVE n + 1 \in S
  <2>. SUFFICES ASSUME n + 1 <= N PROVE SessionsFit(d, L[n + 1].sessions)
    OBVIOUS
  <2>. DEFINE call == CallAt(d, p, n + 1)
  <2>1. SessionsFit(d, L[n].sessions) /\ StepAccepted(d, p, n + 1)
    BY <1>1, <1>3
  <2>2. CASE Plain(d, p, n + 1) = NoCall
    BY <2>1, <2>2 DEF StepAccepted
  <2>3. CASE Plain(d, p, n + 1) # NoCall
    <3>1. L[n + 1].sessions = SessionsAfter(L[n].sessions, call)
      BY <2>1, <2>3 DEF StepAccepted
    <3>2. Plain(d, p, n + 1) # Failed
      BY <2>1 DEF StepAccepted
    <3>3. call.source \in DOMAIN d.sources /\ (call.kind = "authentication" => call.session \in Identifiers)
      BY <2>3, <3>2, AcceptedCall DEF CallFits
    <3>. HIDE DEF call, L
    <3>. QED  BY <2>1, <3>1, <3>3 DEF SessionsFit, SessionsAfter, With
  <2>. QED  BY <2>2, <2>3
<1>. HIDE DEF S
<1>4. Nat \subseteq S
  BY <1>2, <1>3, SetInduction
<1>. QED  BY <1>4 DEF S

-----------------------------------------------------------------------------
(* Sessions. *)

Checked == {"verified", "finished", "failed"}
IsSupplement(s) == DOMAIN s = {"calls", "sources", "workflow"}

(* Nothing runs before the package is verified, and what was verified stays: *)
(* its supplement is the one derived from its document.                      *)
NotStarted ==
  phase \notin Checked => ran = <<>> /\ skipped = {} /\ opened = <<>> /\ called = NoCall

(* A verified supplement and the handoff that declares its credentials. *)
Verified ==
  phase \in Checked =>
    /\ (supplement = NoSupplement) = (DOMAIN doc.sources = {})
    /\ handoff = mergeBrowserCredentials(doc.names, supplement)
    /\ verifyBrowserSupplement(doc, supplement)

(* The steps of a browser package run in their order, none is skipped, and   *)
(* the runtime's sessions are those of the loop that derived the supplement. *)
InOrder ==
  phase = "verified" /\ supplement # NoSupplement =>
    \E n \in 0..Len(Steps) :
      DOMAIN ran = 1..n /\ skipped = {} /\ opened = Loop(doc, Granted(supplement))[n].sessions

(* The inductive invariant.  SessionBeforeUse alone is not one: whether the  *)
(* next step's session is open depends on what ran before it, on the order   *)
(* of the steps, and on the supplement having been derived again.            *)
SessionInv ==
  /\ DocumentFits(doc) /\ IsSupplement(supplement)
  /\ NotStarted /\ Verified /\ InOrder /\ SessionBeforeUse

(* The builder's own shapes are the actual ones. *)
LEMMA BuiltFits ==
  ASSUME NEW d, DocumentFits(d)
  PROVE  DocumentFits(buildShapes(d))
<1>. DEFINE built(o) == IF o.kind = RuntimeSourceKind THEN o ELSE [o EXCEPT !.shape = o.actual]
            operations == [op \in DOMAIN d.operations |-> built(d.operations[op])]
            e == [d EXCEPT !.operations = operations]
<1>1. \A op \in DOMAIN d.operations : OperationFits(built(d.operations[op]))
  BY DEF DocumentFits, OperationFits
<1>. HIDE DEF built
<1>2. \A op \in DOMAIN operations : OperationFits(operations[op])
  BY <1>1
<1>3. DOMAIN operations = DOMAIN d.operations
  OBVIOUS
<1>. HIDE DEF operations
<1>4. e.operations = operations
  BY DEF DocumentFits
<1>5. /\ DOMAIN e = DOMAIN d
      /\ e.variables = d.variables /\ e.data = d.data /\ e.components = d.components
      /\ e.workflows = d.workflows /\ e.sources = d.sources /\ e.checks = d.checks /\ e.flow = d.flow
  BY DEF DocumentFits
<1>6. buildShapes(d) = e
  BY DEF buildShapes, operations, built
<1>. HIDE DEF e
<1>7. \A w \in DOMAIN d.workflows : \A i \in DOMAIN d.workflows[w].steps :
        StepFits(d, d.workflows[w].steps[i]) => StepFits(e, e.workflows[w].steps[i])
  BY <1>3, <1>4, <1>5 DEF StepFits
<1>. QED  BY <1>2, <1>3, <1>4, <1>5, <1>6, <1>7 DEF DocumentFits

(* Whatever another producer makes of a supplement has its three parts. *)
LEMMA SupplementIsOne ==
  /\ IsSupplement(NoSupplement)
  /\ \A d, p : deriveBrowserSupplement(d, p) # Refused =>
                 IsSupplement(deriveBrowserSupplement(d, p))
  /\ \A s : IsSupplement(s) => \A r \in Rewritten(s) : IsSupplement(r)
  /\ \A s, d : IsSupplement(s) => IsSupplement([s EXCEPT !.workflow = d])
<1>1. IsSupplement(NoSupplement)
  BY DEF IsSupplement, NoSupplement
<1>2. ASSUME NEW d, NEW p, deriveBrowserSupplement(d, p) # Refused
      PROVE  IsSupplement(deriveBrowserSupplement(d, p))
  BY <1>1, <1>2 DEF deriveBrowserSupplement, IsSupplement
<1>3. ASSUME NEW s, IsSupplement(s), NEW v
      PROVE  IsSupplement([s EXCEPT !.calls = v]) /\ IsSupplement([s EXCEPT !.workflow = v])
  BY <1>3 DEF IsSupplement
<1>4. ASSUME NEW s, IsSupplement(s), NEW r \in Rewritten(s) PROVE IsSupplement(r)
  <2>1. r = NoSupplement \/ \E v : r = [s EXCEPT !.calls = v]
    BY DEF Rewritten
  <2>2. ASSUME NEW v, r = [s EXCEPT !.calls = v] PROVE IsSupplement(r)
    BY <1>3, <1>4, <2>2
  <2>. QED  BY <1>1, <2>1, <2>2
<1>. QED  BY <1>1, <1>2, <1>3, <1>4

(* Nothing has been built, verified or run. *)
LEMMA SessionInit == Init => SessionInv
<1>. SUFFICES ASSUME Init PROVE SessionInv
  OBVIOUS
<1>1. phase = "authored" /\ supplement = NoSupplement /\ called = NoCall /\ doc \in Documents
      /\ ran = <<>> /\ skipped = {} /\ opened = <<>>
  BY DEF Init
<1>2. DocumentFits(doc)
  BY <1>1, DocumentsAssumption
<1>. QED  BY <1>1, <1>2, SupplementIsOne
       DEF SessionInv, NotStarted, Verified, InOrder, SessionBeforeUse, Checked

(* Nothing has run before Verify, whoever writes the package.                *)
LEMMA Unverified ==
  ASSUME SessionInv, phase \notin Checked, phase' \notin Checked, NotRun,
         DocumentFits(doc'), IsSupplement(supplement')
  PROVE  SessionInv'
<1>1. called' = NoCall /\ ran' = <<>> /\ skipped' = {} /\ opened' = <<>>
  BY DEF SessionInv, NotStarted, NotRun
<1>2. phase' # "verified"
  BY DEF Checked
<1>3. NotStarted' /\ Verified' /\ InOrder' /\ SessionBeforeUse'
  BY <1>1, <1>2 DEF NotStarted, Verified, InOrder, SessionBeforeUse
<1>. QED  BY <1>3 DEF SessionInv

(* Build: nothing has run yet, the document is the author's with its own     *)
(* shapes.                                                                   *)
LEMMA SessionBuild ==
  ASSUME SessionInv, NEW p, NEW v, Build(p, v)
  PROVE  SessionInv'
<1>. DEFINE d == buildShapes(doc)
            s == deriveBrowserSupplement(d, p)
            fits == verifyShapes(d, v) /\ s # Refused /\ MergeFits(d.names, s)
<1>1. DocumentFits(d)
  BY BuiltFits DEF SessionInv
<1>2. phase = "authored" /\ NotRun
      /\ IF fits THEN doc' = d /\ supplement' = s /\ phase' = "built"
                 ELSE phase' = "refused" /\ UNCHANGED <<doc, supplement>>
  BY DEF Build
<1>3. phase \notin Checked /\ phase' \notin Checked
  BY <1>2 DEF Checked
<1>4. DocumentFits(doc') /\ IsSupplement(supplement')
  <2>1. CASE fits
    BY <2>1, <1>1, <1>2, SupplementIsOne
  <2>2. CASE ~fits
    BY <2>2, <1>2 DEF SessionInv
  <2>. QED  BY <2>1, <2>2
<1>. QED  BY <1>2, <1>3, <1>4, Unverified

(* Another producer: nothing has run yet, and what it writes has the parts   *)
(* of a supplement.                                                          *)
LEMMA SessionReassemble ==
  ASSUME SessionInv, NEW d, NEW s, DocumentFits(d), IsSupplement(s), Reassemble(d, s)
  PROVE  SessionInv'
<1>1. phase = "built" /\ phase' = phase /\ NotRun /\ doc' = d /\ supplement' = s
  BY DEF Reassemble
<1>2. phase \notin Checked /\ phase' \notin Checked
  BY <1>1 DEF Checked
<1>. QED  BY <1>1, <1>2, Unverified

(* Verify: what is verified was derived again from the document and the      *)
(* permissions.                                                              *)
LEMMA SessionVerify ==
  ASSUME SessionInv, NEW v, Verify(v)
  PROVE  SessionInv'
<1>. DEFINE passes == /\ (supplement = NoSupplement) = (DOMAIN doc.sources = {})
                      /\ MergeFits(doc.names, supplement)
                      /\ handoff = mergeBrowserCredentials(doc.names, supplement)
                      /\ verifyShapes(doc, v)
                      /\ verifyBrowserSupplement(doc, supplement)
                      /\ assessment = Assess(doc, supplement)
<1>1. /\ phase = "built" /\ phase' = IF passes THEN "verified" ELSE "refused"
      /\ UNCHANGED <<doc, supplement, handoff, assessment>> /\ NotRun
  BY DEF Verify
<1>2. phase \notin Checked
  BY <1>1 DEF Checked
<1>3. CASE ~passes
  <2>1. phase' \notin Checked
    BY <1>1, <1>3 DEF Checked
  <2>. QED  BY <1>1, <1>2, <2>1, Unverified DEF SessionInv
<1>4. CASE passes
  <2>1. called' = NoCall /\ ran' = <<>> /\ skipped' = {} /\ opened' = <<>>
    BY <1>1, <1>2 DEF SessionInv, NotStarted, NotRun
  <2>2. NotStarted' /\ SessionBeforeUse'
    BY <2>1 DEF NotStarted, SessionBeforeUse
  <2>3. Verified'
    BY <1>1, <1>4 DEF Verified
  <2>4. InOrder'
    <3>. DEFINE L == Loop(doc, Granted(supplement))
    <3>1. Len(Steps) \in Nat
      BY DEF SessionInv, DocumentFits, Steps
    <3>2. L[0].sessions = <<>>
      <4>1. L[0] = NoCalls
        BY <3>1, LoopLaw, Zenon DEF Steps
      <4>. QED  BY <4>1 DEF NoCalls
    <3>3. InOrder' <=> (phase' = "verified" /\ supplement # NoSupplement =>
             \E n \in 0..Len(Steps) : DOMAIN ran' = 1..n /\ skipped' = {} /\ opened' = L[n].sessions)
      BY <1>1 DEF InOrder, Steps
    <3>. HIDE DEF L
    <3>4. DOMAIN ran' = 1..0 /\ skipped' = {} /\ opened' = L[0].sessions
      BY <2>1, <3>2
    <3>. QED  BY <3>1, <3>3, <3>4
  <2>. QED  BY <1>1, <2>2, <2>3, <2>4 DEF SessionInv
<1>. QED  BY <1>3, <1>4

(* A verified supplement is the one its loop derived, to the last step.      *)
LEMMA VerifiedSupplement ==
  ASSUME SessionInv, phase = "verified", supplement # NoSupplement
  PROVE  /\ supplement = deriveBrowserSupplement(doc, Granted(supplement)) /\ supplement # Refused
         /\ ~Loop(doc, Granted(supplement))[Len(Steps)].failed
         /\ Len(Steps) \in Nat /\ DOMAIN Steps = 1..Len(Steps)
         /\ handoff = mergeBrowserCredentials(doc.names, supplement)
<1>1. Verified /\ DocumentFits(doc) /\ IsSupplement(supplement)
  BY DEF SessionInv
<1>2. Len(Steps) \in Nat /\ DOMAIN Steps = 1..Len(Steps)
  BY <1>1 DEF DocumentFits, Steps
<1>3. supplement = deriveBrowserSupplement(doc, Granted(supplement))
      /\ handoff = mergeBrowserCredentials(doc.names, supplement)
  BY <1>1 DEF Verified, verifyBrowserSupplement, Checked
<1>4. supplement # Refused
  BY <1>1 DEF IsSupplement, Refused
<1>5. ~Loop(doc, Granted(supplement))[Len(Steps)].failed
  <2>. DEFINE p == Granted(supplement)
  <2>1. deriveBrowserSupplement(doc, p) # NoSupplement /\ deriveBrowserSupplement(doc, p) # Refused
    BY <1>3, <1>4
  <2>. HIDE DEF p
  <2>2. ~Loop(doc, p)[Len(Steps)].failed
    BY <2>1 DEF deriveBrowserSupplement, Steps
  <2>. QED  BY <2>2 DEF p
<1>. QED  BY <1>2, <1>3, <1>4, <1>5

(* What a step that is ready finds: the ones before it have run, and the     *)
(* supplement has its call.                                                  *)
CallReady(d, p, s, i) ==
  /\ findBrowserCall(s, StepAt(d, i).op) = CallAt(d, p, i)
  /\ CallFits(d, StepAt(d, i), Loop(d, p)[i - 1].sessions, CallAt(d, p, i))
  /\ SessionsFit(d, Loop(d, p)[i - 1].sessions)
  /\ ~StepAt(d, i).when /\ PermissionFits(CallAt(d, p, i))
  /\ Loop(d, p)[i].sessions = SessionsAfter(Loop(d, p)[i - 1].sessions, CallAt(d, p, i))
  /\ \E k \in DOMAIN s.calls : s.calls[k] = CallAt(d, p, i)

(* A step that is ready is the next one of the loop, and its call was        *)
(* accepted.                                                                 *)
LEMMA StepReady ==
  ASSUME SessionInv, supplement # NoSupplement, NEW i, Ready(i)
  PROVE  /\ CallReady(doc, Granted(supplement), supplement, i)
         /\ i \in 1..Len(Steps) /\ DOMAIN ran = 1..(i - 1) /\ skipped = {}
         /\ opened = Loop(doc, Granted(supplement))[i - 1].sessions
<1>. DEFINE p == Granted(supplement)
            N == Len(Steps)
<1>1. phase = "verified" /\ Planned /\ i \in DOMAIN Steps \ Done
      /\ (doc.workflows[1].type = "sequence" => \A j \in 1..(i - 1) : j \in Done)
  BY DEF Ready
<1>2. /\ supplement = deriveBrowserSupplement(doc, p) /\ supplement # Refused
      /\ ~Loop(doc, p)[N].failed /\ N \in Nat /\ DOMAIN Steps = 1..N
  BY <1>1, VerifiedSupplement
<1>3. doc.workflows[1].type = "sequence" /\ findBrowserCall(supplement, Steps[i].op) # NoCall
  BY <1>1 DEF Planned
<1>4. PICK n \in 0..N : DOMAIN ran = 1..n /\ skipped = {} /\ opened = Loop(doc, p)[n].sessions
  BY <1>1 DEF SessionInv, InOrder
<1>5. i \in 1..N /\ i = n + 1
  <2>1. Done = 1..n
    BY <1>4 DEF Done
  <2>2. i \in 1..N /\ i \notin 1..n /\ \A j \in 1..(i - 1) : j \in 1..n
    BY <1>1, <1>2, <1>3, <2>1
  <2>. QED  BY <1>4, <2>2
<1>6. CallReady(doc, p, supplement, i)
  <2>. HIDE DEF p
  <2>0. N = Len(doc.workflows[1].steps) /\ Steps[i] = StepAt(doc, i)
    BY DEF StepAt, Steps
  <2>. HIDE DEF N
  <2>1. /\ findBrowserCall(supplement, StepAt(doc, i).op) = CallAt(doc, p, i)
        /\ Plain(doc, p, i) # NoCall /\ Plain(doc, p, i) # Failed
        /\ StepAccepted(doc, p, i)
        /\ \E k \in DOMAIN supplement.calls : supplement.calls[k] = CallAt(doc, p, i)
    BY <1>2, <1>3, <1>5, <2>0, FoundCall
  <2>2. CallFits(doc, StepAt(doc, i), Loop(doc, p)[i - 1].sessions, CallAt(doc, p, i))
    BY <2>1, AcceptedCall
  <2>3. SessionsFit(doc, Loop(doc, p)[i - 1].sessions)
    <3>1. \A m \in 0..N : SessionsFit(doc, Loop(doc, p)[m].sessions)
      BY <1>2, <2>0, SessionsAreKnown
    <3>. QED  BY <3>1, <1>4, <1>5
  <2>. QED  BY <2>1, <2>2, <2>3 DEF CallReady, StepAccepted
<1>. QED  BY <1>4, <1>5, <1>6

(* The call the runtime makes of a ready step is the supplement's.           *)
AsReviewed(s, op, b, source, before) ==
  LET call == findBrowserCall(s, op) IN
  /\ call.kind = source.kind /\ call.source = b.source /\ call.session = Session(b)
  /\ source.kind = "authentication" => before = NoSource
  /\ source.kind = "action" => before = call.authentication
  /\ source.kind = "action" /\ Session(b) # NoSession => before # NoSource
  /\ call.save => source.kind = "authentication"
  /\ {call.credentials[slot] : slot \in DOMAIN call.credentials} \subseteq CallNames(s)

(* If the loop has the sessions the runtime has open, what the runtime       *)
(* does is the call.                                                         *)
LEMMA BrowserAsReviewed ==
  ASSUME NEW d, NEW p, NEW s, NEW i, CallReady(d, p, s, i), NoSource \notin DOMAIN d.sources,
         NEW open, open = Loop(d, p)[i - 1].sessions,
         NEW b, b = d.operations[StepAt(d, i).op].browser, NEW source, source = d.sources[b.source],
         NEW before, before = (IF Session(b) \in DOMAIN open THEN open[Session(b)] ELSE NoSource)
  PROVE  AsReviewed(s, StepAt(d, i).op, b, source, before)
<1>. DEFINE call == CallAt(d, p, i)
<1>1. /\ findBrowserCall(s, StepAt(d, i).op) = call /\ PermissionFits(call)
      /\ SessionsFit(d, open) /\ \E k \in DOMAIN s.calls : s.calls[k] = call
  BY Zenon DEF CallReady
<1>2. /\ call.kind = source.kind /\ call.source = b.source /\ call.session = Session(b)
      /\ call.authentication = (IF source.kind = "action" /\ Session(b) # NoSession
                                THEN open[Session(b)] ELSE NoSource)
      /\ source.kind = "authentication" => Session(b) \notin DOMAIN open
      /\ source.kind = "action" /\ Session(b) # NoSession => Session(b) \in DOMAIN open
  BY DEF CallReady, CallFits
<1>. HIDE DEF call
<1>3. NoSession \notin DOMAIN open /\ \A n \in DOMAIN open : open[n] # NoSource
  BY <1>1, IdentifiersAssumption DEF SessionsFit, NoSession
<1>4. {call.credentials[slot] : slot \in DOMAIN call.credentials} \subseteq CallNames(s)
  BY <1>1 DEF CallNames
<1>5. call.save => source.kind = "authentication"
  BY <1>1, <1>2 DEF PermissionFits
<1>. QED  BY <1>1, <1>2, <1>3, <1>4, <1>5, Zenon DEF AsReviewed

(* The runtime's sessions after an authentication are the loop's.            *)
LEMMA OpenedAsReviewed ==
  ASSUME NEW d, NEW p, NEW s, NEW i, CallReady(d, p, s, i),
         NEW open, open = Loop(d, p)[i - 1].sessions,
         NEW b, b = d.operations[StepAt(d, i).op].browser, NEW source, source = d.sources[b.source]
  PROVE  Loop(d, p)[i].sessions =
           IF source.kind = "authentication" THEN With(open, b.session, b.source) ELSE open
<1>. DEFINE call == CallAt(d, p, i)
<1>1. /\ Loop(d, p)[i].sessions = SessionsAfter(open, call)
      /\ call.kind = source.kind /\ call.source = b.source /\ call.session = Session(b)
      /\ source.kind = "authentication" => Session(b) \in Identifiers
  BY DEF CallReady, CallFits
<1>. HIDE DEF call
<1>2. CASE source.kind # "authentication"
  BY <1>1, <1>2 DEF SessionsAfter
<1>3. CASE source.kind = "authentication"
  <2>1. Session(b) = b.session
    BY <1>1, <1>3, IdentifiersAssumption DEF Session, NoSession
  <2>. QED  BY <1>1, <1>3, <2>1 DEF SessionsAfter
<1>. QED  BY <1>2, <1>3

(* What a step leaves alone, and what it does when its package has a browser. *)
LEMMA RunStepEffect ==
  ASSUME NEW i, NEW response, RunStep(i, response)
  PROVE  LET b == doc.operations[Steps[i].op].browser
             source == doc.sources[b.source]
         IN  /\ Ready(i) /\ UNCHANGED <<doc, supplement, handoff, assessment, skipped>>
             /\ phase' \in {phase, "failed"}
             /\ \/ phase' = "failed" /\ UNCHANGED <<called, opened>>
                \/ /\ DOMAIN ran' = DOMAIN ran \cup {i}
                   /\ IF b.source \in DOMAIN doc.sources
                      THEN /\ called' = Browser(Steps[i].op, b, source)
                           /\ opened' = IF source.kind = "authentication"
                                        THEN With(opened, b.session, b.source) ELSE opened
                      ELSE UNCHANGED <<called, opened>>
  BY Zenon DEF RunStep, With

(* A step runs: its browser operation is the supplement's call, its          *)
(* session the loop's.                                                       *)
LEMMA SessionRun ==
  ASSUME SessionInv, NEW i, NEW response, RunStep(i, response)
  PROVE  SessionInv'
<1>. DEFINE b == doc.operations[Steps[i].op].browser
            source == doc.sources[b.source]
            p == Granted(supplement)
            failed == phase' = "failed" /\ UNCHANGED <<called, opened>>
            browser == b.source \in DOMAIN doc.sources
            done == /\ DOMAIN ran' = DOMAIN ran \cup {i}
                    /\ IF browser
                       THEN /\ called' = Browser(Steps[i].op, b, source)
                            /\ opened' = IF source.kind = "authentication"
                                         THEN With(opened, b.session, b.source) ELSE opened
                       ELSE UNCHANGED <<called, opened>>
<1>1. /\ Ready(i) /\ UNCHANGED <<doc, supplement, handoff, assessment, skipped>>
      /\ phase' \in {phase, "failed"} /\ (failed \/ done)
  BY RunStepEffect, Zenon
<1>. HIDE DEF failed, done
<1>2. phase = "verified" /\ phase' \in Checked /\ phase \in Checked
  <2>1. phase = "verified"
    BY <1>1 DEF Ready
  <2>2. phase' \in {phase, "failed"}
    BY <1>1
  <2>. QED  BY <2>1, <2>2 DEF Checked
<1>3. NotStarted' /\ Verified'
  BY <1>1, <1>2 DEF SessionInv, NotStarted, Verified
<1>4. called' = called => SessionBeforeUse'
  BY <1>1 DEF SessionInv, SessionBeforeUse
<1>5. CASE failed
  BY <1>1, <1>3, <1>4, <1>5 DEF SessionInv, InOrder, failed
<1>6. CASE done /\ supplement = NoSupplement
  <2>1. DOMAIN doc.sources = {}
    BY <1>2, <1>6 DEF SessionInv, Verified
  <2>2. called' = called
    BY <1>6, <2>1 DEF done
  <2>. QED  BY <1>1, <1>3, <1>4, <1>6, <2>2 DEF SessionInv, InOrder
<1>7. CASE done /\ supplement # NoSupplement
  <2>1. /\ CallReady(doc, p, supplement, i)
        /\ i \in 1..Len(Steps) /\ DOMAIN ran = 1..(i - 1) /\ skipped = {}
        /\ opened = Loop(doc, p)[i - 1].sessions
    BY <1>1, <1>7, StepReady
  <2>2. Steps[i] = StepAt(doc, i)
    BY DEF Steps, StepAt
  <2>3. browser
    BY <2>1, <2>2 DEF CallReady, CallFits
  <2>. DEFINE left == IF source.kind = "authentication"
                      THEN With(opened, b.session, b.source) ELSE opened
              seen == Browser(Steps[i].op, b, source)
  <2>6. opened' = left /\ called' = seen
    <3>. HIDE DEF left, seen, browser
    <3>. QED  BY <1>7, <2>3, Zenon DEF done, left, seen
  <2>4. SessionBeforeUse'
    <3>. DEFINE call == findBrowserCall(supplement, Steps[i].op)
                before == IF Session(b) \in DOMAIN opened THEN opened[Session(b)] ELSE NoSource
    <3>1. NoSource \notin DOMAIN doc.sources
      BY DEF SessionInv, DocumentFits
    <3>2. AsReviewed(supplement, Steps[i].op, b, source, before)
      <4>1. b = doc.operations[StepAt(doc, i).op].browser /\ source = doc.sources[b.source]
        BY <2>2
      <4>. HIDE DEF b, source, p
      <4>. QED  BY <2>1, <2>2, <3>1, <4>1, BrowserAsReviewed
    <3>3. CallNames(supplement) \subseteq handoff
      BY <1>2 DEF SessionInv, Verified, mergeBrowserCredentials
    <3>4. /\ called'.op = Steps[i].op /\ called'.kind = source.kind /\ called'.source = b.source
          /\ called'.session = Session(b) /\ called'.before = before
      <4>1. /\ seen.op = Steps[i].op /\ seen.kind = source.kind /\ seen.source = b.source
            /\ seen.session = Session(b) /\ seen.before = before
        <5>. HIDE DEF b, source, p
        <5>. QED  BY DEF Browser
      <4>. HIDE DEF seen, before, b, source
      <4>. QED  BY <2>6, <4>1
    <3>5. findBrowserCall(supplement', called'.op) = call /\ handoff' = handoff
      BY <1>1, <3>4
    <3>. HIDE DEF call, before, b, source
    <3>. QED  BY <3>2, <3>3, <3>4, <3>5 DEF SessionBeforeUse, AsReviewed, call
  <2>5. InOrder'
    <3>1. opened' = Loop(doc, p)[i].sessions
      <4>1. Loop(doc, p)[i].sessions = left
        <5>1. b = doc.operations[StepAt(doc, i).op].browser /\ source = doc.sources[b.source]
          BY <2>2
        <5>. HIDE DEF b, source, p
        <5>. QED  BY <2>1, <5>1, OpenedAsReviewed
      <4>. HIDE DEF left, p
      <4>. QED  BY <2>6, <4>1, Zenon
    <3>2. DOMAIN ran' = 1..i /\ skipped' = {}
      <4>1. DOMAIN ran' = (1..(i - 1)) \cup {i} /\ skipped' = {}
        BY <1>1, <1>7, <2>1, Zenon DEF done
      <4>2. i \in Nat \ {0}
        BY <2>1
      <4>. QED  BY <4>1, <4>2
    <3>3. i \in 0..Len(Steps) /\ Steps' = Steps
      BY <1>1, <2>1 DEF Steps
    <3>. QED  BY <1>1, <3>1, <3>2, <3>3 DEF InOrder
  <2>. QED  BY <1>1, <1>3, <2>4, <2>5 DEF SessionInv
<1>. QED  BY <1>1, <1>5, <1>6, <1>7

(* No step of a browser package has a condition. *)
LEMMA SessionSkip ==
  ASSUME SessionInv, NEW i, SkipStep(i)
  PROVE  SessionInv'
<1>1. /\ Ready(i) /\ Steps[i].when /\ UNCHANGED <<doc, supplement, handoff, phase, opened, called>>
      /\ phase = "verified"
  BY DEF SkipStep, Ready
<1>2. supplement = NoSupplement
  <2>1. SUFFICES ASSUME supplement # NoSupplement PROVE FALSE
    OBVIOUS
  <2>2. ~StepAt(doc, i).when
    BY <1>1, <2>1, StepReady DEF CallReady
  <2>. QED  BY <1>1, <2>2 DEF Steps, StepAt
<1>3. NotStarted'
  BY <1>1 DEF NotStarted, Checked
<1>. QED  BY <1>1, <1>2, <1>3 DEF SessionInv, Verified, InOrder, SessionBeforeUse

(* Finish: no browser operation runs. *)
LEMMA SessionFinish ==
  ASSUME SessionInv, Finish
  PROVE  SessionInv'
<1>1. /\ phase = "verified" /\ phase' \in {"finished", "failed"}
      /\ UNCHANGED <<doc, supplement, handoff, ran, skipped, opened, called>>
  BY DEF Finish
<1>. QED  BY <1>1 DEF SessionInv, NotStarted, Verified, InOrder, SessionBeforeUse, Checked

(* In every state a package that runs has the supplement Verify derived, and *)
(* the runtime has the sessions open that deriveBrowserSupplement counted    *)
(* for the steps that have run.                                              *)
THEOREM SessionInvariant == Spec => []SessionInv
<1>1. ASSUME SessionInv, [Next]_vars PROVE SessionInv'
  <2>1. ASSUME NEW p \in Permissions, NEW v \in Verifiers, Build(p, v) PROVE SessionInv'
    BY <1>1, <2>1, SessionBuild
  <2>2. ASSUME NEW d \in Revisions, NEW s \in {supplement, [supplement EXCEPT !.workflow = d]},
               Reassemble(d, s)
        PROVE  SessionInv'
    <3>1. DocumentFits(d)
      BY AssessmentAssumption, DocumentsAssumption
    <3>2. IsSupplement(s)
      BY <1>1, SupplementIsOne DEF SessionInv
    <3>. QED  BY <1>1, <2>2, <3>1, <3>2, SessionReassemble
  <2>3. ASSUME NEW s \in Rewritten(supplement), Reassemble(doc, s) PROVE SessionInv'
    <3>1. DocumentFits(doc) /\ IsSupplement(s)
      BY <1>1, SupplementIsOne DEF SessionInv
    <3>. QED  BY <1>1, <2>3, <3>1, SessionReassemble
  <2>4. ASSUME NEW v \in Verifiers, Verify(v) PROVE SessionInv'
    BY <1>1, <2>4, SessionVerify
  <2>5. ASSUME NEW i \in DOMAIN Steps, NEW r, RunStep(i, r) PROVE SessionInv'
    BY <1>1, <2>5, SessionRun
  <2>6. ASSUME NEW i \in DOMAIN Steps, SkipStep(i) PROVE SessionInv'
    BY <1>1, <2>6, SessionSkip
  <2>7. CASE Finish
    BY <1>1, <2>7, SessionFinish
  <2>8. CASE UNCHANGED vars
    BY <1>1, <2>8 DEF vars, SessionInv, NotStarted, Verified, InOrder, SessionBeforeUse, Steps,
       IsSupplement
  <2>. QED  BY <1>1, <2>1, <2>2, <2>3, <2>4, <2>5, <2>6, <2>7, <2>8 DEF Next
<1>. QED  BY SessionInit, <1>1, PTL DEF Spec

(* In a verified package every browser operation that runs is described by   *)
(* its supplement as it happens: its kind, source, session, the source that  *)
(* authenticated the session, and the credentials the handoff declares       *)
(* (deriveBrowserSupplement, verifyBrowserSupplement).                       *)
THEOREM SpecSessionBeforeUse == Spec => []SessionBeforeUse
<1>1. SessionInv => SessionBeforeUse
  BY DEF SessionInv
<1>. QED  BY <1>1, SessionInvariant, PTL

-----------------------------------------------------------------------------
(* Values and schemas. *)

Value == Values \cup {Absent}

(* What is below a value on a path: the value itself, and after each name    *)
(* the field of that name.                                                   *)
LEMMA LookupLaw ==
  ASSUME NEW value, NEW path, NEW N \in Nat, N = Len(path)
  PROVE  \E below : /\ below[0] = value /\ below[N] = lookupLiteral(value, path)
                    /\ \A n \in 1..N : below[n] = Field(below[n - 1], path[n])
<1>. DEFINE Next1(x, n) == Field(x, path[n])
            Run(f, k) == f = [i \in 0..k |-> IF i = 0 THEN value ELSE Next1(f[i - 1], i)]
            S == {k \in Nat : \E f : Run(f, k)}
<1>1. 0 \in S
  <2>. DEFINE f == [i \in 0..0 |-> value]
  <2>1. Run(f, 0)
    OBVIOUS
  <2>. QED  BY <2>1
<1>2. ASSUME NEW k \in Nat, k \in S PROVE k + 1 \in S
  <2>1. PICK f : Run(f, k)
    BY <1>2
  <2>. HIDE DEF Next1
  <2>. DEFINE g == [i \in 0..(k + 1) |-> IF i = k + 1 THEN Next1(f[k], i) ELSE f[i]]
              h == [i \in 0..(k + 1) |-> IF i = 0 THEN value ELSE Next1(g[i - 1], i)]
  <2>2. ASSUME NEW i \in 0..(k + 1) PROVE g[i] = h[i]
    <3>1. CASE i = k + 1
      BY <3>1
    <3>2. CASE i # k + 1
      <4>1. i \in 0..k /\ (i # 0 => i - 1 \in 0..k)
        BY <3>2
      <4>. QED  BY <4>1, <2>1
    <3>. QED  BY <3>1, <3>2
  <2>3. g = h
    BY <2>2, Zenon
  <2>4. Run(g, k + 1)
    BY <2>3
  <2>5. \E e : Run(e, k + 1)
    <3>. HIDE DEF g, Run
    <3>. QED  BY <2>4
  <2>. QED  BY <2>5
<1>3. N \in S
  <2>. HIDE DEF S
  <2>. QED  BY <1>1, <1>2, SetInduction
<1>. DEFINE L == CHOOSE f : Run(f, N)
<1>4. Run(L, N)
  <2>. HIDE DEF Run
  <2>. QED  BY <1>3
<1>5. lookupLiteral(value, path) = L[N]
  BY DEF lookupLiteral
<1>. HIDE DEF Next1, L
<1>6. \A n \in 0..N : L[n] = IF n = 0 THEN value ELSE Next1(L[n - 1], n)
  BY <1>4, Zenon
<1>7. L[0] = value /\ \A n \in 1..N : L[n] = Next1(L[n - 1], n)
  BY <1>6
<1>. QED  BY <1>5, <1>7 DEF Next1

(* What is below a schema on a path: the schema itself, and after each       *)
(* name its property.                                                        *)
LEMMA ChildLaw ==
  ASSUME NEW schema, NEW path, NEW N \in Nat, N = Len(path)
  PROVE  \E below :
           /\ below[0] = schema
           /\ childContract(schema, path) =
                IF below[N].kind # "known" THEN below[N]
                ELSE IF below[N].value = Absent THEN Nothing ELSE literalContract(below[N].value)
           /\ \A n \in 1..N : below[n] = Property(below[n - 1], path[n])
<1>. DEFINE Next1(x, n) == Property(x, path[n])
            Run(f, k) == f = [i \in 0..k |-> IF i = 0 THEN schema ELSE Next1(f[i - 1], i)]
            S == {k \in Nat : \E f : Run(f, k)}
<1>1. 0 \in S
  <2>. DEFINE f == [i \in 0..0 |-> schema]
  <2>1. Run(f, 0)
    OBVIOUS
  <2>. QED  BY <2>1
<1>2. ASSUME NEW k \in Nat, k \in S PROVE k + 1 \in S
  <2>1. PICK f : Run(f, k)
    BY <1>2
  <2>. HIDE DEF Next1
  <2>. DEFINE g == [i \in 0..(k + 1) |-> IF i = k + 1 THEN Next1(f[k], i) ELSE f[i]]
              h == [i \in 0..(k + 1) |-> IF i = 0 THEN schema ELSE Next1(g[i - 1], i)]
  <2>2. ASSUME NEW i \in 0..(k + 1) PROVE g[i] = h[i]
    <3>1. CASE i = k + 1
      BY <3>1
    <3>2. CASE i # k + 1
      <4>1. i \in 0..k /\ (i # 0 => i - 1 \in 0..k)
        BY <3>2
      <4>. QED  BY <4>1, <2>1
    <3>. QED  BY <3>1, <3>2
  <2>3. g = h
    BY <2>2, Zenon
  <2>4. Run(g, k + 1)
    BY <2>3
  <2>5. \E e : Run(e, k + 1)
    <3>. HIDE DEF g, Run
    <3>. QED  BY <2>4
  <2>. QED  BY <2>5
<1>3. N \in S
  <2>. HIDE DEF S
  <2>. QED  BY <1>1, <1>2, SetInduction
<1>. DEFINE L == CHOOSE f : Run(f, N)
<1>4. Run(L, N)
  <2>. HIDE DEF Run
  <2>. QED  BY <1>3
<1>5. childContract(schema, path) =
        IF L[N].kind # "known" THEN L[N]
        ELSE IF L[N].value = Absent THEN Nothing ELSE literalContract(L[N].value)
  BY DEF childContract
<1>. HIDE DEF Next1, L
<1>6. \A n \in 0..N : L[n] = IF n = 0 THEN schema ELSE Next1(L[n - 1], n)
  BY <1>4, Zenon
<1>7. L[0] = schema /\ \A n \in 1..N : L[n] = Next1(L[n - 1], n)
  BY <1>6
<1>. QED  BY <1>5, <1>7 DEF Next1

(* Nothing is looked up on an empty path. *)
LEMMA LookupEmpty ==
  ASSUME NEW value PROVE lookupLiteral(value, <<>>) = value
<1>1. PICK below : below[0] = value /\ below[0] = lookupLiteral(value, <<>>)
  BY LookupLaw
<1>. QED  BY <1>1

(* The field of a value is a value, or absent. *)
LEMMA FieldIsValue ==
  ASSUME NEW v \in Value, NEW name PROVE Field(v, name) \in Value
  BY DataAssumption DEF Field, Value, Absent

(* What is looked up in a value is a value, or absent. *)
LEMMA LookupIsValue ==
  ASSUME NEW v \in Value, NEW path \in Seq(STRING) PROVE lookupLiteral(v, path) \in Value
<1>. DEFINE N == Len(path)
<1>1. PICK below : /\ below[0] = v /\ below[N] = lookupLiteral(v, path)
                   /\ \A n \in 1..N : below[n] = Field(below[n - 1], path[n])
  BY LookupLaw
<1>. DEFINE S == {n \in Nat : n <= N => below[n] \in Value}
<1>2. 0 \in S
  BY <1>1
<1>3. ASSUME NEW n \in Nat, n \in S PROVE n + 1 \in S
  <2>. SUFFICES ASSUME n + 1 <= N PROVE below[n + 1] \in Value
    OBVIOUS
  <2>1. below[n] \in Value /\ below[n + 1] = Field(below[n], path[n + 1])
    BY <1>1, <1>3
  <2>. QED  BY <2>1, FieldIsValue
<1>4. Nat \subseteq S
  <2>. HIDE DEF S
  <2>. QED  BY <1>2, <1>3, SetInduction
<1>. QED  BY <1>1, <1>4

(* One name, and then the rest of the path. *)
LEMMA LookupShift ==
  ASSUME NEW v, NEW path \in Seq(STRING), path # <<>>
  PROVE  lookupLiteral(v, path) = lookupLiteral(Field(v, Head(path)), Tail(path))
<1>. DEFINE N == Len(path)
<1>0. N \in Nat \ {0} /\ Len(Tail(path)) = N - 1 /\ Head(path) = path[1]
      /\ \A n \in 1..(N - 1) : Tail(path)[n] = path[n + 1]
  OBVIOUS
<1>1. PICK long : /\ long[0] = v /\ long[N] = lookupLiteral(v, path)
                  /\ \A n \in 1..N : long[n] = Field(long[n - 1], path[n])
  BY LookupLaw
<1>2. PICK short : /\ short[0] = Field(v, Head(path))
                   /\ short[N - 1] = lookupLiteral(Field(v, Head(path)), Tail(path))
                   /\ \A n \in 1..(N - 1) : short[n] = Field(short[n - 1], Tail(path)[n])
  <2>. DEFINE w == Field(v, Head(path))
              rest == Tail(path)
  <2>1. N - 1 \in Nat /\ N - 1 = Len(rest)
    BY <1>0
  <2>. HIDE DEF w, rest
  <2>2. \E short : /\ short[0] = w /\ short[N - 1] = lookupLiteral(w, rest)
                   /\ \A n \in 1..(N - 1) : short[n] = Field(short[n - 1], rest[n])
    BY <2>1, LookupLaw
  <2>. QED  BY <2>2 DEF w, rest
<1>. DEFINE S == {n \in Nat : n <= N - 1 => short[n] = long[n + 1]}
<1>3. 0 \in S
  BY <1>0, <1>1, <1>2
<1>4. ASSUME NEW n \in Nat, n \in S PROVE n + 1 \in S
  <2>. SUFFICES ASSUME n + 1 <= N - 1 PROVE short[n + 1] = long[(n + 1) + 1]
    OBVIOUS
  <2>1. short[n + 1] = Field(short[n], path[n + 2])
    BY <1>0, <1>2
  <2>2. long[n + 2] = Field(long[n + 1], path[n + 2])
    BY <1>0, <1>1
  <2>3. short[n] = long[n + 1]
    BY <1>0, <1>4
  <2>. QED  BY <2>1, <2>2, <2>3
<1>5. Nat \subseteq S
  <2>. HIDE DEF S
  <2>. QED  BY <1>3, <1>4, SetInduction
<1>6. short[N - 1] = long[N]
  BY <1>0, <1>5
<1>. QED  BY <1>1, <1>2, <1>6

(* What a schema says of a value: that it conforms, or, for the schema that  *)
(* admits none, that there is no value; an unknown schema says nothing.      *)
Says(schema, v) ==
  schema # Unknown =>
    \/ schema = Nothing /\ v = Absent
    \/ schema \in Schemas /\ v \in Values /\ Conforms(v, schema)

(* And what a schema on the way down a path says: a known value is itself.   *)
SaysBelow(schema, v) ==
  \/ schema.kind = "known" /\ schema.value = v /\ v \in Value
  \/ schema.kind # "known" /\ Says(schema, v)

(* The schemas of contracts are none of the intermediate results of          *)
(* childContract.                                                            *)
LEMMA SchemasAreNotKnown ==
  /\ Unknown.kind # "known" /\ Nothing.kind # "known" /\ Unknown # Nothing
  /\ \A s \in Schemas : s.kind # "known"
  BY DataAssumption DEF Unknown, Nothing, SchemaKinds

(* One name down: what a schema's property says of a value's field is so. *)
LEMMA PropertySays ==
  ASSUME NEW schema, NEW v, NEW name, SaysBelow(schema, v)
  PROVE  SaysBelow(Property(schema, name), Field(v, name))
<1>1. \A w \in Value : SaysBelow(Known(w), w)
  BY DEF SaysBelow, Known
<1>2. \A w : SaysBelow(Unknown, w)
  BY SchemasAreNotKnown DEF SaysBelow, Says
<1>3. CASE schema.kind = "known"
  <2>1. schema.value = v /\ v \in Value
    BY <1>3 DEF SaysBelow
  <2>2. Property(schema, name) = Known(Field(v, name))
    BY <1>3, <2>1 DEF Property
  <2>. QED  BY <1>1, <2>1, <2>2, FieldIsValue
<1>4. CASE schema = Unknown \/ schema = Nothing
  <2>1. Property(schema, name) = Unknown
    BY <1>4 DEF Property, Unknown, Nothing
  <2>. QED  BY <1>2, <2>1
<1>5. CASE schema.kind # "known" /\ schema # Unknown /\ schema # Nothing
  <2>1. schema \in Schemas /\ v \in Values /\ Conforms(v, schema)
    BY <1>5 DEF SaysBelow, Says
  <2>2. Admits(schema, v)
    BY <2>1, DataAssumption
  <2>3. CASE schema.kind = "const" /\ schema.sound
    <3>1. v = schema.value
      BY <2>2, <2>3 DEF Admits
    <3>2. Property(schema, name) = Known(Field(v, name))
      BY <2>3, <3>1 DEF Property
    <3>. QED  BY <1>1, <2>1, <3>2, FieldIsValue DEF Value
  <2>4. CASE schema.kind = "object" /\ ~schema.restricted
    <3>1. /\ v.kind = "container" /\ schema.required \subseteq DOMAIN v.fields
          /\ \A f \in DOMAIN v.fields :
               IF f \in DOMAIN schema.properties
               THEN Conforms(v.fields[f], schema.properties[f]) ELSE ~schema.closed
      BY <2>2, <2>4 DEF Admits
    <3>2. CASE name \notin DOMAIN schema.properties /\ schema.closed
      <4>1. Property(schema, name) = Known(Absent)
        BY <2>4, <3>2 DEF Property
      <4>2. Field(v, name) = Absent
        BY <3>1, <3>2 DEF Field
      <4>. QED  BY <1>1, <4>1, <4>2 DEF Value
    <3>3. CASE name \notin DOMAIN schema.properties /\ ~schema.closed
      <4>1. Property(schema, name) = Unknown
        BY <2>4, <3>3 DEF Property
      <4>. QED  BY <1>2, <4>1
    <3>4. CASE name \in DOMAIN schema.properties /\ name \in schema.required
      <4>1. Property(schema, name) = schema.properties[name]
        BY <2>4, <3>4 DEF Property
      <4>2. Field(v, name) = v.fields[name] /\ name \in DOMAIN v.fields
        BY <3>1, <3>4 DEF Field
      <4>3. v.fields[name] \in Values /\ schema.properties[name] \in Schemas
        BY <2>1, <2>4, <3>1, <3>4, <4>2, DataAssumption
      <4>4. Conforms(v.fields[name], schema.properties[name])
        BY <3>1, <3>4, <4>2
      <4>. QED  BY <4>1, <4>2, <4>3, <4>4, SchemasAreNotKnown DEF SaysBelow, Says
    <3>5. CASE name \in DOMAIN schema.properties /\ name \notin schema.required
      <4>1. Property(schema, name) = Unknown
        BY <2>4, <3>5 DEF Property
      <4>. QED  BY <1>2, <4>1
    <3>. QED  BY <3>2, <3>3, <3>4, <3>5
  <2>5. CASE ~(schema.kind = "const" /\ schema.sound) /\ ~(schema.kind = "object" /\ ~schema.restricted)
    <3>1. Property(schema, name) = Unknown
      BY <1>5, <2>5 DEF Property
    <3>. QED  BY <1>2, <3>1
  <2>. QED  BY <2>3, <2>4, <2>5
<1>. QED  BY <1>3, <1>4, <1>5

(* The literal of a value says that value. *)
LEMMA LiteralSays ==
  ASSUME NEW v \in Values PROVE Says(literalContract(v), v)
<1>1. Const(v, TRUE) \in Schemas /\ Conforms(v, Const(v, TRUE))
  <2>1. Const(v, TRUE) \in Schemas
    BY DataAssumption
  <2>2. Admits(Const(v, TRUE), v)
    BY DEF Admits, Const
  <2>. QED  BY <2>1, <2>2, DataAssumption
<1>. QED  BY <1>1 DEF literalContract, Says

(* childContract: if a schema says what a value is, the schema it finds      *)
(* below a path says what is below the value on the path, absence included.  *)
THEOREM ChildSays ==
  ASSUME NEW schema, NEW v, NEW path \in Seq(STRING), schema # Unknown, Says(schema, v)
  PROVE  Says(childContract(schema, path), lookupLiteral(v, path))
<1>. DEFINE N == Len(path)
<1>1. PICK x : /\ x[0] = v /\ x[N] = lookupLiteral(v, path)
               /\ \A n \in 1..N : x[n] = Field(x[n - 1], path[n])
  BY LookupLaw
<1>2. PICK s : /\ s[0] = schema
               /\ childContract(schema, path) =
                    IF s[N].kind # "known" THEN s[N]
                    ELSE IF s[N].value = Absent THEN Nothing ELSE literalContract(s[N].value)
               /\ \A n \in 1..N : s[n] = Property(s[n - 1], path[n])
  BY ChildLaw
<1>. DEFINE S == {n \in Nat : n <= N => SaysBelow(s[n], x[n])}
<1>3. 0 \in S
  BY <1>1, <1>2, SchemasAreNotKnown DEF SaysBelow, Says
<1>4. ASSUME NEW n \in Nat, n \in S PROVE n + 1 \in S
  <2>. SUFFICES ASSUME n + 1 <= N PROVE SaysBelow(s[n + 1], x[n + 1])
    OBVIOUS
  <2>1. x[n + 1] = Field(x[n], path[n + 1]) /\ s[n + 1] = Property(s[n], path[n + 1])
    BY <1>1, <1>2
  <2>2. SaysBelow(s[n], x[n])
    BY <1>4
  <2>. QED  BY <2>1, <2>2, PropertySays
<1>5. Nat \subseteq S
  <2>. HIDE DEF S
  <2>. QED  BY <1>3, <1>4, SetInduction
<1>6. SaysBelow(s[N], x[N])
  BY <1>5
<1>7. CASE s[N].kind # "known"
  BY <1>1, <1>2, <1>6, <1>7 DEF SaysBelow
<1>8. CASE s[N].kind = "known"
  <2>1. s[N].value = x[N] /\ x[N] \in Value
    BY <1>6, <1>8 DEF SaysBelow
  <2>2. CASE x[N] = Absent
    BY <1>1, <1>2, <1>8, <2>1, <2>2 DEF Says
  <2>3. CASE x[N] # Absent
    BY <1>1, <1>2, <1>8, <2>1, <2>3, LiteralSays DEF Value
  <2>. QED  BY <2>2, <2>3
<1>. QED  BY <1>7, <1>8

-----------------------------------------------------------------------------
(* Contracts. *)

(* A contract is sound for a value if a compatible one says what it is.      *)
Sound(c, v) == c.status = "compatible" => c.schema # Unknown /\ Says(c.schema, v)

(* A proved schema that says what the value is makes a sound contract. *)
LEMMA ProvedSound ==
  ASSUME NEW schema, NEW v, Says(schema, v)
  PROVE  Sound(Proved(schema), v)
  BY DEF Sound, Proved, Contract

(* So is the contract below it on a path; below a scalar it is incompatible. *)
LEMMA BelowSound ==
  ASSUME NEW d, NEW c, NEW v, NEW path \in Seq(STRING), NEW op, Sound(c, v)
  PROVE  Sound(Below(d, c, path, op), lookupLiteral(v, path))
<1>1. CASE c.status # "compatible"
  BY <1>1 DEF Below, Sound
<1>2. CASE c.status = "compatible" /\ BelowScalar(d, c.schema, path, op)
  <2>1. Below(d, c, path, op).status = "incompatible"
    BY <1>2 DEF Below, Contract
  <2>. QED  BY <2>1 DEF Sound
<1>3. CASE c.status = "compatible" /\ ~BelowScalar(d, c.schema, path, op)
  <2>1. Below(d, c, path, op) = Proved(childContract(c.schema, path))
    BY <1>3 DEF Below
  <2>2. Says(childContract(c.schema, path), lookupLiteral(v, path))
    BY <1>3, ChildSays DEF Sound
  <2>. QED  BY <2>1, <2>2, ProvedSound
<1>. QED  BY <1>1, <1>2, <1>3

(* A contract that is not compatible says nothing. *)
LEMMA NotCompatibleSound ==
  /\ \A v : Sound(Indeterminate, v) /\ Sound(Incompatible, v)
  /\ \A schema, v : Sound(Contract(schema, "incompatible"), v)
  BY DEF Sound, Indeterminate, Incompatible, Contract

(* The step outputs and the outputs a call can lead to are calls again.      *)
LEMMA FrameFields ==
  ASSUME NEW r \in Expressions, NEW s \in Scopes, NEW active \in SUBSET (STRING \X STRING),
         NEW depth \in Nat
  PROVE  LET f == Frame(r, s, active, depth)
         IN  f \in Frames /\ f.ref = r /\ f.scope = s /\ f.active = active /\ f.depth = depth
  BY DEF Frame, Frames

(* A call is made of its four parts. *)
LEMMA FrameOfFields ==
  ASSUME NEW f \in Frames PROVE f = Frame(f.ref, f.scope, f.active, f.depth)
  BY DEF Frame, Frames

(* Output names are names, and outputs are expressions. *)
LEMMA Names ==
  /\ OutputNames \subseteq STRING \ {NoName}
  /\ \A m \in OutputMaps : DOMAIN m \subseteq OutputNames /\ \A n \in DOMAIN m : m[n] \in Expressions
<1>1. OutputNames \subseteq STRING \ {NoName}
  BY ExpressionsAssumption DEF OutputNames
<1>2. ASSUME NEW m \in OutputMaps
      PROVE  DOMAIN m \subseteq OutputNames /\ \A n \in DOMAIN m : m[n] \in Expressions
  <2>1. PICK names \in SUBSET OutputNames : m \in [names -> Expressions]
    BY DEF OutputMaps
  <2>. QED  BY <2>1
<1>. QED  BY <1>1, <1>2

(* The scope of a step's own output. *)
LEMMA StepIsScope ==
  ASSUME NEW d, DocumentFits(d), NEW w \in DOMAIN d.workflows, NEW i \in DOMAIN d.workflows[w].steps,
         NEW outputs \in OutputMaps, NEW name \in OutputNames
  PROVE  Scope(w, i, d.workflows[w].steps[i].op, outputs, name) \in Scopes
<1>1. w \in Nat /\ i \in Nat
  BY DEF DocumentFits
<1>2. d.workflows[w].steps[i].op \in STRING
  BY DEF DocumentFits, StepFits
<1>. QED  BY <1>1, <1>2 DEF Scope, Scopes

(* The call to the contract of a step's output. *)
LEMMA StepFrame ==
  ASSUME NEW d, DocumentFits(d), NEW w \in DOMAIN d.workflows, NEW i \in DOMAIN d.workflows[w].steps,
         NEW step, step = d.workflows[w].steps[i], NEW name \in DOMAIN step.outputs,
         NEW active \in SUBSET (STRING \X STRING), NEW depth \in Nat
  PROVE  Frame(step.outputs[name], Scope(w, i, step.op, step.outputs, name),
               active \cup {<<step.id, name>>}, depth) \in Frames
<1>1. step.id \in STRING /\ step.outputs \in OutputMaps
  BY DEF DocumentFits, StepFits
<1>2. name \in OutputNames /\ name \in STRING /\ step.outputs[name] \in Expressions
  BY <1>1, Names
<1>3. Scope(w, i, step.op, step.outputs, name) \in Scopes
  BY <1>1, <1>2, StepIsScope
<1>4. active \cup {<<step.id, name>>} \in SUBSET (STRING \X STRING)
  BY <1>1, <1>2
<1>. QED  BY <1>2, <1>3, <1>4, FrameFields

(* The call to the contract of an output of the same owner. *)
LEMMA OutputFrame ==
  ASSUME NEW s \in Scopes, NEW name \in DOMAIN s.outputs,
         NEW active \in SUBSET (STRING \X STRING), NEW depth \in Nat
  PROVE  Frame(s.outputs[name], [s EXCEPT !.outputName = name], active, depth) \in Frames
<1>1. s.outputs \in OutputMaps
  BY DEF Scopes
<1>2. name \in OutputNames /\ s.outputs[name] \in Expressions
  BY <1>1, Names
<1>3. [s EXCEPT !.outputName = name] \in Scopes
  BY <1>2 DEF Scopes
<1>. QED  BY <1>2, <1>3, FrameFields

(* A call depends on the contracts of deeper calls only. *)
CallOf(d, known, f) == Call(d, known, f.ref, f.scope, f.active, f.depth)

(* The contract of a reference to a step depends on deeper contracts only. *)
LEMMA StepAgrees ==
  ASSUME NEW d, DocumentFits(d), NEW f \in Frames, NEW k, NEW l,
         \A g \in Frames : g.depth > f.depth => k[g] = l[g]
  PROVE  StepContract(d, k, f.ref, f.scope, f.active, f.depth)
           = StepContract(d, l, f.ref, f.scope, f.active, f.depth)
<1>. DEFINE r == f.ref
            s == f.scope
            active == f.active
            depth == f.depth
            workflow == d.workflows[s.workflow]
            targets == {i \in DOMAIN workflow.steps : workflow.steps[i].id = r.step}
            target == CHOOSE i \in targets : TRUE
            step == workflow.steps[target]
            name == r.name
<1>1. active \in SUBSET (STRING \X STRING) /\ depth \in Nat
  BY DEF Frames
<1>2. CASE s.workflow \notin DOMAIN d.workflows \/ Cardinality(targets) # 1
  BY <1>2, Zenon DEF StepContract
<1>3. CASE s.workflow \in DOMAIN d.workflows /\ Cardinality(targets) = 1
  <2>1. targets # {}
    <3>1. Cardinality({}) = 0
      BY FS_EmptySet
    <3>. HIDE DEF targets
    <3>. QED  BY <1>3, <3>1
  <2>2. target \in targets /\ target \in DOMAIN workflow.steps
    BY <2>1, Zenon
  <2>. DEFINE out(h) == output(d, h, name, s.workflow, target, active, depth + 1)
              deeper == Frame(step.outputs[name], Scope(s.workflow, target, step.op, step.outputs, name),
                              active \cup {<<step.id, name>>}, (depth + 1) + 1)
  <2>3. \A h : out(h) = IF name \notin DOMAIN step.outputs \/ <<step.id, name>> \in active
                        THEN Incompatible ELSE h[deeper]
    BY DEF output
  <2>4. out(k) = out(l)
    <3>1. CASE name \in DOMAIN step.outputs
      <4>1. deeper \in Frames
        <5>1. (depth + 1) + 1 \in Nat
          BY <1>1
        <5>. HIDE DEF s, target, active, depth, name
        <5>. QED  BY <1>1, <1>3, <2>2, <3>1, <5>1, StepFrame
      <4>2. deeper.depth > depth
        BY <1>1 DEF Frame
      <4>3. k[deeper] = l[deeper]
        BY <4>1, <4>2, Zenon
      <4>. HIDE DEF deeper, out
      <4>. QED  BY <2>3, <4>3, Zenon
    <3>2. CASE name \notin DOMAIN step.outputs
      BY <2>3, <3>2, Zenon
    <3>. QED  BY <3>1, <3>2, Zenon
  <2>5. \A h : StepContract(d, h, r, s, active, depth) =
                IF workflow.type # "sequence" \/ ~step.flat \/ step.when THEN Indeterminate
                ELSE IF ~RunsEarlier(target, s.step) THEN Incompatible
                ELSE Below(d, out(h), r.path, step.op)
    BY <1>3, Zenon DEF StepContract
  <2>. HIDE DEF out, step, target, targets, workflow
  <2>. QED  BY <2>4, <2>5
<1>. QED  BY <1>2, <1>3

(* And so does the one of a reference to an output. *)
LEMMA OutputAgrees ==
  ASSUME NEW d, NEW f \in Frames, NEW k, NEW l,
         \A g \in Frames : g.depth > f.depth => k[g] = l[g]
  PROVE  OutputContract(d, k, f.ref, f.scope, f.active, f.depth)
           = OutputContract(d, l, f.ref, f.scope, f.active, f.depth)
<1>. DEFINE name == f.ref.name
            s == f.scope
            deeper == Frame(s.outputs[name], [s EXCEPT !.outputName = name], f.active, f.depth + 1)
<1>1. CASE name \in DOMAIN s.outputs
  <2>1. s \in Scopes /\ f.active \in SUBSET (STRING \X STRING) /\ f.depth + 1 \in Nat /\ f.depth \in Nat
    BY DEF Frames
  <2>2. deeper \in Frames
    <3>. HIDE DEF s
    <3>. QED  BY <1>1, <2>1, OutputFrame
  <2>3. deeper.depth > f.depth
    BY <2>1 DEF Frame
  <2>4. k[deeper] = l[deeper]
    BY <2>2, <2>3
  <2>. QED  BY <2>4 DEF OutputContract
<1>2. CASE name \notin DOMAIN s.outputs
  BY <1>2 DEF OutputContract
<1>. QED  BY <1>1, <1>2

(* So two maps of contracts that agree below a call agree on the call. *)
LEMMA CallAgrees ==
  ASSUME NEW d, DocumentFits(d), NEW f \in Frames, NEW k, NEW l,
         \A g \in Frames : g.depth > f.depth => k[g] = l[g]
  PROVE  CallOf(d, k, f) = CallOf(d, l, f)
<1>1. StepContract(d, k, f.ref, f.scope, f.active, f.depth)
        = StepContract(d, l, f.ref, f.scope, f.active, f.depth)
  BY StepAgrees
<1>2. OutputContract(d, k, f.ref, f.scope, f.active, f.depth)
        = OutputContract(d, l, f.ref, f.scope, f.active, f.depth)
  BY OutputAgrees
<1>. QED  BY <1>1, <1>2 DEF CallOf, Call

(* The contracts of every call, as a map. *)
Contracts(d) == [f \in Frames |-> contract(d, f.ref, f.scope, f.active, f.depth)]

(* The recursion of contract has a solution, whatever cycles the references  *)
(* make: the depth grows with each call and ends at MaxDepth, so a contract  *)
(* is one call on the contracts of the calls it makes.                       *)
THEOREM ContractLaw ==
  ASSUME NEW d, DocumentFits(d)
  PROVE  \A f \in Frames : Contracts(d)[f] = CallOf(d, Contracts(d), f)
<1>. DEFINE Solves(k) == k = [f \in Frames |-> CallOf(d, k, f)]
            S == {m \in Nat : \E k : \A f \in Frames :
                                f.depth > MaxDepth - m => k[f] = CallOf(d, k, f)}
<1>0. MaxDepth \in Nat /\ \A f \in Frames : f.depth \in Nat
  BY DepthAssumption DEF Frames
<1>1. 0 \in S
  <2>. DEFINE k == [f \in Frames |-> Indeterminate]
  <2>1. ASSUME NEW f \in Frames, f.depth > MaxDepth - 0 PROVE k[f] = CallOf(d, k, f)
    <3>1. ~(f.depth <= MaxDepth) /\ f.depth > MaxDepth
      BY <1>0, <2>1
    <3>2. CallOf(d, k, f) = Indeterminate
      BY <3>1 DEF CallOf, Call
    <3>. QED  BY <3>2
  <2>. HIDE DEF k
  <2>. QED  BY <2>1
<1>2. ASSUME NEW m \in Nat, m \in S PROVE m + 1 \in S
  <2>1. PICK k : \A f \in Frames : f.depth > MaxDepth - m => k[f] = CallOf(d, k, f)
    BY <1>2
  <2>. DEFINE l == [f \in Frames |-> IF f.depth > MaxDepth - m THEN k[f] ELSE CallOf(d, k, f)]
  <2>2. ASSUME NEW f \in Frames, f.depth > MaxDepth - (m + 1) PROVE l[f] = CallOf(d, l, f)
    <3>1. ASSUME NEW g \in Frames, g.depth > f.depth PROVE k[g] = l[g]
      <4>1. g.depth > MaxDepth - m
        BY <1>0, <2>2, <3>1
      <4>. QED  BY <4>1
    <3>. HIDE DEF l
    <3>2. CallOf(d, k, f) = CallOf(d, l, f)
      BY <3>1, CallAgrees
    <3>3. l[f] = CallOf(d, k, f)
      BY <2>1 DEF l
    <3>. QED  BY <3>2, <3>3
  <2>. HIDE DEF l
  <2>. QED  BY <2>2
<1>3. MaxDepth + 1 \in S
  <2>. HIDE DEF S
  <2>1. Nat \subseteq S
    BY <1>1, <1>2, SetInduction
  <2>. QED  BY <1>0, <2>1
<1>4. PICK k : \A f \in Frames : k[f] = CallOf(d, k, f)
  <2>1. \A f \in Frames : f.depth > MaxDepth - (MaxDepth + 1)
    BY <1>0
  <2>. QED  BY <1>3, <2>1
<1>5. \E l : Solves(l)
  <2>. DEFINE l == [f \in Frames |-> CallOf(d, k, f)]
              h == [f \in Frames |-> CallOf(d, l, f)]
  <2>1. \A g \in Frames : k[g] = l[g]
    BY <1>4
  <2>. HIDE DEF l
  <2>2. \A f \in Frames : CallOf(d, k, f) = CallOf(d, l, f)
    BY <2>1, CallAgrees
  <2>3. l = h
    BY <2>2 DEF l
  <2>. HIDE DEF h, Solves
  <2>4. Solves(l)
    BY <2>3 DEF Solves, h
  <2>. QED  BY <2>4
<1>. DEFINE K == CHOOSE l : Solves(l)
<1>6. Solves(K)
  <2>. HIDE DEF Solves
  <2>. QED  BY <1>5
<1>7. \A r, s, a, n : contract(d, r, s, a, n) = K[Frame(r, s, a, n)]
  BY DEF contract, CallOf
<1>. HIDE DEF K
<1>8. \A f \in Frames : Contracts(d)[f] = K[f]
  BY <1>7, FrameOfFields DEF Contracts
<1>9. \A f \in Frames : CallOf(d, Contracts(d), f) = CallOf(d, K, f)
  <2>. DEFINE C == Contracts(d)
  <2>1. \A f \in Frames : C[f] = K[f]
    BY <1>8
  <2>. HIDE DEF C
  <2>2. \A f \in Frames : CallOf(d, C, f) = CallOf(d, K, f)
    BY <2>1, CallAgrees
  <2>. QED  BY <2>2 DEF C
<1>10. \A f \in Frames : K[f] = CallOf(d, K, f)
  BY <1>6, Zenon
<1>. QED  BY <1>8, <1>9, <1>10

(* Where a reference to a step's output leads: nowhere, or to the output of  *)
(* the only step of that id, which runs, and runs earlier.                   *)
StepLeads(d, f, i, g) ==
  LET workflow == d.workflows[f.scope.workflow]
      step == workflow.steps[i]
  IN  /\ f.scope.workflow \in DOMAIN d.workflows /\ workflow.type = "sequence"
      /\ i \in DOMAIN workflow.steps
      /\ \A j \in DOMAIN workflow.steps : workflow.steps[j].id = f.ref.step <=> j = i
      /\ ~step.when /\ RunsEarlier(i, f.scope.step) /\ f.ref.name \in DOMAIN step.outputs
      /\ g = Frame(step.outputs[f.ref.name],
                   Scope(f.scope.workflow, i, step.op, step.outputs, f.ref.name), g.active, g.depth)
      /\ g \in Frames /\ g.depth > f.depth

StepCase(d, k, f, c) ==
  \/ c \in {Indeterminate, Incompatible}
  \/ \E i, g : StepLeads(d, f, i, g)
               /\ c = Below(d, k[g], f.ref.path, d.workflows[f.scope.workflow].steps[i].op)

(* The contract of a reference to a step's output, by where it leads. *)
LEMMA StepUnfolds ==
  ASSUME NEW d, DocumentFits(d), NEW f \in Frames, NEW k
  PROVE  StepCase(d, k, f, StepContract(d, k, f.ref, f.scope, f.active, f.depth))
<1>. DEFINE r == f.ref
            s == f.scope
            active == f.active
            depth == f.depth
            workflow == d.workflows[s.workflow]
            targets == {i \in DOMAIN workflow.steps : workflow.steps[i].id = r.step}
            target == CHOOSE i \in targets : TRUE
            step == workflow.steps[target]
            name == r.name
            c == StepContract(d, k, r, s, active, depth)
<1>1. active \in SUBSET (STRING \X STRING) /\ depth \in Nat
  BY DEF Frames
<1>2. CASE s.workflow \notin DOMAIN d.workflows \/ Cardinality(targets) # 1
  <2>1. c \in {Indeterminate, Incompatible}
    BY <1>2, Zenon DEF StepContract
  <2>. QED  BY <2>1 DEF StepCase
<1>3. CASE s.workflow \in DOMAIN d.workflows /\ Cardinality(targets) = 1
  <2>1. PICK i : targets = {i}
    <3>1. DOMAIN workflow.steps = 1..Len(workflow.steps) /\ Len(workflow.steps) \in Nat
      BY <1>3 DEF DocumentFits
    <3>2. IsFiniteSet(DOMAIN workflow.steps)
      BY <3>1, FS_Interval
    <3>. HIDE DEF workflow
    <3>3. IsFiniteSet(targets)
      BY <3>2, FS_Subset
    <3>. HIDE DEF targets
    <3>. QED  BY <1>3, <3>3, FS_Singleton
  <2>2. target = i /\ i \in DOMAIN workflow.steps
        /\ \A j \in DOMAIN workflow.steps : workflow.steps[j].id = r.step <=> j = i
    BY <2>1
  <2>. DEFINE out == output(d, k, name, s.workflow, target, active, depth + 1)
  <2>3. c = IF workflow.type # "sequence" \/ ~step.flat \/ step.when THEN Indeterminate
            ELSE IF ~RunsEarlier(target, s.step) THEN Incompatible
            ELSE Below(d, out, r.path, step.op)
    BY <1>3, Zenon DEF StepContract
  <2>4. CASE workflow.type # "sequence" \/ ~step.flat \/ step.when \/ ~RunsEarlier(target, s.step)
    <3>1. c \in {Indeterminate, Incompatible}
      BY <2>3, <2>4, Zenon
    <3>. QED  BY <3>1 DEF StepCase
  <2>5. CASE name \notin DOMAIN step.outputs \/ <<step.id, name>> \in active
    <3>1. out = Incompatible
      BY <2>5, Zenon DEF output
    <3>2. Below(d, Incompatible, r.path, step.op) = Incompatible
      BY DEF Below, Incompatible, Contract
    <3>3. c \in {Indeterminate, Incompatible}
      BY <2>3, <3>1, <3>2, Zenon
    <3>. QED  BY <3>3 DEF StepCase
  <2>6. CASE /\ workflow.type = "sequence" /\ ~step.when /\ RunsEarlier(target, s.step)
             /\ c = Below(d, out, r.path, step.op)
             /\ name \in DOMAIN step.outputs /\ <<step.id, name>> \notin active
    <3>. DEFINE deeper == Frame(step.outputs[name],
                                Scope(s.workflow, target, step.op, step.outputs, name),
                                active \cup {<<step.id, name>>}, (depth + 1) + 1)
    <3>1. out = k[deeper]
      BY <2>6, Zenon DEF output
    <3>2. deeper \in Frames
      <4>1. (depth + 1) + 1 \in Nat
        BY <1>1
      <4>. HIDE DEF s, active, depth, name
      <4>. QED  BY <1>1, <1>3, <2>2, <2>6, <4>1, StepFrame, Zenon
    <3>3. deeper.depth > depth /\ deeper = Frame(step.outputs[name],
            Scope(s.workflow, target, step.op, step.outputs, name), deeper.active, deeper.depth)
      <4>1. \A e, t, a, n : Frame(e, t, a, n).active = a /\ Frame(e, t, a, n).depth = n
        BY DEF Frame
      <4>2. deeper.active = active \cup {<<step.id, name>>} /\ deeper.depth = (depth + 1) + 1
        <5>. HIDE DEF step, target, s, workflow, targets, active, depth, name
        <5>. QED  BY <4>1
      <4>3. (depth + 1) + 1 > depth
        BY <1>1
      <4>. QED  BY <4>2, <4>3, Zenon
    <3>4. StepLeads(d, f, i, deeper)
      <4>. HIDE DEF deeper
      <4>. QED  BY <1>3, <2>2, <2>6, <3>2, <3>3, Zenon DEF StepLeads
    <3>5. c = Below(d, k[deeper], r.path, d.workflows[s.workflow].steps[i].op)
      BY <2>2, <2>6, <3>1, Zenon
    <3>. HIDE DEF deeper, c
    <3>6. StepCase(d, k, f, c)
      BY <3>4, <3>5 DEF StepCase
    <3>. QED  BY <3>6 DEF c
  <2>. QED  BY <2>3, <2>4, <2>5, <2>6, Zenon
<1>. QED  BY <1>2, <1>3

(* And a reference to an output of the same owner: nowhere, or to an output  *)
(* before the one that is being resolved.                                    *)
OutputLeads(f, g) ==
  LET s == f.scope
      name == f.ref.name
  IN  /\ s.outputName # NoName /\ name \in DOMAIN s.outputs /\ Before(name, s.outputName)
      /\ g = Frame(s.outputs[name], [s EXCEPT !.outputName = name], g.active, g.depth)
      /\ g \in Frames /\ g.depth > f.depth

OutputCase(d, k, f, c) ==
  \/ c = Incompatible
  \/ \E g : OutputLeads(f, g) /\ c = Below(d, k[g], f.ref.path, f.scope.op)

(* The contract of a reference to an output, by where it leads. *)
LEMMA OutputUnfolds ==
  ASSUME NEW d, NEW f \in Frames, NEW k
  PROVE  OutputCase(d, k, f, OutputContract(d, k, f.ref, f.scope, f.active, f.depth))
<1>. DEFINE name == f.ref.name
            s == f.scope
            deeper == Frame(s.outputs[name], [s EXCEPT !.outputName = name], f.active, f.depth + 1)
            c == OutputContract(d, k, f.ref, s, f.active, f.depth)
<1>1. CASE s.outputName = NoName \/ name \notin DOMAIN s.outputs \/ ~Before(name, s.outputName)
  <2>1. c = Incompatible
    BY <1>1 DEF OutputContract
  <2>. QED  BY <2>1 DEF OutputCase
<1>2. CASE s.outputName # NoName /\ name \in DOMAIN s.outputs /\ Before(name, s.outputName)
  <2>1. s \in Scopes /\ f.active \in SUBSET (STRING \X STRING) /\ f.depth + 1 \in Nat /\ f.depth \in Nat
    BY DEF Frames
  <2>2. deeper \in Frames
    <3>. HIDE DEF s, name
    <3>. QED  BY <1>2, <2>1, OutputFrame
  <2>3. deeper.depth > f.depth /\ deeper = Frame(s.outputs[name], [s EXCEPT !.outputName = name],
                                                 deeper.active, deeper.depth)
    <3>1. \A e, t, a, n : Frame(e, t, a, n).active = a /\ Frame(e, t, a, n).depth = n
      BY DEF Frame
    <3>2. deeper.active = f.active /\ deeper.depth = f.depth + 1
      BY <3>1
    <3>. QED  BY <2>1, <3>2
  <2>4. c = Below(d, k[deeper], f.ref.path, f.scope.op)
    BY <1>2 DEF OutputContract
  <2>. HIDE DEF deeper, c
  <2>5. OutputLeads(f, deeper)
    BY <1>2, <2>2, <2>3 DEF OutputLeads
  <2>6. OutputCase(d, k, f, c)
    BY <2>4, <2>5 DEF OutputCase
  <2>. QED  BY <2>6 DEF c
<1>. QED  BY <1>1, <1>2

(* Below a contract the outcome is one of the three again. *)
LEMMA BelowOutcome ==
  ASSUME NEW d, NEW c, NEW path, NEW op, c.status \in Outcomes
  PROVE  Below(d, c, path, op).status \in Outcomes
  BY DEF Below, Proved, Contract, Outcomes

(* contract returns one of its three outcomes for every reference, so that   *)
(* the assessment's cases leave none out.                                    *)
THEOREM StatusOutcomes ==
  ASSUME NEW d, DocumentFits(d)
  PROVE  \A f \in Frames : Contracts(d)[f].status \in Outcomes
<1>. DEFINE C == Contracts(d)
            S == {m \in Nat : \A f \in Frames : f.depth > MaxDepth - m => C[f].status \in Outcomes}
<1>0. MaxDepth \in Nat /\ \A f \in Frames : f.depth \in Nat
  BY DepthAssumption DEF Frames
<1>1. \A f \in Frames : C[f] = CallOf(d, C, f)
  BY ContractLaw
<1>. HIDE DEF C
<1>2. 0 \in S
  <2>1. ASSUME NEW f \in Frames, f.depth > MaxDepth - 0 PROVE C[f].status \in Outcomes
    <3>1. ~(f.depth <= MaxDepth) /\ f.depth > MaxDepth
      BY <1>0, <2>1
    <3>2. CallOf(d, C, f) = Indeterminate
      BY <3>1 DEF CallOf, Call
    <3>. QED  BY <1>1, <3>2 DEF Indeterminate, Contract, Outcomes
  <2>. QED  BY <2>1
<1>3. ASSUME NEW m \in Nat, m \in S PROVE m + 1 \in S
  <2>1. SUFFICES ASSUME NEW f \in Frames, f.depth > MaxDepth - (m + 1) PROVE C[f].status \in Outcomes
    OBVIOUS
  <2>2. \A g \in Frames : g.depth > f.depth => C[g].status \in Outcomes
    <3>1. ASSUME NEW g \in Frames, g.depth > f.depth PROVE g.depth > MaxDepth - m
      BY <1>0, <2>1, <3>1
    <3>. QED  BY <1>3, <3>1
  <2>3. \A schema : /\ Indeterminate.status \in Outcomes /\ Incompatible.status \in Outcomes
                    /\ Proved(schema).status \in Outcomes
                    /\ Contract(schema, "incompatible").status \in Outcomes
    BY DEF Indeterminate, Incompatible, Proved, Contract, Outcomes
  <2>4. C[f] = Call(d, C, f.ref, f.scope, f.active, f.depth)
    BY <1>1 DEF CallOf
  <2>5. VariableContract(d, f.ref).status \in Outcomes
    BY <2>3 DEF VariableContract
  <2>6. ResponseContract(d, f.ref, f.scope).status \in Outcomes
    BY <2>3, Zenon DEF ResponseContract
  <2>7. StepContract(d, C, f.ref, f.scope, f.active, f.depth).status \in Outcomes
    <3>1. StepCase(d, C, f, StepContract(d, C, f.ref, f.scope, f.active, f.depth))
      BY StepUnfolds
    <3>. QED  BY <2>2, <2>3, <3>1, BelowOutcome, Zenon DEF StepCase, StepLeads
  <2>8. OutputContract(d, C, f.ref, f.scope, f.active, f.depth).status \in Outcomes
    <3>1. OutputCase(d, C, f, OutputContract(d, C, f.ref, f.scope, f.active, f.depth))
      BY OutputUnfolds
    <3>. QED  BY <2>2, <2>3, <3>1, BelowOutcome DEF OutputCase, OutputLeads
  <2>9. f.ref.root \in Roots /\ f.depth \in Nat
    BY ExpressionsAssumption DEF Frames
  <2>. QED  BY <1>0, <2>3, <2>4, <2>5, <2>6, <2>7, <2>8, <2>9 DEF Call, Roots
<1>4. MaxDepth + 1 \in S
  <2>. HIDE DEF S
  <2>1. Nat \subseteq S
    BY <1>2, <1>3, SetInduction
  <2>. QED  BY <1>0, <2>1
<1>5. \A f \in Frames : C[f].status \in Outcomes
  <2>1. \A f \in Frames : f.depth > MaxDepth - (MaxDepth + 1)
    BY <1>0
  <2>. QED  BY <1>4, <2>1
<1>. QED  BY <1>5 DEF C

-----------------------------------------------------------------------------
(* Evaluation. *)

(* Every contract of the reference in the scope is sound for the value.      *)
SoundAt(d, r, s, v) == \A g \in Frames : g.ref = r /\ g.scope = s => Sound(Contracts(d)[g], v)

(* The reviewed shapes are those of the actual operations, or are absent. *)
ShapesReproduced(d) ==
  \A op \in DOMAIN d.operations : shape(d, op) # NoShape => shape(d, op) = d.operations[op].actual

(* verifyShapes accepts shapes that are absent or the actual ones only. *)
LEMMA VerifiedShapes ==
  ASSUME NEW d, DocumentFits(d), NEW v, verifyShapes(d, v)
  PROVE  ShapesReproduced(d)
<1>. SUFFICES ASSUME NEW op \in DOMAIN d.operations, shape(d, op) # NoShape
              PROVE  shape(d, op) = d.operations[op].actual
  BY DEF ShapesReproduced
<1>1. shape(d, op) = d.operations[op].shape
  BY DEF shape
<1>2. op \in Table(d) /\ d.operations[op].kind \in Kinds(d)
  BY <1>1 DEF Table, Kinds
<1>3. Reproduced(d, d.operations[op].kind)
  BY <1>2 DEF verifyShapes
<1>4. op \in OfKind(d, d.operations[op].kind)
  BY <1>2 DEF OfKind
<1>. QED  BY <1>1, <1>3, <1>4 DEF Reproduced

(* Reviewed data: a variable whose value is not in doubt. *)
LEMMA VariableSound ==
  ASSUME NEW d, DocumentFits(d), NEW r \in Expressions
  PROVE  Sound(VariableContract(d, r), lookupLiteral(Variable(d, r.name), r.path))
<1>. DEFINE reviewed == DOMAIN d.variables \cup DOMAIN d.data
            value == IF r.name \in DOMAIN d.data THEN d.data[r.name]
                     ELSE IF r.name \in reviewed THEN d.variables[r.name] ELSE d.components[r.name]
            found == lookupLiteral(value, r.path)
<1>1. r.path \in Seq(STRING)
  BY ExpressionsAssumption
<1>2. CASE r.name \notin reviewed \cup DOMAIN d.components \/ (r.name \in reviewed /\ r.name \in DOMAIN d.components)
  <2>1. VariableContract(d, r) \in {Incompatible, Indeterminate}
    BY <1>2 DEF VariableContract
  <2>. QED  BY <2>1, NotCompatibleSound
<1>3. CASE r.name \in reviewed \cup DOMAIN d.components /\ ~(r.name \in reviewed /\ r.name \in DOMAIN d.components)
  <2>1. VariableContract(d, r) = IF found = Absent THEN Incompatible ELSE Proved(literalContract(found))
    BY <1>3 DEF VariableContract
  <2>2. Variable(d, r.name) = value
    BY <1>3 DEF Variable
  <2>3. value \in Values
    BY <1>3 DEF DocumentFits
  <2>4. found \in Value
    <3>. HIDE DEF value
    <3>. QED  BY <1>1, <2>3, LookupIsValue DEF Value
  <2>5. CASE found = Absent
    BY <2>1, <2>5, NotCompatibleSound
  <2>6. CASE found # Absent
    <3>1. Says(literalContract(found), found)
      BY <2>4, <2>6, LiteralSays DEF Value
    <3>. HIDE DEF value, found
    <3>. QED  BY <2>1, <2>2, <2>6, <3>1, ProvedSound DEF found
  <2>. QED  BY <2>5, <2>6
<1>. QED  BY <1>2, <1>3

(* A response of the actual shape: what the shape declares of an output.     *)
ResponseValue(r, response) ==
  IF r.root = "body" THEN lookupLiteral(response.body, r.path)
  ELSE Item(response.headers, r.name, r.path)

(* The output a reference to the response means, and the path below it. *)
LEMMA TailIsPath ==
  ASSUME NEW path \in Seq(STRING), path # <<>> PROVE Tail(path) \in Seq(STRING)
  OBVIOUS

Target(location, name, path) == [location |-> location, name |-> name, path |-> path]

(* The parts of a target. *)
LEMMA TargetFields ==
  \A l, n, p : /\ Target(l, n, p).location = l /\ Target(l, n, p).name = n
               /\ Target(l, n, p).path = p
  BY DEF Target

(* A header reference means the header of its name. *)
LEMMA HeaderTarget ==
  ASSUME NEW r, NEW sh, r.root = "header"
  PROVE  responseReference(r, sh) = Target("header", r.name, <<>>)
  BY DEF responseReference, Target

(* A body reference of an action means the output its path begins with. *)
LEMMA ActionTarget ==
  ASSUME NEW r, NEW sh, r.root = "body", sh.action, NEW path, path = r.path
  PROVE  /\ path = <<>> => responseReference(r, sh) = Target("body", "", <<>>)
         /\ path # <<>> => responseReference(r, sh) = Target("body", Head(path), Tail(path))
  BY DEF responseReference, Target

(* A body reference of another operation means the body its protocol         *)
(* names.                                                                    *)
LEMMA BodyTarget ==
  ASSUME NEW r, NEW sh, r.root = "body", ~sh.action
  PROVE  responseReference(r, sh) =
           Target("body", IF sh.protocol = "fnct" THEN "received_body" ELSE "body", r.path)
  BY DEF responseReference, Target

(* What is left of the path is a path. *)
LEMMA ReferencePath ==
  ASSUME NEW r \in Expressions, r.root \in {"body", "header"}, NEW sh
  PROVE  responseReference(r, sh).path \in Seq(STRING)
<1>. DEFINE ref == responseReference(r, sh)
            path == r.path
<1>. HIDE DEF ref, path
<1>1. path \in Seq(STRING) /\ <<>> \in Seq(STRING)
  BY ExpressionsAssumption DEF path
<1>2. CASE r.root = "header"
  <2>1. ref.path = <<>>
    BY <1>2, HeaderTarget, TargetFields DEF ref
  <2>. QED  BY <1>1, <2>1 DEF ref
<1>3. CASE r.root = "body" /\ sh.action /\ path = <<>>
  <2>1. ref = Target("body", "", <<>>)
    BY <1>3, ActionTarget DEF ref, path
  <2>2. ref.path = <<>>
    BY <2>1 DEF Target
  <2>. QED  BY <1>1, <2>2 DEF ref
<1>4. CASE r.root = "body" /\ sh.action /\ path # <<>>
  <2>1. ref = Target("body", Head(path), Tail(path))
    BY <1>4, ActionTarget DEF ref, path
  <2>. DEFINE head == Head(path)
              rest == Tail(path)
  <2>. HIDE DEF head, rest
  <2>2. ref = Target("body", head, rest)
    BY <2>1 DEF head, rest
  <2>4. ref.path = rest
    BY <2>2 DEF Target
  <2>3. Tail(path) \in Seq(STRING)
    BY <1>1, <1>4, TailIsPath
  <2>. QED  BY <2>3, <2>4 DEF ref, rest
<1>5. CASE r.root = "body" /\ ~sh.action
  <2>1. ref.path = path
    BY <1>5, BodyTarget, TargetFields DEF ref, path
  <2>. QED  BY <1>1, <2>1 DEF ref
<1>. QED  BY <1>2, <1>3, <1>4, <1>5

(* A response has a conforming value for every output its shape declares. *)
LEMMA DeclaredValue ==
  ASSUME NEW sh, sh # NoShape, ShapeFits(sh), NEW r \in Expressions, r.root \in {"body", "header"},
         NEW response \in Responses(sh), NEW ref, ref = responseReference(r, sh),
         NEW o \in sh.outputs, o.location = ref.location, o.name = ref.name
  PROVE  \E v \in Values : Conforms(v, o.schema) /\ ResponseValue(r, response) = lookupLiteral(v, ref.path)
<1>1. \A p \in sh.outputs : p.location = o.location /\ p.name = o.name => p = o
  BY DEF ShapeFits
<1>2. o.name \in Named(sh, o.location)
  BY DEF Named
<1>3. Conforming(sh, o.location, o.name) = {v \in Bodies : Conforms(v, o.schema)}
  <2>1. (CHOOSE p \in sh.outputs : p.location = o.location /\ p.name = o.name) = o
    BY <1>1
  <2>. QED  BY <2>1 DEF Conforming
<1>4. ASSUME NEW f \in Chosen(sh, o.location)
      PROVE  o.name \in DOMAIN f /\ f[o.name] \in Values /\ Conforms(f[o.name], o.schema)
  BY <1>2, <1>3, AssessmentAssumption DEF Chosen
<1>5. PICK h \in Chosen(sh, "header"),
           b \in IF sh.action THEN {Container(f) : f \in Chosen(sh, "body")}
                 ELSE IF Named(sh, "body") = {} THEN {Absent} \cup (IF sh.complete THEN {} ELSE Bodies)
                 ELSE UNION {Conforming(sh, "body", name) : name \in Named(sh, "body")} :
        response = Response(b, h)
  BY DEF Responses
<1>6. response.body = b /\ response.headers = h
  BY <1>5 DEF Response
<1>. DEFINE path == r.path
<1>. HIDE DEF path
<1>7. CASE r.root = "header"
  <2>1. ref = Target("header", r.name, <<>>) /\ path = <<>>
    BY <1>7, HeaderTarget, ExpressionsAssumption DEF path
  <2>2. o.location = "header" /\ o.name = r.name /\ ref.path = <<>>
    BY <2>1, TargetFields
  <2>3. ResponseValue(r, response) = lookupLiteral(h[o.name], <<>>)
    BY <1>4, <1>6, <1>7, <2>1, <2>2 DEF ResponseValue, Item, path
  <2>. QED  BY <1>4, <2>2, <2>3
<1>8. CASE r.root = "body" /\ sh.action
  <2>1. PICK f \in Chosen(sh, "body") : b = Container(f)
    BY <1>5, <1>8
  <2>2. "" \notin Named(sh, "body")
    BY <1>8 DEF ShapeFits
  <2>3. path # <<>>
    <3>1. SUFFICES ASSUME path = <<>> PROVE FALSE
      OBVIOUS
    <3>2. ref = Target("body", "", <<>>)
      BY <1>8, <3>1, ActionTarget DEF path
    <3>3. o.location = "body" /\ o.name = ""
      <4>. DEFINE none == ""
                  empty == <<>>
      <4>. HIDE DEF none, empty
      <4>1. ref = Target("body", none, empty)
        BY <3>2 DEF none, empty
      <4>2. ref.location = "body" /\ ref.name = none
        BY <4>1 DEF Target
      <4>. QED  BY <4>2 DEF none
    <3>. QED  BY <1>2, <2>2, <3>3
  <2>4. ref = Target("body", Head(path), Tail(path))
    BY <1>8, <2>3, ActionTarget DEF path
  <2>5. o.location = "body" /\ o.name = Head(path) /\ ref.path = Tail(path)
    <3>. DEFINE head == Head(path)
                rest == Tail(path)
    <3>. HIDE DEF head, rest
    <3>1. ref = Target("body", head, rest)
      BY <2>4 DEF head, rest
    <3>2. o.location = "body" /\ o.name = head /\ ref.path = rest
      BY <3>1 DEF Target
    <3>. QED  BY <3>2 DEF head, rest
  <2>6. Field(Container(f), Head(path)) = f[o.name]
    BY <1>4, <2>5 DEF Field, Container
  <2>7. path \in Seq(STRING)
    BY ExpressionsAssumption DEF path
  <2>8. lookupLiteral(b, path) = lookupLiteral(f[o.name], ref.path)
    BY <2>1, <2>3, <2>5, <2>6, <2>7, LookupShift
  <2>9. ResponseValue(r, response) = lookupLiteral(b, path)
    BY <1>6, <1>8 DEF ResponseValue, path
  <2>. QED  BY <1>4, <2>5, <2>8, <2>9
<1>9. CASE r.root = "body" /\ ~sh.action
  <2>. DEFINE name == IF sh.protocol = "fnct" THEN "received_body" ELSE "body"
  <2>1. ref = Target("body", name, path)
    BY <1>9, BodyTarget DEF path
  <2>2. o.location = "body" /\ ref.path = path /\ o.name = name
    BY <2>1, TargetFields
  <2>3. Named(sh, "body") = {o.name}
    BY <1>2, <1>9, <2>2 DEF ShapeFits
  <2>4. b \in Conforming(sh, "body", o.name)
    BY <1>5, <1>9, <2>3
  <2>5. b \in Values /\ Conforms(b, o.schema)
    BY <1>3, <2>2, <2>4, AssessmentAssumption
  <2>6. ResponseValue(r, response) = lookupLiteral(b, ref.path)
    BY <1>6, <1>9, <2>2 DEF ResponseValue, path
  <2>. QED  BY <2>5, <2>6
<1>. QED  BY <1>7, <1>8, <1>9

(* Below an unknown schema everything is unknown. *)
LEMMA UnknownBelow ==
  ASSUME NEW path \in Seq(STRING)
  PROVE  childContract(Unknown, path) = Unknown
<1>. DEFINE N == Len(path)
<1>1. PICK s : /\ s[0] = Unknown
               /\ childContract(Unknown, path) =
                    IF s[N].kind # "known" THEN s[N]
                    ELSE IF s[N].value = Absent THEN Nothing ELSE literalContract(s[N].value)
               /\ \A n \in 1..N : s[n] = Property(s[n - 1], path[n])
  BY ChildLaw
<1>. DEFINE S == {n \in Nat : n <= N => s[n] = Unknown}
<1>2. 0 \in S
  BY <1>1
<1>3. ASSUME NEW n \in Nat, n \in S PROVE n + 1 \in S
  <2>. SUFFICES ASSUME n + 1 <= N PROVE s[n + 1] = Unknown
    OBVIOUS
  <2>1. s[n] = Unknown /\ s[n + 1] = Property(s[n], path[n + 1])
    BY <1>1, <1>3
  <2>. QED  BY <2>1 DEF Property, Unknown
<1>4. Nat \subseteq S
  <2>. HIDE DEF S
  <2>. QED  BY <1>2, <1>3, SetInduction
<1>5. s[N] = Unknown
  BY <1>4
<1>. QED  BY <1>1, <1>5, SchemasAreNotKnown

(* The contract of a reference to the response is sound for the response     *)
(* (ResponseContract).                                                       *)
LEMMA ResponseSound ==
  ASSUME NEW d, DocumentFits(d), ShapesReproduced(d), NEW r \in Expressions,
         r.root \in {"body", "header"}, NEW s, NEW response,
         s.op # NoOperation => /\ s.op \in DOMAIN d.operations
                               /\ response \in Responses(d.operations[s.op].actual)
  PROVE  Sound(ResponseContract(d, r, s), ResponseValue(r, response))
<1>. DEFINE sh == shape(d, s.op)
            ref == responseReference(r, sh)
            declared == {o \in sh.outputs : o.location = ref.location /\ o.name = ref.name}
            o == CHOOSE p \in declared : TRUE
            child == IF BelowScalar(d, o.schema, ref.path, s.op) THEN Nothing
                     ELSE childContract(o.schema, ref.path)
            c == ResponseContract(d, r, s)
<1>1. CASE sh = NoShape \/ declared = {}
  <2>1. c \in {Indeterminate, Incompatible}
    BY <1>1 DEF ResponseContract
  <2>. QED  BY <2>1, NotCompatibleSound
<1>2. CASE sh # NoShape /\ declared # {}
  <2>1. c = IF child = Nothing THEN Contract(child, "incompatible") ELSE Proved(child)
    BY <1>2 DEF ResponseContract
  <2>2. CASE child = Nothing
    <3>. HIDE DEF child, c
    <3>1. c = Contract(child, "incompatible")
      BY <2>1, <2>2
    <3>. QED  BY <3>1, NotCompatibleSound DEF c
  <2>3. CASE child # Nothing
    <3>1. child = childContract(o.schema, ref.path) /\ c = Proved(child)
      BY <2>1, <2>3
    <3>2. o \in sh.outputs /\ o.location = ref.location /\ o.name = ref.name
      BY <1>2
    <3>3. s.op # NoOperation
      BY <1>2 DEF shape
    <3>4. sh = d.operations[s.op].actual /\ ShapeFits(sh) /\ response \in Responses(sh)
      <4>1. sh = d.operations[s.op].actual
        BY <1>2, <3>3 DEF ShapesReproduced
      <4>2. ShapeFits(d.operations[s.op].actual)
        BY <3>3 DEF DocumentFits, OperationFits
      <4>. QED  BY <3>3, <4>1, <4>2
    <3>. HIDE DEF o, ref, sh, c, child
    <3>5. PICK v \in Values : Conforms(v, o.schema) /\ ResponseValue(r, response) = lookupLiteral(v, ref.path)
      BY <1>2, <3>2, <3>4, DeclaredValue DEF ref
    <3>6. o.schema \in Schemas
      BY <1>2, <3>2, <3>4 DEF ShapeFits
    <3>7. Says(o.schema, v)
      BY <3>5, <3>6 DEF Says
    <3>8. ref.path \in Seq(STRING)
      BY ReferencePath DEF ref
    <3>9. CASE o.schema = Unknown
      <4>1. childContract(Unknown, ref.path) = Unknown
        BY <3>8, UnknownBelow
      <4>. QED  BY <3>1, <3>9, <4>1 DEF c, Proved, Contract, Sound
    <3>10. CASE o.schema # Unknown
      <4>1. Says(child, ResponseValue(r, response))
        BY <3>1, <3>5, <3>7, <3>8, <3>10, ChildSays
      <4>. QED  BY <3>1, <4>1, ProvedSound DEF c
    <3>. QED  BY <3>9, <3>10
  <2>. QED  BY <2>2, <2>3
<1>. QED  BY <1>1, <1>2

(* What the results of the earlier steps are worth to a step, or to the      *)
(* workflow's outputs.                                                       *)
ResultSound(d, results, i) ==
  LET step == d.workflows[1].steps[i]
  IN  /\ step.id \in DOMAIN results /\ DOMAIN results[step.id] = DOMAIN step.outputs
      /\ \A n \in DOMAIN step.outputs :
           SoundAt(d, step.outputs[n], Scope(1, i, step.op, step.outputs, n), results[step.id][n])

ResultsSound(d, results, current) ==
  LET workflow == d.workflows[1]
  IN  \A i \in DOMAIN workflow.steps :
        /\ workflow.type = "sequence" /\ ~workflow.steps[i].when /\ RunsEarlier(i, current)
        /\ \A j \in DOMAIN workflow.steps : workflow.steps[j].id = workflow.steps[i].id <=> j = i
        => ResultSound(d, results, i)

InWorkflow(d, s, results) ==
  s.workflow \in DOMAIN d.workflows => s.workflow = 1 /\ ResultsSound(d, results, s.step)

(* And the outputs before the one that is being resolved. *)
OutputsSound(d, s, outputs) ==
  \A n \in DOMAIN s.outputs : s.outputName # NoName /\ Before(n, s.outputName) =>
    n \in DOMAIN outputs /\ SoundAt(d, s.outputs[n], [s EXCEPT !.outputName = n], outputs[n])

(* And the response, for the operation of the scope. *)
ResponseFits(d, s, env) ==
  s.op # NoOperation =>
    /\ s.op \in DOMAIN d.operations /\ env.response \in Responses(d.operations[s.op].actual)
    /\ env.http = (d.operations[s.op].actual.protocol = "http")

(* The contract of a reference to a step is sound for the step's result      *)
(* (StepContract).                                                           *)
LEMMA StepSound ==
  ASSUME NEW d, DocumentFits(d), NEW f \in Frames, NEW env, f.ref.root = "steps",
         InWorkflow(d, f.scope, env.results)
  PROVE  Sound(StepContract(d, Contracts(d), f.ref, f.scope, f.active, f.depth),
               Evaluate(d, f.ref, env))
<1>. DEFINE r == f.ref
            c == StepContract(d, Contracts(d), r, f.scope, f.active, f.depth)
<1>1. StepCase(d, Contracts(d), f, c)
  BY StepUnfolds
<1>2. CASE c \in {Indeterminate, Incompatible}
  BY <1>2, NotCompatibleSound
<1>3. ASSUME NEW i, NEW g, StepLeads(d, f, i, g), NEW step, step = d.workflows[f.scope.workflow].steps[i],
             c = Below(d, Contracts(d)[g], r.path, step.op)
      PROVE  Sound(c, Evaluate(d, r, env))
  <2>. DEFINE workflow == d.workflows[1]
  <2>1. f.scope.workflow = 1 /\ step = workflow.steps[i] /\ i \in DOMAIN workflow.steps
    BY <1>3, Zenon DEF StepLeads, InWorkflow
  <2>2. step.id = r.step /\ r.name \in DOMAIN step.outputs
        /\ \A j \in DOMAIN workflow.steps : workflow.steps[j].id = step.id <=> j = i
    BY <1>3, <2>1 DEF StepLeads
  <2>3. workflow.type = "sequence" /\ ~step.when /\ RunsEarlier(i, f.scope.step)
    BY <1>3, <2>1 DEF StepLeads
  <2>4. ResultSound(d, env.results, i)
    BY <1>3, <2>1, <2>2, <2>3 DEF StepLeads, InWorkflow, ResultsSound
  <2>. DEFINE result == env.results[step.id]
              s == Scope(1, i, step.op, step.outputs, r.name)
  <2>5. /\ step.id \in DOMAIN env.results /\ r.name \in DOMAIN result
        /\ SoundAt(d, step.outputs[r.name], s, result[r.name])
    BY <2>1, <2>2, <2>4 DEF ResultSound
  <2>6. g \in Frames /\ g = Frame(step.outputs[r.name], s, g.active, g.depth)
    BY <1>3, <2>1 DEF StepLeads
  <2>7. g.ref = step.outputs[r.name] /\ g.scope = s
    <3>. DEFINE ref == step.outputs[r.name]
    <3>. HIDE DEF s, ref
    <3>1. g = Frame(ref, s, g.active, g.depth)
      BY <2>6 DEF ref
    <3>2. g.ref = ref /\ g.scope = s
      BY <3>1 DEF Frame
    <3>. QED  BY <3>2 DEF ref
  <2>8. Sound(Contracts(d)[g], result[r.name])
    BY <2>5, <2>6, <2>7 DEF SoundAt
  <2>9. r.path \in Seq(STRING)
    BY ExpressionsAssumption DEF Frames
  <2>10. Evaluate(d, r, env) = lookupLiteral(result[r.name], r.path)
    BY <2>2, <2>5 DEF Evaluate, Item
  <2>. HIDE DEF c, r, result
  <2>. QED  BY <1>3, <2>8, <2>9, <2>10, BelowSound
<1>. QED  BY <1>1, <1>2, <1>3 DEF StepCase

(* The contract of a reference to an output is sound for its value           *)
(* (OutputContract).                                                         *)
LEMMA OutputSound ==
  ASSUME NEW d, NEW f \in Frames, NEW env, f.ref.root = "outputs",
         OutputsSound(d, f.scope, env.outputs)
  PROVE  Sound(OutputContract(d, Contracts(d), f.ref, f.scope, f.active, f.depth),
               Evaluate(d, f.ref, env))
<1>. DEFINE r == f.ref
            s == f.scope
            c == OutputContract(d, Contracts(d), r, s, f.active, f.depth)
<1>1. OutputCase(d, Contracts(d), f, c)
  BY OutputUnfolds
<1>2. CASE c = Incompatible
  BY <1>2, NotCompatibleSound
<1>3. ASSUME NEW g, OutputLeads(f, g), c = Below(d, Contracts(d)[g], r.path, s.op)
      PROVE  Sound(c, Evaluate(d, r, env))
  <2>. DEFINE before == [s EXCEPT !.outputName = r.name]
  <2>1. /\ s.outputName # NoName /\ r.name \in DOMAIN s.outputs /\ Before(r.name, s.outputName)
        /\ g = Frame(s.outputs[r.name], before, g.active, g.depth) /\ g \in Frames
    BY <1>3 DEF OutputLeads
  <2>2. r.name \in DOMAIN env.outputs /\ SoundAt(d, s.outputs[r.name], before, env.outputs[r.name])
    BY <2>1 DEF OutputsSound
  <2>3. g.ref = s.outputs[r.name] /\ g.scope = before
    <3>. DEFINE ref == s.outputs[r.name]
    <3>. HIDE DEF before, ref
    <3>1. g = Frame(ref, before, g.active, g.depth)
      BY <2>1 DEF ref
    <3>2. g.ref = ref /\ g.scope = before
      BY <3>1 DEF Frame
    <3>. QED  BY <3>2 DEF ref
  <2>4. Sound(Contracts(d)[g], env.outputs[r.name])
    BY <2>1, <2>2, <2>3 DEF SoundAt
  <2>5. r.path \in Seq(STRING)
    BY ExpressionsAssumption DEF Frames
  <2>6. Evaluate(d, r, env) = lookupLiteral(env.outputs[r.name], r.path)
    BY <2>2 DEF Evaluate, Item
  <2>. HIDE DEF c, r, s
  <2>. QED  BY <1>3, <2>4, <2>5, <2>6, BelowSound
<1>. QED  BY <1>1, <1>2, <1>3 DEF OutputCase

(* A status is an integer, of an HTTP operation only. *)
LEMMA StatusSound ==
  ASSUME NEW d, ShapesReproduced(d), NEW r, NEW s, NEW env, r.root = "status", ResponseFits(d, s, env)
  PROVE  Sound(IF shape(d, s.op).protocol = "http" THEN Proved(Typed("integer")) ELSE Indeterminate,
               Evaluate(d, r, env))
<1>1. CASE shape(d, s.op).protocol # "http"
  BY <1>1, NotCompatibleSound
<1>2. CASE shape(d, s.op).protocol = "http"
  <2>1. s.op # NoOperation /\ shape(d, s.op) # NoShape
    BY <1>2 DEF shape, NoShape
  <2>2. shape(d, s.op) = d.operations[s.op].actual /\ env.http
    BY <1>2, <2>1 DEF ResponseFits, ShapesReproduced
  <2>3. Evaluate(d, r, env) = Scalar("integer", 200)
    BY <2>2 DEF Evaluate
  <2>4. Admits(Typed("integer"), Scalar("integer", 200))
    BY DEF Admits, Typed, Scalar
  <2>5. Says(Typed("integer"), Scalar("integer", 200))
    BY <2>4, DataAssumption DEF Says
  <2>. QED  BY <1>2, <2>3, <2>5, ProvedSound
<1>. QED  BY <1>1, <1>2

(* A compatible contract says what the value will be (contract, and the      *)
(* native evaluation of the reference), in every environment whose results,  *)
(* outputs and response are as their own contracts say.                      *)
THEOREM EvaluateSound ==
  ASSUME NEW d, DocumentFits(d), ShapesReproduced(d), NEW f \in Frames, NEW env,
         InWorkflow(d, f.scope, env.results), OutputsSound(d, f.scope, env.outputs),
         f.ref.root \in {"status", "body", "header"} => ResponseFits(d, f.scope, env)
  PROVE  Sound(Contracts(d)[f], Evaluate(d, f.ref, env))
<1>. DEFINE C == Contracts(d)
            r == f.ref
            s == f.scope
            v == Evaluate(d, r, env)
<1>1. C[f] = Call(d, C, r, s, f.active, f.depth)
  BY ContractLaw DEF CallOf
<1>2. r \in Expressions /\ r.root \in Roots /\ f.depth \in Nat
  BY ExpressionsAssumption DEF Frames
<1>3. CASE f.depth > MaxDepth \/ r.root \in {"bad", "operator", "other"}
  <2>1. C[f] \in {Indeterminate, Incompatible}
    BY <1>1, <1>2, <1>3, DepthAssumption DEF Call
  <2>. QED  BY <2>1, NotCompatibleSound
<1>4. CASE f.depth <= MaxDepth /\ r.root = "variables"
  <2>1. C[f] = VariableContract(d, r)
    BY <1>1, <1>2, <1>4, DepthAssumption DEF Call
  <2>2. v = lookupLiteral(Variable(d, r.name), r.path)
    BY <1>4 DEF Evaluate
  <2>. HIDE DEF C, v, r
  <2>3. Sound(C[f], v)
    BY <1>2, <2>1, <2>2, VariableSound
  <2>. QED  BY <2>3 DEF C, v, r
<1>5. CASE f.depth <= MaxDepth /\ r.root = "steps"
  <2>1. C[f] = StepContract(d, C, r, s, f.active, f.depth)
    BY <1>1, <1>2, <1>5, DepthAssumption DEF Call
  <2>. QED  BY <1>5, <2>1, StepSound
<1>6. CASE f.depth <= MaxDepth /\ r.root = "outputs"
  <2>1. C[f] = OutputContract(d, C, r, s, f.active, f.depth)
    BY <1>1, <1>2, <1>6, DepthAssumption DEF Call
  <2>. QED  BY <1>6, <2>1, OutputSound
<1>7. CASE f.depth <= MaxDepth /\ r.root = "status"
  <2>1. C[f] = IF shape(d, s.op).protocol = "http" THEN Proved(Typed("integer")) ELSE Indeterminate
    BY <1>1, <1>2, <1>7, DepthAssumption DEF Call
  <2>. QED  BY <1>7, <2>1, StatusSound
<1>8. CASE f.depth <= MaxDepth /\ r.root \in {"body", "header"}
  <2>1. C[f] = ResponseContract(d, r, s)
    BY <1>1, <1>2, <1>8, DepthAssumption DEF Call
  <2>2. Sound(ResponseContract(d, r, s), ResponseValue(r, env.response))
    <3>. HIDE DEF r, s
    <3>1. s.op # NoOperation => /\ s.op \in DOMAIN d.operations
                                /\ env.response \in Responses(d.operations[s.op].actual)
      BY <1>8 DEF ResponseFits, r, s
    <3>. QED  BY <1>2, <1>8, <3>1, ResponseSound
  <2>3. v = ResponseValue(r, env.response)
    BY <1>8 DEF Evaluate, ResponseValue
  <2>. QED  BY <2>1, <2>2, <2>3
<1>. QED  BY <1>2, <1>3, <1>4, <1>5, <1>6, <1>7, <1>8, DepthAssumption DEF Roots

-----------------------------------------------------------------------------
(* The outputs of one owner. *)

(* Output names have positions in the alphabet, and it has no others. *)
LEMMA Positions ==
  /\ Len(Alphabet) \in Nat
  /\ \A n \in OutputNames : Position(n) \in 1..Len(Alphabet) /\ Alphabet[Position(n)] = n
  /\ \A k \in 1..Len(Alphabet) : Alphabet[k] \in OutputNames /\ Position(Alphabet[k]) = k
<1>1. DOMAIN Alphabet = 1..Len(Alphabet) /\ Len(Alphabet) \in Nat
  BY ExpressionsAssumption
<1>2. \A i, j \in DOMAIN Alphabet : Alphabet[i] = Alphabet[j] => i = j
  BY ExpressionsAssumption DEF IsInjective
<1>. QED  BY <1>1, <1>2 DEF OutputNames, Position

(* What Resolve holds after each name of the alphabet. *)
LEMMA ResolveLaw ==
  ASSUME NEW d, NEW outputs, NEW env, NEW N \in Nat, N = Len(Alphabet)
  PROVE  \E after :
           /\ after[0] = <<>> /\ after[N] = Resolve(d, outputs, env)
           /\ \A k \in 1..N : after[k] = ResolveNext(d, outputs, env, after[k - 1], Alphabet[k])
<1>. DEFINE Next1(x, n) == ResolveNext(d, outputs, env, x, Alphabet[n])
            Run(f, k) == f = [i \in 0..k |-> IF i = 0 THEN <<>> ELSE Next1(f[i - 1], i)]
            S == {k \in Nat : \E f : Run(f, k)}
<1>1. 0 \in S
  <2>. DEFINE f == [i \in 0..0 |-> <<>>]
  <2>1. Run(f, 0)
    OBVIOUS
  <2>. QED  BY <2>1
<1>2. ASSUME NEW k \in Nat, k \in S PROVE k + 1 \in S
  <2>1. PICK f : Run(f, k)
    BY <1>2
  <2>. HIDE DEF Next1
  <2>. DEFINE g == [i \in 0..(k + 1) |-> IF i = k + 1 THEN Next1(f[k], i) ELSE f[i]]
              h == [i \in 0..(k + 1) |-> IF i = 0 THEN <<>> ELSE Next1(g[i - 1], i)]
  <2>2. ASSUME NEW i \in 0..(k + 1) PROVE g[i] = h[i]
    <3>1. CASE i = k + 1
      BY <3>1
    <3>2. CASE i # k + 1
      <4>1. i \in 0..k /\ (i # 0 => i - 1 \in 0..k)
        BY <3>2
      <4>. QED  BY <4>1, <2>1
    <3>. QED  BY <3>1, <3>2
  <2>3. g = h
    BY <2>2, Zenon
  <2>4. Run(g, k + 1)
    BY <2>3
  <2>5. \E e : Run(e, k + 1)
    <3>. HIDE DEF g, Run
    <3>. QED  BY <2>4
  <2>. QED  BY <2>5
<1>3. N \in S
  <2>. HIDE DEF S
  <2>. QED  BY <1>1, <1>2, SetInduction
<1>. DEFINE L == CHOOSE f : Run(f, N)
<1>4. Run(L, N)
  <2>. HIDE DEF Run
  <2>. QED  BY <1>3
<1>5. Resolve(d, outputs, env) = L[N]
  BY DEF Resolve
<1>. HIDE DEF Next1, L
<1>6. \A n \in 0..N : L[n] = IF n = 0 THEN <<>> ELSE Next1(L[n - 1], n)
  BY <1>4, Zenon
<1>7. L[0] = <<>> /\ \A n \in 1..N : L[n] = Next1(L[n - 1], n)
  BY <1>6
<1>. QED  BY <1>5, <1>7 DEF Next1

Resolving(s, outputs, n) == [s EXCEPT !.outputs = outputs, !.outputName = n]

(* The values of the outputs up to a position.                               *)
ResolvedTo(d, outputs, s, k, acc) ==
  /\ DOMAIN acc \subseteq {n \in DOMAIN outputs : Position(n) <= k}
  /\ Resolved(acc) => DOMAIN acc = {n \in DOMAIN outputs : Position(n) <= k}
  /\ \A n \in DOMAIN acc : SoundAt(d, outputs[n], Resolving(s, outputs, n), acc[n])

(* The next output is evaluated on outputs that are as their contracts       *)
(* say.                                                                      *)
LEMMA ResolveStep ==
  ASSUME NEW d, DocumentFits(d), ShapesReproduced(d), NEW outputs \in OutputMaps, NEW s \in Scopes,
         NEW env, DOMAIN env = {"results", "outputs", "http", "response"},
         InWorkflow(d, s, env.results), ResponseFits(d, s, env),
         NEW k \in Nat, k + 1 \in 1..Len(Alphabet), NEW acc, ResolvedTo(d, outputs, s, k, acc)
  PROVE  ResolvedTo(d, outputs, s, k + 1, ResolveNext(d, outputs, env, acc, Alphabet[k + 1]))
<1>. DEFINE name == Alphabet[k + 1]
            next == ResolveNext(d, outputs, env, acc, name)
<1>1. name \in OutputNames /\ Position(name) = k + 1
  BY Positions
<1>2. \A n \in DOMAIN outputs : /\ n \in OutputNames /\ Position(n) \in Nat
                                /\ Position(n) <= k + 1 <=> Position(n) <= k \/ n = name
  <2>1. ASSUME NEW n \in DOMAIN outputs
        PROVE  n \in OutputNames /\ Position(n) \in Nat /\ Alphabet[Position(n)] = n
    <3>1. n \in OutputNames
      BY Names
    <3>2. Position(n) \in 1..Len(Alphabet) /\ Alphabet[Position(n)] = n /\ Len(Alphabet) \in Nat
      BY <3>1, Positions
    <3>. QED  BY <3>1, <3>2
  <2>. QED  BY <1>1, <2>1
<1>3. CASE name \notin DOMAIN outputs \/ ~Resolved(acc)
  <2>1. next = acc
    BY <1>3 DEF ResolveNext, Resolved
  <2>2. {n \in DOMAIN outputs : Position(n) <= k} \subseteq {n \in DOMAIN outputs : Position(n) <= k + 1}
    BY <1>2
  <2>3. name \notin DOMAIN outputs =>
          {n \in DOMAIN outputs : Position(n) <= k} = {n \in DOMAIN outputs : Position(n) <= k + 1}
    BY <1>2
  <2>4. DOMAIN acc \subseteq {n \in DOMAIN outputs : Position(n) <= k + 1}
    BY <2>2 DEF ResolvedTo
  <2>5. Resolved(acc) => DOMAIN acc = {n \in DOMAIN outputs : Position(n) <= k + 1}
    BY <1>3, <2>3 DEF ResolvedTo
  <2>6. \A n \in DOMAIN acc : SoundAt(d, outputs[n], Resolving(s, outputs, n), acc[n])
    BY DEF ResolvedTo
  <2>. HIDE DEF next, name
  <2>7. ResolvedTo(d, outputs, s, k + 1, acc)
    BY <2>4, <2>5, <2>6 DEF ResolvedTo
  <2>. QED  BY <2>1, <2>7 DEF next, name
<1>4. CASE name \in DOMAIN outputs /\ Resolved(acc)
  <2>. DEFINE e == [env EXCEPT !.outputs = acc]
              v == Evaluate(d, outputs[name], e)
              at == Resolving(s, outputs, name)
  <2>1. next = With(acc, name, v)
    BY <1>4 DEF ResolveNext, Resolved
  <2>2. DOMAIN acc = {n \in DOMAIN outputs : Position(n) <= k}
    BY <1>4 DEF ResolvedTo
  <2>3. DOMAIN next = {n \in DOMAIN outputs : Position(n) <= k + 1}
    <3>1. DOMAIN next = DOMAIN acc \cup {name}
      BY <2>1 DEF With
    <3>. HIDE DEF next, name
    <3>. QED  BY <1>2, <1>4, <2>2, <3>1
  <2>4. /\ at.outputs = outputs /\ at.outputName = name /\ at.workflow = s.workflow
        /\ at.step = s.step /\ at.op = s.op
    BY DEF Resolving, Scopes
  <2>5. \A n : [at EXCEPT !.outputName = n] = Resolving(s, outputs, n)
    BY DEF Resolving, Scopes
  <2>6. OutputsSound(d, at, acc)
    <3>1. ASSUME NEW n \in DOMAIN outputs, Before(n, name)
          PROVE  n \in DOMAIN acc /\ SoundAt(d, outputs[n], Resolving(s, outputs, n), acc[n])
      <4>1. Position(n) <= k
        BY <1>1, <1>2, <3>1 DEF Before
      <4>2. n \in DOMAIN acc
        BY <2>2, <4>1
      <4>. QED  BY <4>2 DEF ResolvedTo
    <3>. HIDE DEF at, name
    <3>. QED  BY <2>4, <2>5, <3>1 DEF OutputsSound
  <2>7. e.results = env.results /\ e.outputs = acc /\ e.response = env.response /\ e.http = env.http
    OBVIOUS
  <2>14. InWorkflow(d, at, e.results)
    <3>. HIDE DEF at, e
    <3>. QED  BY <2>4, <2>7 DEF InWorkflow
  <2>8. ResponseFits(d, at, e)
    <3>. HIDE DEF at, e
    <3>. QED  BY <2>4, <2>7 DEF ResponseFits
  <2>9. SoundAt(d, outputs[name], at, v)
    <3>1. SUFFICES ASSUME NEW g \in Frames, g.ref = outputs[name], g.scope = at
                   PROVE  Sound(Contracts(d)[g], v)
      BY DEF SoundAt
    <3>2. Sound(Contracts(d)[g], Evaluate(d, g.ref, e))
      <4>. HIDE DEF at, e, name
      <4>. QED  BY <2>4, <2>6, <2>7, <2>8, <2>14, <3>1, EvaluateSound
    <3>. QED  BY <3>1, <3>2
  <2>10. ASSUME NEW n \in DOMAIN next PROVE SoundAt(d, outputs[n], Resolving(s, outputs, n), next[n])
    <3>1. CASE n = name
      <4>1. next[n] = v
        BY <2>1, <3>1 DEF With
      <4>. HIDE DEF next, v, name
      <4>. QED  BY <2>9, <3>1, <4>1 DEF at
    <3>2. CASE n # name
      <4>1. next[n] = acc[n] /\ n \in DOMAIN acc
        BY <2>1, <2>10, <3>2 DEF With
      <4>. QED  BY <4>1 DEF ResolvedTo
    <3>. QED  BY <3>1, <3>2
  <2>11. \A n \in DOMAIN next : SoundAt(d, outputs[n], Resolving(s, outputs, n), next[n])
    BY <2>10
  <2>. HIDE DEF next
  <2>12. DOMAIN next \subseteq {n \in DOMAIN outputs : Position(n) <= k + 1}
    BY <2>3
  <2>13. ResolvedTo(d, outputs, s, k + 1, next)
    BY <2>3, <2>11, <2>12 DEF ResolvedTo
  <2>. QED  BY <2>13 DEF next
<1>. QED  BY <1>3, <1>4

(* Resolve's outputs are as their contracts say; and when every one of them  *)
(* resolves, all of the declared ones are there.                             *)
THEOREM ResolveSound ==
  ASSUME NEW d, DocumentFits(d), ShapesReproduced(d), NEW outputs \in OutputMaps, NEW s \in Scopes,
         NEW env, DOMAIN env = {"results", "outputs", "http", "response"},
         InWorkflow(d, s, env.results), ResponseFits(d, s, env),
         NEW values, values = Resolve(d, outputs, env)
  PROVE  /\ DOMAIN values \subseteq DOMAIN outputs
         /\ Resolved(values) => DOMAIN values = DOMAIN outputs
         /\ \A n \in DOMAIN values : SoundAt(d, outputs[n], Resolving(s, outputs, n), values[n])
<1>. DEFINE N == Len(Alphabet)
<1>1. N \in Nat
  BY Positions
<1>2. PICK after : /\ after[0] = <<>> /\ after[N] = values
                   /\ \A k \in 1..N : after[k] = ResolveNext(d, outputs, env, after[k - 1], Alphabet[k])
  BY <1>1, ResolveLaw
<1>3. \A n \in DOMAIN outputs : Position(n) \in Nat /\ Position(n) > 0 /\ Position(n) <= N
  <2>1. \A n \in DOMAIN outputs : n \in OutputNames
    BY Names
  <2>. QED  BY <1>1, <2>1, Positions
<1>. DEFINE S == {k \in Nat : k <= N => ResolvedTo(d, outputs, s, k, after[k])}
<1>4. 0 \in S
  <2>1. DOMAIN after[0] = {}
    BY <1>2
  <2>2. {n \in DOMAIN outputs : Position(n) <= 0} = {}
    BY <1>3
  <2>. QED  BY <2>1, <2>2 DEF ResolvedTo
<1>5. ASSUME NEW k \in Nat, k \in S PROVE k + 1 \in S
  <2>. SUFFICES ASSUME k + 1 <= N PROVE ResolvedTo(d, outputs, s, k + 1, after[k + 1])
    OBVIOUS
  <2>1. k + 1 \in 1..N /\ ResolvedTo(d, outputs, s, k, after[k])
    BY <1>1, <1>5
  <2>2. after[k + 1] = ResolveNext(d, outputs, env, after[k], Alphabet[k + 1])
    BY <1>2, <2>1
  <2>3. ResolvedTo(d, outputs, s, k + 1, ResolveNext(d, outputs, env, after[k], Alphabet[k + 1]))
    BY <2>1, ResolveStep
  <2>. QED  BY <2>2, <2>3
<1>6. ResolvedTo(d, outputs, s, N, values)
  <2>1. Nat \subseteq S
    <3>. HIDE DEF S
    <3>. QED  BY <1>4, <1>5, SetInduction
  <2>. QED  BY <1>1, <1>2, <2>1
<1>7. {n \in DOMAIN outputs : Position(n) <= N} = DOMAIN outputs
  BY <1>1, <1>3
<1>. QED  BY <1>6, <1>7 DEF ResolvedTo

-----------------------------------------------------------------------------
(* Findings. *)

(* The outcome is among the findings. *)
Reports(found, outcome) == \E i \in DOMAIN found : found[i] = outcome

(* Findings are kept when others follow or precede them. *)
LEMMA ReportsEither ==
  ASSUME NEW e \in Seq(Outcomes), NEW f \in Seq(Outcomes), NEW x
  PROVE  /\ e \o f \in Seq(Outcomes)
         /\ Reports(e, x) \/ Reports(f, x) => Reports(e \o f, x)
<1>1. CASE Reports(e, x)
  <2>1. PICK i \in DOMAIN e : e[i] = x
    BY <1>1 DEF Reports
  <2>2. i \in DOMAIN (e \o f) /\ (e \o f)[i] = x
    BY <2>1
  <2>. QED  BY <2>2 DEF Reports
<1>2. CASE Reports(f, x)
  <2>1. PICK i \in DOMAIN f : f[i] = x
    BY <1>2 DEF Reports
  <2>2. Len(e) + i \in DOMAIN (e \o f) /\ (e \o f)[Len(e) + i] = x
    BY <2>1
  <2>. QED  BY <2>2 DEF Reports
<1>3. e \o f \in Seq(Outcomes)
  OBVIOUS
<1>. QED  BY <1>1, <1>2, <1>3

(* The findings a check makes on its own. *)
LEMMA OneFinding ==
  /\ <<>> \in Seq(Outcomes) /\ <<"indeterminate">> \in Seq(Outcomes)
  /\ <<"incompatible">> \in Seq(Outcomes) /\ Reports(<<"incompatible">>, "incompatible")
<1>1. ASSUME NEW x \in Outcomes PROVE <<x>> \in Seq(Outcomes) /\ Reports(<<x>>, x)
  BY DEF Reports
<1>. QED  BY <1>1 DEF Outcomes

(* ReportedAs reports the outcome if it was among those found. *)
LEMMA ReportedOnce ==
  ASSUME NEW status, NEW reported \in SUBSET Outcomes
  PROVE  /\ ReportedAs(status, reported) \in Seq(Outcomes)
         /\ status \in reported => Reports(ReportedAs(status, reported), status)
<1>1. CASE status \in reported
  <2>1. ReportedAs(status, reported) = <<status>>
    BY <1>1 DEF ReportedAs
  <2>2. 1 \in DOMAIN <<status>> /\ <<status>>[1] = status /\ <<status>> \in Seq(Outcomes)
    BY <1>1
  <2>. QED  BY <2>1, <2>2 DEF Reports
<1>2. CASE status \notin reported
  BY <1>2 DEF ReportedAs
<1>. QED  BY <1>1, <1>2

(* What Joined holds after each check. *)
LEMMA JoinedLaw ==
  ASSUME NEW found, NEW N \in Nat
  PROVE  \E after : /\ after[0] = <<>> /\ after[N] = Joined(found, N)
                   /\ \A k \in 1..N : after[k] = after[k - 1] \o found[k]
<1>. DEFINE Next1(x, n) == x \o found[n]
            Run(f, k) == f = [i \in 0..k |-> IF i = 0 THEN <<>> ELSE Next1(f[i - 1], i)]
            S == {k \in Nat : \E f : Run(f, k)}
<1>1. 0 \in S
  <2>. DEFINE f == [i \in 0..0 |-> <<>>]
  <2>1. Run(f, 0)
    OBVIOUS
  <2>. QED  BY <2>1
<1>2. ASSUME NEW k \in Nat, k \in S PROVE k + 1 \in S
  <2>1. PICK f : Run(f, k)
    BY <1>2
  <2>. HIDE DEF Next1
  <2>. DEFINE g == [i \in 0..(k + 1) |-> IF i = k + 1 THEN Next1(f[k], i) ELSE f[i]]
              h == [i \in 0..(k + 1) |-> IF i = 0 THEN <<>> ELSE Next1(g[i - 1], i)]
  <2>2. ASSUME NEW i \in 0..(k + 1) PROVE g[i] = h[i]
    <3>1. CASE i = k + 1
      BY <3>1
    <3>2. CASE i # k + 1
      <4>1. i \in 0..k /\ (i # 0 => i - 1 \in 0..k)
        BY <3>2
      <4>. QED  BY <4>1, <2>1
    <3>. QED  BY <3>1, <3>2
  <2>3. g = h
    BY <2>2, Zenon
  <2>4. Run(g, k + 1)
    BY <2>3
  <2>5. \E e : Run(e, k + 1)
    <3>. HIDE DEF g, Run
    <3>. QED  BY <2>4
  <2>. QED  BY <2>5
<1>3. N \in S
  <2>. HIDE DEF S
  <2>. QED  BY <1>1, <1>2, SetInduction
<1>. DEFINE L == CHOOSE f : Run(f, N)
<1>4. Run(L, N)
  <2>. HIDE DEF Run
  <2>. QED  BY <1>3
<1>5. Joined(found, N) = L[N]
  BY DEF Joined
<1>. HIDE DEF Next1, L
<1>6. \A n \in 0..N : L[n] = IF n = 0 THEN <<>> ELSE Next1(L[n - 1], n)
  BY <1>4, Zenon
<1>7. L[0] = <<>> /\ \A n \in 1..N : L[n] = Next1(L[n - 1], n)
  BY <1>6
<1>. QED  BY <1>5, <1>7 DEF Next1

(* What one check reports is among the findings of all of them.              *)
LEMMA JoinedReports ==
  ASSUME NEW found, NEW N \in Nat, \A k \in 1..N : found[k] \in Seq(Outcomes)
  PROVE  /\ Joined(found, N) \in Seq(Outcomes)
         /\ \A k \in 1..N : \A x : Reports(found[k], x) => Reports(Joined(found, N), x)
<1>1. PICK joined : /\ joined[0] = <<>> /\ joined[N] = Joined(found, N)
                    /\ \A k \in 1..N : joined[k] = joined[k - 1] \o found[k]
  BY JoinedLaw
<1>. DEFINE Has(n) == /\ joined[n] \in Seq(Outcomes)
                      /\ \A k \in 1..n : \A x : Reports(found[k], x) => Reports(joined[n], x)
            S == {n \in Nat : n <= N => Has(n)}
<1>2. 0 \in S
  <2>1. joined[0] \in Seq(Outcomes)
    BY <1>1
  <2>2. 1..0 = {}
    OBVIOUS
  <2>. QED  BY <2>1, <2>2
<1>3. ASSUME NEW n \in Nat, n \in S PROVE n + 1 \in S
  <2>. SUFFICES ASSUME n + 1 <= N PROVE Has(n + 1)
    OBVIOUS
  <2>1. Has(n) /\ n + 1 \in 1..N /\ (n + 1) - 1 = n
    BY <1>3
  <2>2. joined[n + 1] = joined[n] \o found[n + 1] /\ found[n + 1] \in Seq(Outcomes)
    <3>1. joined[n + 1] = joined[(n + 1) - 1] \o found[n + 1]
      BY <1>1, <2>1
    <3>2. joined[(n + 1) - 1] = joined[n]
      BY <2>1, Zenon
    <3>. QED  BY <2>1, <3>1, <3>2
  <2>3. joined[n + 1] \in Seq(Outcomes)
        /\ \A x : Reports(joined[n], x) \/ Reports(found[n + 1], x) => Reports(joined[n + 1], x)
    BY <2>1, <2>2, ReportsEither
  <2>4. ASSUME NEW k \in 1..(n + 1), NEW x, Reports(found[k], x) PROVE Reports(joined[n + 1], x)
    <3>1. CASE k = n + 1
      BY <2>3, <2>4, <3>1
    <3>2. CASE k # n + 1
      <4>1. k \in 1..n
        BY <3>2
      <4>. QED  BY <2>1, <2>3, <2>4, <4>1
    <3>. QED  BY <3>1, <3>2
  <2>. QED  BY <2>3, <2>4
<1>4. N \in S
  <2>. HIDE DEF S
  <2>. QED  BY <1>2, <1>3, SetInduction
<1>. QED  BY <1>1, <1>4

NoFindings == [findings |-> 0, truncated |-> FALSE, outcome |-> "compatible"]

(* What Tally holds after each finding. *)
LEMMA TallyLaw ==
  ASSUME NEW found, NEW N \in Nat, N = Len(found)
  PROVE  \E after : /\ after[0] = NoFindings /\ after[N] = Tally(found)
                   /\ \A k \in 1..N : after[k] = add(after[k - 1], found[k])
<1>. DEFINE Next1(x, n) == add(x, found[n])
            Run(f, k) == f = [i \in 0..k |-> IF i = 0 THEN NoFindings ELSE Next1(f[i - 1], i)]
            S == {k \in Nat : \E f : Run(f, k)}
<1>1. 0 \in S
  <2>. DEFINE f == [i \in 0..0 |-> NoFindings]
  <2>1. Run(f, 0)
    OBVIOUS
  <2>. QED  BY <2>1
<1>2. ASSUME NEW k \in Nat, k \in S PROVE k + 1 \in S
  <2>1. PICK f : Run(f, k)
    BY <1>2
  <2>. HIDE DEF Next1
  <2>. DEFINE g == [i \in 0..(k + 1) |-> IF i = k + 1 THEN Next1(f[k], i) ELSE f[i]]
              h == [i \in 0..(k + 1) |-> IF i = 0 THEN NoFindings ELSE Next1(g[i - 1], i)]
  <2>2. ASSUME NEW i \in 0..(k + 1) PROVE g[i] = h[i]
    <3>1. CASE i = k + 1
      BY <3>1
    <3>2. CASE i # k + 1
      <4>1. i \in 0..k /\ (i # 0 => i - 1 \in 0..k)
        BY <3>2
      <4>. QED  BY <4>1, <2>1
    <3>. QED  BY <3>1, <3>2
  <2>3. g = h
    BY <2>2, Zenon
  <2>4. Run(g, k + 1)
    BY <2>3
  <2>5. \E e : Run(e, k + 1)
    <3>. HIDE DEF g, Run
    <3>. QED  BY <2>4
  <2>. QED  BY <2>5
<1>3. N \in S
  <2>. HIDE DEF S
  <2>. QED  BY <1>1, <1>2, SetInduction
<1>. DEFINE L == CHOOSE f : Run(f, N)
<1>4. Run(L, N)
  <2>. HIDE DEF Run
  <2>. QED  BY <1>3
<1>5. Tally(found) = L[N]
  BY DEF Tally, NoFindings
<1>. HIDE DEF Next1, L
<1>6. \A n \in 0..N : L[n] = IF n = 0 THEN NoFindings ELSE Next1(L[n - 1], n)
  BY <1>4, Zenon
<1>7. L[0] = NoFindings /\ \A n \in 1..N : L[n] = Next1(L[n - 1], n)
  BY <1>6
<1>. QED  BY <1>5, <1>7 DEF Next1

Rank(outcome) == CASE outcome = "compatible" -> 0 [] outcome = "indeterminate" -> 1
                   [] outcome = "incompatible" -> 2

(* add never lowers the outcome, and raises it to the finding's, kept or     *)
(* not.                                                                      *)
LEMMA AddRaises ==
  ASSUME NEW acc, acc.outcome \in Outcomes, NEW outcome \in Outcomes
  PROVE  /\ add(acc, outcome).outcome \in Outcomes
         /\ Rank(add(acc, outcome).outcome) >= Rank(acc.outcome)
         /\ Rank(add(acc, outcome).outcome) >= Rank(outcome)
  BY DEF add, Rank, Outcomes

(* However many findings there are, and however many of them are kept, the   *)
(* outcome of the assessment is the worst of them (add).                     *)
THEOREM TallyWorst ==
  ASSUME NEW found \in Seq(Outcomes)
  PROVE  /\ Tally(found).outcome \in Outcomes
         /\ \A x \in Outcomes : Reports(found, x) => Rank(Tally(found).outcome) >= Rank(x)
<1>. DEFINE N == Len(found)
<1>0. N \in Nat /\ DOMAIN found = 1..N /\ \A x \in Outcomes : Rank(x) \in Nat
  BY DEF Rank, Outcomes
<1>1. PICK after : /\ after[0] = NoFindings /\ after[N] = Tally(found)
                   /\ \A k \in 1..N : after[k] = add(after[k - 1], found[k])
  BY <1>0, TallyLaw
<1>. DEFINE Worst(n) == /\ after[n].outcome \in Outcomes
                        /\ \A k \in 1..n : Rank(after[n].outcome) >= Rank(found[k])
            S == {n \in Nat : n <= N => Worst(n)}
<1>2. 0 \in S
  BY <1>1 DEF NoFindings, Outcomes
<1>3. ASSUME NEW n \in Nat, n \in S PROVE n + 1 \in S
  <2>. SUFFICES ASSUME n + 1 <= N PROVE Worst(n + 1)
    OBVIOUS
  <2>1. Worst(n) /\ n + 1 \in 1..N /\ found[n + 1] \in Outcomes
    BY <1>0, <1>3
  <2>2. after[n + 1] = add(after[n], found[n + 1])
    BY <1>1, <2>1
  <2>3. /\ after[n + 1].outcome \in Outcomes
        /\ Rank(after[n + 1].outcome) >= Rank(after[n].outcome)
        /\ Rank(after[n + 1].outcome) >= Rank(found[n + 1])
    BY <2>1, <2>2, AddRaises
  <2>4. ASSUME NEW k \in 1..(n + 1) PROVE Rank(after[n + 1].outcome) >= Rank(found[k])
    <3>1. CASE k = n + 1
      BY <2>3, <3>1
    <3>2. CASE k # n + 1
      <4>1. k \in 1..n /\ k \in 1..N
        BY <2>1, <3>2
      <4>2. Rank(found[k]) \in Nat /\ Rank(after[n].outcome) \in Nat /\ Rank(after[n + 1].outcome) \in Nat
        BY <1>0, <2>1, <2>3, <4>1
      <4>. QED  BY <2>1, <2>3, <4>1, <4>2
    <3>. QED  BY <3>1, <3>2
  <2>. QED  BY <2>3, <2>4
<1>4. N \in S
  <2>. HIDE DEF S
  <2>. QED  BY <1>0, <1>2, <1>3, SetInduction
<1>. QED  BY <1>0, <1>1, <1>4 DEF Reports

(* What Tally holds after n findings: as many as were found, or as many as   *)
(* are kept, and an outcome that was found.                                  *)
TallyAfter(found, n, acc) ==
  /\ acc = [findings |-> IF n <= MaxFindings THEN n ELSE MaxFindings,
            truncated |-> IF n <= MaxFindings THEN FALSE ELSE TRUE, outcome |-> acc.outcome]
  /\ acc.outcome # "compatible" => \E k \in 1..n : found[k] = acc.outcome

(* And after one more. *)
LEMMA TallyStep ==
  ASSUME NEW found, NEW n \in Nat, NEW acc, TallyAfter(found, n, acc)
  PROVE  TallyAfter(found, n + 1, add(acc, found[n + 1]))
<1>. DEFINE next == add(acc, found[n + 1])
<1>0. MaxFindings \in Nat
  BY AssessmentAssumption
<1>1. /\ acc.findings = (IF n <= MaxFindings THEN n ELSE MaxFindings)
      /\ acc.truncated = IF n <= MaxFindings THEN FALSE ELSE TRUE
  <2>. DEFINE kept == IF n <= MaxFindings THEN n ELSE MaxFindings
              cut == IF n <= MaxFindings THEN FALSE ELSE TRUE
  <2>. HIDE DEF kept, cut
  <2>1. acc = [findings |-> kept, truncated |-> cut, outcome |-> acc.outcome]
    BY DEF TallyAfter, kept, cut
  <2>2. acc.findings = kept /\ acc.truncated = cut
    BY <2>1
  <2>. QED  BY <2>2 DEF kept, cut
<1>2. /\ next.findings = (IF acc.findings < MaxFindings THEN acc.findings + 1 ELSE acc.findings)
      /\ next.truncated = (acc.truncated \/ acc.findings >= MaxFindings)
      /\ next.outcome \in {acc.outcome, found[n + 1]}
  BY DEF add
<1>3. next = [findings |-> next.findings, truncated |-> next.truncated, outcome |-> next.outcome]
  BY DEF add
<1>. HIDE DEF next
<1>4. next.findings = IF n + 1 <= MaxFindings THEN n + 1 ELSE MaxFindings
  BY <1>0, <1>1, <1>2
<1>5. next.truncated = IF n + 1 <= MaxFindings THEN FALSE ELSE TRUE
  <2>1. CASE n + 1 <= MaxFindings
    <3>1. n <= MaxFindings /\ ~(n >= MaxFindings)
      BY <1>0, <2>1
    <3>2. acc.truncated = FALSE /\ acc.findings = n
      BY <1>1, <3>1, Zenon
    <3>3. ~(acc.findings >= MaxFindings)
      BY <3>1, <3>2
    <3>. QED  BY <1>2, <2>1, <3>2, <3>3, Zenon
  <2>2. CASE ~(n + 1 <= MaxFindings)
    <3>1. acc.findings >= MaxFindings
      BY <1>0, <1>1, <2>2
    <3>. QED  BY <1>2, <2>2, <3>1, Zenon
  <2>. QED  BY <2>1, <2>2
<1>6. ASSUME next.outcome # "compatible" PROVE \E k \in 1..(n + 1) : found[k] = next.outcome
  <2>1. CASE next.outcome = found[n + 1]
    BY <2>1
  <2>2. CASE next.outcome = acc.outcome
    <3>1. PICK k \in 1..n : found[k] = acc.outcome
      BY <1>6, <2>2 DEF TallyAfter
    <3>. QED  BY <2>2, <3>1
  <2>. QED  BY <1>2, <2>1, <2>2
<1>. QED  BY <1>3, <1>4, <1>5, <1>6 DEF TallyAfter, next

(* So it does for a whole list. *)
LEMMA TallyHolds ==
  ASSUME NEW found \in Seq(Outcomes)
  PROVE  TallyAfter(found, Len(found), Tally(found))
<1>. DEFINE N == Len(found)
<1>0. N \in Nat
  OBVIOUS
<1>1. PICK after : /\ after[0] = NoFindings /\ after[N] = Tally(found)
                   /\ \A k \in 1..N : after[k] = add(after[k - 1], found[k])
  BY <1>0, TallyLaw
<1>. DEFINE S == {n \in Nat : n <= N => TallyAfter(found, n, after[n])}
<1>2. 0 \in S
  <2>1. 0 <= MaxFindings
    BY AssessmentAssumption
  <2>2. TallyAfter(found, 0, NoFindings)
    BY <2>1 DEF NoFindings, TallyAfter
  <2>. HIDE DEF N
  <2>. QED  BY <1>1, <2>2
<1>3. ASSUME NEW n \in Nat, n \in S PROVE n + 1 \in S
  <2>. SUFFICES ASSUME n + 1 <= N PROVE TallyAfter(found, n + 1, after[n + 1])
    OBVIOUS
  <2>1. TallyAfter(found, n, after[n])
    BY <1>0, <1>3
  <2>2. after[n + 1] = add(after[n], found[n + 1])
    BY <1>0, <1>1
  <2>. QED  BY <2>1, <2>2, TallyStep
<1>4. N \in S
  <2>. HIDE DEF S
  <2>. QED  BY <1>0, <1>2, <1>3, SetInduction
<1>. QED  BY <1>0, <1>1, <1>4

(* Assess: two lists of as many findings with the same outcomes among them   *)
(* are one assessment, in whatever order the map's iteration found them, and *)
(* whichever of them the limit dropped.                                      *)
THEOREM TallyOrderless ==
  ASSUME NEW found \in Seq(Outcomes), NEW other \in Seq(Outcomes), Len(found) = Len(other),
         \A x \in Outcomes : Reports(found, x) <=> Reports(other, x)
  PROVE  Tally(found) = Tally(other)
<1>. DEFINE t == Tally(found)
            u == Tally(other)
<1>1. /\ t.outcome \in Outcomes /\ \A x \in Outcomes : Reports(found, x) => Rank(t.outcome) >= Rank(x)
      /\ u.outcome \in Outcomes /\ \A x \in Outcomes : Reports(other, x) => Rank(u.outcome) >= Rank(x)
  BY TallyWorst
<1>2. TallyAfter(found, Len(found), t) /\ TallyAfter(other, Len(found), u)
  <2>1. TallyAfter(other, Len(other), u)
    BY TallyHolds
  <2>. QED  BY <2>1, TallyHolds
<1>3. DOMAIN found = 1..Len(found) /\ DOMAIN other = 1..Len(found)
  OBVIOUS
<1>. HIDE DEF t, u
<1>4. /\ t.outcome # "compatible" => Reports(found, t.outcome)
      /\ u.outcome # "compatible" => Reports(other, u.outcome)
  BY <1>2, <1>3 DEF TallyAfter, Reports
<1>5. /\ t.outcome # "compatible" => Rank(u.outcome) >= Rank(t.outcome)
      /\ u.outcome # "compatible" => Rank(t.outcome) >= Rank(u.outcome)
  BY <1>1, <1>4
<1>6. t.outcome = u.outcome
  BY <1>1, <1>5 DEF Rank, Outcomes
<1>7. t = u
  BY <1>2, <1>6 DEF TallyAfter
<1>. QED  BY <1>7 DEF t, u

-----------------------------------------------------------------------------
(* What is found on a document. *)

(* The contract of a reference is the outermost call, and has an outcome. *)
LEMMA ContractIsCall ==
  ASSUME NEW d, DocumentFits(d), NEW r \in Expressions, NEW s \in Scopes
  PROVE  LET f == Frame(r, s, {}, 0)
         IN  /\ f \in Frames /\ f.ref = r /\ f.scope = s
             /\ ContractOf(d, r, s) = Contracts(d)[f] /\ ContractOf(d, r, s).status \in Outcomes
<1>. DEFINE f == Frame(r, s, {}, 0)
<1>1. f \in Frames /\ f.ref = r /\ f.scope = s /\ f.active = {} /\ f.depth = 0
  BY FrameFields
<1>2. Contracts(d)[f] = contract(d, f.ref, f.scope, f.active, f.depth)
  BY <1>1 DEF Contracts
<1>. HIDE DEF f
<1>3. Contracts(d)[f] = ContractOf(d, r, s)
  BY <1>1, <1>2 DEF ContractOf
<1>4. Contracts(d)[f].status \in Outcomes
  BY <1>1, StatusOutcomes
<1>. QED  BY <1>1, <1>3, <1>4 DEF f

(* A finding is made of every reference that is not compatible. *)
Covers(found, c) == c.status # "compatible" => Reports(found, c.status)

(* checkOutputs reports every output that is not compatible. *)
LEMMA OutputsReported ==
  ASSUME NEW d, DocumentFits(d), NEW outputs \in OutputMaps, NEW s \in Scopes,
         NEW found, found = checkOutputs(d, outputs, s)
  PROVE  /\ found \in Seq(Outcomes)
         /\ \A n \in DOMAIN outputs : Covers(found, ContractOf(d, outputs[n], Resolving(s, outputs, n)))
<1>. DEFINE status(n) == ContractOf(d, outputs[n], Resolving(s, outputs, n)).status
            bad == {"indeterminate", "incompatible"}
            one(n) == IF n \in DOMAIN outputs THEN ReportedAs(status(n), bad) ELSE <<>>
            all == [k \in DOMAIN Alphabet |-> one(Alphabet[k])]
            N == Len(Alphabet)
<1>1. found = Joined(all, N)
  BY DEF checkOutputs, Resolving
<1>2. DOMAIN Alphabet = 1..N /\ N \in Nat /\ bad \in SUBSET Outcomes
  BY ExpressionsAssumption DEF Outcomes
<1>. HIDE DEF status, bad
<1>3. ASSUME NEW k \in 1..N PROVE all[k] = one(Alphabet[k]) /\ one(Alphabet[k]) \in Seq(Outcomes)
  BY <1>2, ReportedOnce
<1>. HIDE DEF all, one
<1>4. /\ found \in Seq(Outcomes)
      /\ \A k \in 1..N : \A x : Reports(all[k], x) => Reports(found, x)
  BY <1>1, <1>2, <1>3, JoinedReports
<1>5. ASSUME NEW n \in DOMAIN outputs, status(n) # "compatible" PROVE Reports(found, status(n))
  <2>1. n \in OutputNames /\ outputs[n] \in Expressions
    BY Names
  <2>2. Resolving(s, outputs, n) \in Scopes
    BY <2>1 DEF Resolving, Scopes
  <2>3. status(n) \in Outcomes
    BY <2>1, <2>2, ContractIsCall DEF status
  <2>4. status(n) \in bad
    BY <1>5, <2>3 DEF bad, Outcomes
  <2>5. Position(n) \in 1..N /\ Alphabet[Position(n)] = n
    BY <2>1, Positions
  <2>6. all[Position(n)] = ReportedAs(status(n), bad)
    BY <1>3, <2>5 DEF one
  <2>7. Reports(all[Position(n)], status(n))
    BY <1>2, <2>4, <2>6, ReportedOnce
  <2>. QED  BY <1>4, <2>5, <2>7
<1>. QED  BY <1>4, <1>5 DEF Covers, status

(* The operations in some order are all of them. *)
LEMMA SequenceOfSet ==
  ASSUME NEW T, IsFiniteSet(T), NEW n, n = Cardinality(T), NEW seq, seq = SetToSeq(T)
  PROVE  /\ n \in Nat /\ \A k \in 1..n : seq[k] \in T
         /\ \A x \in T : \E k \in 1..n : seq[k] = x
<1>1. n \in Nat /\ ExistsBijection(1..n, T)
  BY FS_CardinalityType
<1>2. \E f \in [1..n -> T] : IsInjective(f)
  BY <1>1 DEF ExistsBijection, Bijection, Injection
<1>3. seq \in [1..n -> T] /\ IsInjective(seq)
  BY <1>2 DEF SetToSeq
<1>4. seq \in Injection(1..n, T)
  BY <1>3 DEF Injection
<1>5. IsFiniteSet(1..n) /\ Cardinality(1..n) = n
  BY <1>1, FS_Interval
<1>6. seq \in Surjection(1..n, T)
  BY <1>4, <1>5, FS_Injection
<1>. QED  BY <1>1, <1>3, <1>6 DEF Surjection

(* The scopes that checks begin with. *)
LEMMA EmptyOutputs ==
  /\ <<>> \in OutputMaps
  /\ \A w, i \in Nat, op \in STRING \cup {NoOperation} : Scope(w, i, op, <<>>, NoName) \in Scopes
<1>1. <<>> \in [{} -> Expressions]
  OBVIOUS
<1>2. <<>> \in OutputMaps
  BY <1>1 DEF OutputMaps
<1>. QED  BY <1>2 DEF Scope, Scopes

(* The uses of an operation are finitely many: the workflows' lengths are    *)
(* bounded.                                                                  *)
LEMMA UsesAreFinite ==
  ASSUME NEW d, DocumentFits(d), NEW op
  PROVE  IsFiniteSet(Uses(d, op))
<1>. DEFINE W == Len(d.workflows)
            steps(w) == Len(d.workflows[w].steps)
            S == {n \in Nat : n <= W => \E m \in Nat : \A w \in 1..n : steps(w) <= m}
<1>1. W \in Nat /\ DOMAIN d.workflows = 1..W
  BY DEF DocumentFits
<1>2. \A w \in 1..W : steps(w) \in Nat /\ DOMAIN d.workflows[w].steps = 1..steps(w)
  BY <1>1 DEF DocumentFits
<1>. HIDE DEF steps, W
<1>3. 0 \in S
  OBVIOUS
<1>4. ASSUME NEW n \in Nat, n \in S PROVE n + 1 \in S
  <2>. SUFFICES ASSUME n + 1 <= W PROVE \E m \in Nat : \A w \in 1..(n + 1) : steps(w) <= m
    OBVIOUS
  <2>1. PICK m \in Nat : \A w \in 1..n : steps(w) <= m
    BY <1>1, <1>4
  <2>2. steps(n + 1) \in Nat /\ \A w \in 1..n : steps(w) \in Nat
    BY <1>1, <1>2
  <2>3. m + steps(n + 1) \in Nat /\ \A w \in 1..(n + 1) : steps(w) <= m + steps(n + 1)
    BY <2>1, <2>2
  <2>. QED  BY <2>3
<1>5. W \in S
  <2>. HIDE DEF S
  <2>. QED  BY <1>1, <1>3, <1>4, SetInduction
<1>6. PICK m \in Nat : \A w \in 1..W : steps(w) <= m
  BY <1>1, <1>5
<1>7. Uses(d, op) \subseteq (1..W) \X (1..m)
  <2>1. SUFFICES ASSUME NEW w \in DOMAIN d.workflows, NEW u \in {w} \X DOMAIN d.workflows[w].steps
                 PROVE  u \in (1..W) \X (1..m)
    BY DEF Uses
  <2>2. PICK i \in DOMAIN d.workflows[w].steps : u = <<w, i>>
    BY <2>1
  <2>3. w \in 1..W /\ i \in 1..m
    BY <1>1, <1>2, <1>6, <2>2
  <2>. QED  BY <2>2, <2>3
<1>8. IsFiniteSet(1..W) /\ IsFiniteSet(1..m)
  BY <1>1, FS_Interval
<1>9. IsFiniteSet((1..W) \X (1..m))
  BY <1>8, FS_Product
<1>. QED  BY <1>7, <1>9, FS_Subset

(* The scope of an operation: its only use, or none. *)
LEMMA ScopeOfOperation ==
  ASSUME NEW d, DocumentFits(d), NEW i \in DOMAIN d.workflows[1].steps,
         NEW op, op = d.workflows[1].steps[i].op, NEW s, s = operationScope(d, op)
  PROVE  s \in Scopes /\ s.op = op /\ s.outputName = NoName
         /\ ((s.workflow = 1 /\ s.step = i) \/ s.workflow \notin DOMAIN d.workflows)
         /\ s.outputs = <<>>
<1>1. 1 \in DOMAIN d.workflows /\ 0 \notin DOMAIN d.workflows
  BY DEF DocumentFits
<1>2. op \in STRING /\ i \in Nat
  BY <1>1 DEF DocumentFits, StepFits
<1>3. CASE Cardinality(Uses(d, op)) # 1
  <2>1. s = Scope(0, 0, op, <<>>, NoName)
    BY <1>3 DEF operationScope
  <2>. QED  BY <1>1, <1>2, <2>1, EmptyOutputs DEF Scope
<1>4. CASE Cardinality(Uses(d, op)) = 1
  <2>1. PICK u : Uses(d, op) = {u}
    BY <1>4, UsesAreFinite, FS_Singleton
  <2>2. <<1, i>> \in Uses(d, op)
    <3>. DEFINE pairs == {1} \X DOMAIN d.workflows[1].steps
    <3>1. <<1, i>> \in pairs
      OBVIOUS
    <3>2. pairs \in {{w} \X DOMAIN d.workflows[w].steps : w \in DOMAIN d.workflows}
      BY <1>1
    <3>. QED  BY <3>1, <3>2 DEF Uses
  <2>. DEFINE v == CHOOSE v \in Uses(d, op) : TRUE
  <2>3. s = Scope(v[1], v[2], op, <<>>, NoName)
    BY <1>4 DEF operationScope
  <2>4. v = <<1, i>>
    BY <2>1, <2>2
  <2>. HIDE DEF v
  <2>5. s = Scope(1, i, op, <<>>, NoName)
    <3>1. v[1] = 1 /\ v[2] = i
      BY <2>4
    <3>. QED  BY <2>3, <3>1
  <2>. QED  BY <1>1, <1>2, <2>5, EmptyOutputs DEF Scope
<1>. QED  BY <1>3, <1>4

(* The scope an operation is checked in is one. *)
LEMMA OperationScopes ==
  ASSUME NEW d, DocumentFits(d), NEW op \in DOMAIN d.operations
  PROVE  operationScope(d, op) \in Scopes
<1>1. op \in STRING
  BY DEF DocumentFits
<1>2. CASE Cardinality(Uses(d, op)) # 1
  <2>1. operationScope(d, op) = Scope(0, 0, op, <<>>, NoName)
    BY <1>2 DEF operationScope
  <2>. QED  BY <1>1, <2>1, EmptyOutputs
<1>3. CASE Cardinality(Uses(d, op)) = 1
  <2>. DEFINE u == CHOOSE v \in Uses(d, op) : TRUE
  <2>1. operationScope(d, op) = Scope(u[1], u[2], op, <<>>, NoName)
    BY <1>3 DEF operationScope
  <2>2. Uses(d, op) # {}
    BY <1>3, FS_EmptySet
  <2>3. u \in Uses(d, op)
    BY <2>2
  <2>. HIDE DEF u
  <2>4. PICK w \in DOMAIN d.workflows : u \in {w} \X DOMAIN d.workflows[w].steps
    BY <2>3 DEF Uses
  <2>5. u[1] \in Nat /\ u[2] \in Nat
    <3>1. w \in Nat /\ \A i \in DOMAIN d.workflows[w].steps : i \in Nat
      BY DEF DocumentFits
    <3>. QED  BY <2>4, <3>1
  <2>. QED  BY <1>1, <2>1, <2>5, EmptyOutputs
<1>. QED  BY <1>2, <1>3

CoversRequest(found, exempt, c) ==
  /\ c.status = "incompatible" => Reports(found, "incompatible")
  /\ ~exempt => (c.status # "compatible" => Reports(found, "indeterminate"))

(* The findings of one operation cover its outputs and its request; a        *)
(* request of an authentication or registration is not validated further.    *)
LEMMA OperationReported ==
  ASSUME NEW d, DocumentFits(d), NEW op \in DOMAIN d.operations, NEW o, o = d.operations[op],
         NEW s, s = operationScope(d, op), NEW sup, NEW found, found = OperationFindings(d, sup, op),
         NEW exempt, exempt = (findBrowserCall(sup, op).kind \in {"authentication", "registration"})
  PROVE  /\ found \in Seq(Outcomes)
         /\ \A n \in DOMAIN o.outputs : Covers(found, ContractOf(d, o.outputs[n], Resolving(s, o.outputs, n)))
         /\ \A k \in DOMAIN o.request : CoversRequest(found, exempt, ContractOf(d, o.request[k], s))
<1>. DEFINE c(k) == ContractOf(d, o.request[k], s)
            outputs == checkOutputs(d, o.outputs, s)
            refused == {"incompatible"}
            all == [k \in DOMAIN o.request |-> ReportedAs(c(k).status, refused)]
            values == Joined(all, Len(o.request))
            typed == types(d, o.request, s)
            untyped == {k \in DOMAIN o.request : k \notin typed}
            bound == IF shape(d, op) = NoShape \/ untyped # {} THEN <<"indeterminate">> ELSE <<>>
            rest == IF exempt THEN <<>> ELSE bound
<1>1. s \in Scopes /\ OperationFits(o)
  BY OperationScopes DEF DocumentFits
<1>2. o.outputs \in OutputMaps /\ DOMAIN o.request = 1..Len(o.request) /\ Len(o.request) \in Nat
  BY <1>1 DEF OperationFits
<1>3. found = outputs \o values \o rest
  BY Zenon DEF OperationFindings, checkExpressionValues
<1>4. typed = {k \in DOMAIN o.request : c(k).status = "compatible"}
  BY DEF types
<1>5. outputs \in Seq(Outcomes)
      /\ \A n \in DOMAIN o.outputs : Covers(outputs, ContractOf(d, o.outputs[n], Resolving(s, o.outputs, n)))
  BY <1>1, <1>2, OutputsReported
<1>. HIDE DEF c
<1>6. \A k \in 1..Len(o.request) : all[k] = ReportedAs(c(k).status, refused)
  BY <1>2
<1>. HIDE DEF all
<1>7. /\ values \in Seq(Outcomes)
      /\ \A k \in DOMAIN o.request : c(k).status = "incompatible" => Reports(values, "incompatible")
  <2>1. refused \in SUBSET Outcomes
    BY DEF Outcomes
  <2>. DEFINE N == Len(o.request)
  <2>. HIDE DEF refused, N
  <2>2. N \in Nat /\ \A k \in 1..N : all[k] \in Seq(Outcomes)
    BY <1>2, <1>6, <2>1, ReportedOnce DEF N
  <2>3. /\ Joined(all, N) \in Seq(Outcomes)
        /\ \A k \in 1..N : \A x : Reports(all[k], x) => Reports(Joined(all, N), x)
    BY <2>2, JoinedReports
  <2>4. ASSUME NEW k \in DOMAIN o.request, c(k).status = "incompatible"
        PROVE  Reports(all[k], "incompatible")
    BY <1>2, <1>6, <2>1, <2>4, ReportedOnce DEF refused
  <2>. QED  BY <1>2, <2>3, <2>4 DEF N
<1>8. rest \in Seq(Outcomes)
      /\ \A k \in DOMAIN o.request : ~exempt /\ c(k).status # "compatible" => Reports(rest, "indeterminate")
  <2>1. bound \in Seq(Outcomes)
    <3>1. <<>> \in Seq(Outcomes) /\ <<"indeterminate">> \in Seq(Outcomes)
      BY OneFinding
    <3>. QED  BY <3>1
  <2>2. ASSUME NEW k \in DOMAIN o.request, ~exempt, c(k).status # "compatible"
        PROVE  Reports(rest, "indeterminate")
    <3>1. k \in untyped
      BY <1>4, <2>2
    <3>2. rest = <<"indeterminate">>
      BY <2>2, <3>1
    <3>3. 1 \in DOMAIN rest /\ rest[1] = "indeterminate"
      BY <3>2
    <3>. QED  BY <3>3 DEF Reports
  <2>. HIDE DEF bound, c
  <2>. QED  BY <2>1, <2>2
<1>. HIDE DEF outputs, values, rest
<1>9. /\ (outputs \o values) \o rest \in Seq(Outcomes)
      /\ \A x : Reports(outputs, x) \/ Reports(values, x) \/ Reports(rest, x)
                  => Reports((outputs \o values) \o rest, x)
  <2>1. outputs \o values \in Seq(Outcomes)
        /\ \A x : Reports(outputs, x) \/ Reports(values, x) => Reports(outputs \o values, x)
    BY <1>5, <1>7, ReportsEither
  <2>. QED  BY <1>8, <2>1, ReportsEither
<1>10. found \in Seq(Outcomes)
       /\ \A x : Reports(outputs, x) \/ Reports(values, x) \/ Reports(rest, x) => Reports(found, x)
  BY <1>3, <1>9
<1>11. ASSUME NEW n \in DOMAIN o.outputs
       PROVE  Covers(found, ContractOf(d, o.outputs[n], Resolving(s, o.outputs, n)))
  BY <1>5, <1>10 DEF Covers
<1>12. ASSUME NEW k \in DOMAIN o.request
       PROVE  /\ c(k).status = "incompatible" => Reports(found, "incompatible")
              /\ ~exempt => (c(k).status # "compatible" => Reports(found, "indeterminate"))
  BY <1>7, <1>8, <1>10
<1>. QED  BY <1>10, <1>11, <1>12 DEF c, CoversRequest

(* The findings of a step cover its outputs. *)
LEMMA StepReported ==
  ASSUME NEW d, DocumentFits(d), NEW w \in DOMAIN d.workflows, NEW i \in DOMAIN d.workflows[w].steps,
         NEW step, step = d.workflows[w].steps[i], NEW s, s = Scope(w, i, step.op, <<>>, NoName),
         NEW found, found = StepFindings(d, w, i)
  PROVE  /\ found \in Seq(Outcomes)
         /\ \A n \in DOMAIN step.outputs :
              Covers(found, ContractOf(d, step.outputs[n], Resolving(s, step.outputs, n)))
<1>. DEFINE outputs == checkOutputs(d, step.outputs, s)
            values == IF step.values THEN <<"indeterminate">> ELSE <<>>
<1>1. w \in Nat /\ i \in Nat /\ step.op \in STRING /\ step.outputs \in OutputMaps
  BY DEF DocumentFits, StepFits
<1>2. s \in Scopes
  BY <1>1, EmptyOutputs
<1>3. outputs \in Seq(Outcomes)
      /\ \A n \in DOMAIN step.outputs :
           Covers(outputs, ContractOf(d, step.outputs[n], Resolving(s, step.outputs, n)))
  BY <1>1, <1>2, OutputsReported
<1>4. values \in Seq(Outcomes)
  BY OneFinding
<1>5. found = outputs \o values
  BY Zenon DEF StepFindings
<1>. HIDE DEF outputs, values
<1>. QED  BY <1>3, <1>4, <1>5, ReportsEither, Zenon DEF Covers

(* The findings of a workflow cover its outputs, and hold those of its       *)
(* steps.                                                                    *)
LEMMA WorkflowReported ==
  ASSUME NEW d, DocumentFits(d), NEW w \in DOMAIN d.workflows, NEW workflow, workflow = d.workflows[w],
         NEW s, s = Scope(w, 0, NoOperation, <<>>, NoName), NEW found, found = WorkflowFindings(d, w)
  PROVE  /\ found \in Seq(Outcomes)
         /\ \A n \in DOMAIN workflow.outputs :
              Covers(found, ContractOf(d, workflow.outputs[n], Resolving(s, workflow.outputs, n)))
         /\ \A i \in DOMAIN workflow.steps : \A x : Reports(StepFindings(d, w, i), x) => Reports(found, x)
<1>. DEFINE outputs == checkOutputs(d, workflow.outputs, s)
            N == Len(workflow.steps)
            all == [i \in DOMAIN workflow.steps |-> StepFindings(d, w, i)]
            steps == Joined(all, N)
<1>1. w \in Nat /\ workflow.outputs \in OutputMaps /\ DOMAIN workflow.steps = 1..N /\ N \in Nat
  BY DEF DocumentFits
<1>2. s \in Scopes
  <2>. HIDE DEF NoOperation
  <2>. QED  BY <1>1, EmptyOutputs
<1>3. outputs \in Seq(Outcomes)
      /\ \A n \in DOMAIN workflow.outputs :
           Covers(outputs, ContractOf(d, workflow.outputs[n], Resolving(s, workflow.outputs, n)))
  BY <1>1, <1>2, OutputsReported
<1>4. found = outputs \o steps
  BY DEF WorkflowFindings
<1>5. \A i \in 1..N : all[i] = StepFindings(d, w, i)
  BY <1>1
<1>. HIDE DEF all, outputs
<1>6. \A i \in 1..N : StepFindings(d, w, i) \in Seq(Outcomes)
  BY <1>1, StepReported
<1>. HIDE DEF N
<1>7. /\ steps \in Seq(Outcomes)
      /\ \A i \in 1..N : \A x : Reports(all[i], x) => Reports(steps, x)
  BY <1>1, <1>5, <1>6, JoinedReports
<1>. HIDE DEF steps
<1>. QED  BY <1>1, <1>3, <1>4, <1>5, <1>7, ReportsEither DEF Covers

(* The findings of the document hold those of its operations and             *)
(* workflows.                                                                *)
LEMMA FindingsReported ==
  ASSUME NEW d, DocumentFits(d), NEW sup, NEW found, found = Findings(d, sup)
  PROVE  /\ found \in Seq(Outcomes)
         /\ \A op \in DOMAIN d.operations : \A x : Reports(OperationFindings(d, sup, op), x) => Reports(found, x)
         /\ \A w \in DOMAIN d.workflows : \A x : Reports(WorkflowFindings(d, w), x) => Reports(found, x)
<1>. DEFINE n == Cardinality(DOMAIN d.operations)
            seq == SetToSeq(DOMAIN d.operations)
            W == Len(d.workflows)
            ofOperations == [k \in 1..n |-> OperationFindings(d, sup, seq[k])]
            ofWorkflows == [k \in 1..W |-> WorkflowFindings(d, k)]
            operations == Joined(ofOperations, n)
            workflows == Joined(ofWorkflows, W)
            checks == d.checks
            flow == d.flow
<1>1. found = ((checks \o operations) \o workflows) \o flow
  BY DEF Findings
<1>2. /\ n \in Nat /\ \A k \in 1..n : seq[k] \in DOMAIN d.operations
      /\ \A op \in DOMAIN d.operations : \E k \in 1..n : seq[k] = op
  BY SequenceOfSet DEF DocumentFits
<1>3. W \in Nat /\ DOMAIN d.workflows = 1..W /\ checks \in Seq(Outcomes) /\ flow \in Seq(Outcomes)
  BY DEF DocumentFits
<1>. HIDE DEF n, seq, W, checks, flow
<1>4. \A k \in 1..n : ofOperations[k] = OperationFindings(d, sup, seq[k])
                      /\ OperationFindings(d, sup, seq[k]) \in Seq(Outcomes)
  BY <1>2, OperationReported
<1>5. \A k \in 1..W : ofWorkflows[k] = WorkflowFindings(d, k) /\ WorkflowFindings(d, k) \in Seq(Outcomes)
  BY <1>3, WorkflowReported
<1>. HIDE DEF ofOperations, ofWorkflows
<1>6. operations \in Seq(Outcomes)
      /\ \A k \in 1..n : \A x : Reports(ofOperations[k], x) => Reports(operations, x)
  BY <1>2, <1>4, JoinedReports
<1>7. workflows \in Seq(Outcomes)
      /\ \A k \in 1..W : \A x : Reports(ofWorkflows[k], x) => Reports(workflows, x)
  BY <1>3, <1>5, JoinedReports
<1>. HIDE DEF operations, workflows
<1>8. found \in Seq(Outcomes)
      /\ \A x : Reports(operations, x) \/ Reports(workflows, x) => Reports(found, x)
  <2>1. checks \o operations \in Seq(Outcomes)
        /\ \A x : Reports(operations, x) => Reports(checks \o operations, x)
    BY <1>3, <1>6, ReportsEither
  <2>2. (checks \o operations) \o workflows \in Seq(Outcomes)
        /\ \A x : Reports(operations, x) \/ Reports(workflows, x)
                    => Reports((checks \o operations) \o workflows, x)
    BY <1>7, <2>1, ReportsEither
  <2>. QED  BY <1>1, <1>3, <2>2, ReportsEither
<1>9. ASSUME NEW op \in DOMAIN d.operations, NEW x, Reports(OperationFindings(d, sup, op), x)
      PROVE  Reports(found, x)
  <2>1. PICK k \in 1..n : seq[k] = op
    BY <1>2
  <2>. QED  BY <1>4, <1>6, <1>8, <1>9, <2>1
<1>10. ASSUME NEW w \in DOMAIN d.workflows, NEW x, Reports(WorkflowFindings(d, w), x)
       PROVE  Reports(found, x)
  BY <1>3, <1>5, <1>7, <1>8, <1>10
<1>. QED  BY <1>8, <1>9, <1>10

(* What ContractSound asks of the outcome, for one reference.                *)
Exempt(sup, s) ==
  s.outputName = NoName /\ findBrowserCall(sup, s.op).kind \in {"authentication", "registration"}

Reviewed(d, sup, r, s) ==
  /\ Assess(d, sup).outcome = "compatible" /\ ~Exempt(sup, s) => ContractOf(d, r, s).status = "compatible"
  /\ Assess(d, sup).outcome = "indeterminate" => ContractOf(d, r, s).status # "incompatible"

(* A reference whose contract is among the findings is covered by the        *)
(* outcome.                                                                  *)
LEMMA OutcomeCovers ==
  ASSUME NEW d, DocumentFits(d), NEW sup, NEW r \in Expressions, NEW s \in Scopes,
         ContractOf(d, r, s).status = "incompatible" => Reports(Findings(d, sup), "incompatible"),
         ~Exempt(sup, s) =>
           (ContractOf(d, r, s).status = "indeterminate" => Reports(Findings(d, sup), "indeterminate"))
  PROVE  Reviewed(d, sup, r, s)
<1>. DEFINE found == IF d.valid THEN Findings(d, sup) ELSE <<"incompatible">>
            outcome == Tally(found).outcome
            status == ContractOf(d, r, s).status
<1>1. Assess(d, sup).outcome = outcome
  BY DEF Assess
<1>2. found \in Seq(Outcomes)
  BY FindingsReported, OneFinding
<1>3. status \in Outcomes
  BY ContractIsCall
<1>4. ~d.valid => Reports(found, "incompatible")
  BY OneFinding
<1>5. d.valid => found = Findings(d, sup)
  OBVIOUS
<1>. HIDE DEF found
<1>6. /\ outcome \in Outcomes
      /\ \A x \in Outcomes : Reports(found, x) => Rank(outcome) >= Rank(x)
  BY <1>2, TallyWorst
<1>. HIDE DEF outcome, status
<1>7. Reports(found, "incompatible") => outcome = "incompatible"
  BY <1>6 DEF Outcomes, Rank
<1>8. Reports(found, "indeterminate") => outcome # "compatible"
  BY <1>6 DEF Outcomes, Rank
<1>9. outcome = "compatible" /\ ~Exempt(sup, s) => status = "compatible"
  BY <1>3, <1>4, <1>5, <1>7, <1>8 DEF Outcomes, status
<1>10. outcome = "indeterminate" => status # "incompatible"
  BY <1>4, <1>5, <1>7 DEF status
<1>. QED  BY <1>1, <1>9, <1>10 DEF Reviewed, status

(* Findings that are among others cover what they cover. *)
LEMMA CoversIsReported ==
  ASSUME NEW found, NEW all, \A x : Reports(found, x) => Reports(all, x), NEW c, Covers(found, c)
  PROVE  /\ c.status = "incompatible" => Reports(all, "incompatible")
         /\ c.status = "indeterminate" => Reports(all, "indeterminate")
  BY DEF Covers

(* The scope of an output that is being resolved. *)
LEMMA ResolvingIsScope ==
  ASSUME NEW s \in Scopes, NEW outputs \in OutputMaps, NEW n \in DOMAIN outputs
  PROVE  Resolving(s, outputs, n) \in Scopes /\ outputs[n] \in Expressions
<1>1. n \in OutputNames /\ outputs[n] \in Expressions
  BY Names
<1>. QED  BY <1>1 DEF Resolving, Scopes

(* Build and Verify (Assess): the outcome covers every output of every       *)
(* operation, and every reference of its request but an exempt one.          *)
THEOREM OperationReviewed ==
  ASSUME NEW d, DocumentFits(d), NEW sup, NEW op \in DOMAIN d.operations,
         NEW o, o = d.operations[op], NEW s, s = operationScope(d, op)
  PROVE  /\ \A n \in DOMAIN o.outputs : Reviewed(d, sup, o.outputs[n], Resolving(s, o.outputs, n))
         /\ \A k \in DOMAIN o.request : Reviewed(d, sup, o.request[k], s)
<1>1. s \in Scopes /\ OperationFits(o)
  BY OperationScopes DEF DocumentFits
<1>2. o.outputs \in OutputMaps /\ \A k \in DOMAIN o.request : o.request[k] \in Expressions
  BY <1>1 DEF OperationFits
<1>. DEFINE found == OperationFindings(d, sup, op)
            all == Findings(d, sup)
            exempt == (findBrowserCall(sup, op).kind \in {"authentication", "registration"})
<1>0. found = OperationFindings(d, sup, op)
  OBVIOUS
<1>. HIDE DEF found
<1>3. /\ \A n \in DOMAIN o.outputs : Covers(found, ContractOf(d, o.outputs[n], Resolving(s, o.outputs, n)))
      /\ \A k \in DOMAIN o.request : CoversRequest(found, exempt, ContractOf(d, o.request[k], s))
  BY <1>0, OperationReported
<1>4. \A x : Reports(found, x) => Reports(all, x)
  BY <1>0, FindingsReported
<1>5. s.op = op /\ s.outputName = NoName
  BY DEF operationScope, Scope
<1>6. ASSUME NEW n \in DOMAIN o.outputs
      PROVE  Reviewed(d, sup, o.outputs[n], Resolving(s, o.outputs, n))
  <2>. DEFINE r == o.outputs[n]
              t == Resolving(s, o.outputs, n)
  <2>1. r \in Expressions /\ t \in Scopes
    BY <1>1, <1>2, ResolvingIsScope
  <2>2. Covers(found, ContractOf(d, r, t))
    BY <1>3
  <2>. HIDE DEF r, t, found, all
  <2>3. /\ ContractOf(d, r, t).status = "incompatible" => Reports(all, "incompatible")
        /\ ContractOf(d, r, t).status = "indeterminate" => Reports(all, "indeterminate")
    BY <1>4, <2>2, CoversIsReported
  <2>4. Reviewed(d, sup, r, t)
    BY <2>1, <2>3, OutcomeCovers DEF all
  <2>. QED  BY <2>4 DEF r, t
<1>7. ASSUME NEW k \in DOMAIN o.request PROVE Reviewed(d, sup, o.request[k], s)
  <2>. DEFINE r == o.request[k]
  <2>1. r \in Expressions
    BY <1>2
  <2>2. /\ ContractOf(d, r, s).status = "incompatible" => Reports(found, "incompatible")
        /\ ~Exempt(sup, s) => (ContractOf(d, r, s).status # "compatible" => Reports(found, "indeterminate"))
    BY <1>3, <1>5 DEF Exempt, CoversRequest
  <2>. HIDE DEF r, found, all
  <2>3. /\ ContractOf(d, r, s).status = "incompatible" => Reports(all, "incompatible")
        /\ ~Exempt(sup, s) => (ContractOf(d, r, s).status = "indeterminate" => Reports(all, "indeterminate"))
    BY <1>4, <2>2
  <2>4. Reviewed(d, sup, r, s)
    BY <1>1, <2>1, <2>3, OutcomeCovers DEF all
  <2>. QED  BY <2>4 DEF r
<1>. QED  BY <1>6, <1>7

(* Outputs whose check is among the findings are reviewed. *)
LEMMA OutputReviewed ==
  ASSUME NEW d, DocumentFits(d), NEW sup, NEW outputs \in OutputMaps, NEW s \in Scopes, NEW found,
         \A x : Reports(found, x) => Reports(Findings(d, sup), x),
         \A n \in DOMAIN outputs : Covers(found, ContractOf(d, outputs[n], Resolving(s, outputs, n)))
  PROVE  \A n \in DOMAIN outputs : Reviewed(d, sup, outputs[n], Resolving(s, outputs, n))
<1>1. SUFFICES ASSUME NEW n \in DOMAIN outputs
               PROVE  Reviewed(d, sup, outputs[n], Resolving(s, outputs, n))
  OBVIOUS
<1>. DEFINE r == outputs[n]
            t == Resolving(s, outputs, n)
            all == Findings(d, sup)
<1>2. r \in Expressions /\ t \in Scopes
  BY ResolvingIsScope
<1>3. Covers(found, ContractOf(d, r, t))
  OBVIOUS
<1>. HIDE DEF r, t, all
<1>4. /\ ContractOf(d, r, t).status = "incompatible" => Reports(all, "incompatible")
      /\ ContractOf(d, r, t).status = "indeterminate" => Reports(all, "indeterminate")
  BY <1>3, CoversIsReported DEF all
<1>5. Reviewed(d, sup, r, t)
  BY <1>2, <1>4, OutcomeCovers DEF all
<1>. QED  BY <1>5 DEF r, t

(* And every output of the workflows and of their steps (Assess). *)
THEOREM WorkflowReviewed ==
  ASSUME NEW d, DocumentFits(d), NEW sup, NEW w \in DOMAIN d.workflows,
         NEW workflow, workflow = d.workflows[w]
  PROVE  /\ \A n \in DOMAIN workflow.outputs :
              Reviewed(d, sup, workflow.outputs[n],
                       Resolving(Scope(w, 0, NoOperation, <<>>, NoName), workflow.outputs, n))
         /\ \A i \in DOMAIN workflow.steps : \A n \in DOMAIN workflow.steps[i].outputs :
              Reviewed(d, sup, workflow.steps[i].outputs[n],
                       Resolving(Scope(w, i, workflow.steps[i].op, <<>>, NoName),
                                 workflow.steps[i].outputs, n))
<1>. DEFINE found == WorkflowFindings(d, w)
            all == Findings(d, sup)
            top == Scope(w, 0, NoOperation, <<>>, NoName)
<1>1. w \in Nat /\ workflow.outputs \in OutputMaps
  BY DEF DocumentFits
<1>2. \A x : Reports(found, x) => Reports(all, x)
  BY FindingsReported
<1>3. /\ \A n \in DOMAIN workflow.outputs :
           Covers(found, ContractOf(d, workflow.outputs[n], Resolving(top, workflow.outputs, n)))
      /\ \A i \in DOMAIN workflow.steps : \A x : Reports(StepFindings(d, w, i), x) => Reports(found, x)
  BY WorkflowReported
<1>4. top \in Scopes
  BY <1>1, EmptyOutputs
<1>. HIDE DEF found, top
<1>5. \A n \in DOMAIN workflow.outputs :
        Reviewed(d, sup, workflow.outputs[n], Resolving(top, workflow.outputs, n))
  BY <1>1, <1>2, <1>3, <1>4, OutputReviewed
<1>6. ASSUME NEW i \in DOMAIN workflow.steps, NEW step, step = workflow.steps[i]
      PROVE  \A n \in DOMAIN step.outputs :
               Reviewed(d, sup, step.outputs[n], Resolving(Scope(w, i, step.op, <<>>, NoName), step.outputs, n))
  <2>. DEFINE s == Scope(w, i, step.op, <<>>, NoName)
              own == StepFindings(d, w, i)
  <2>0. i \in DOMAIN d.workflows[w].steps /\ step = d.workflows[w].steps[i]
    BY <1>6
  <2>1. i \in Nat /\ step.op \in STRING /\ step.outputs \in OutputMaps
    BY <2>0 DEF DocumentFits, StepFits
  <2>2. s \in Scopes
    BY <1>1, <2>1, EmptyOutputs
  <2>3. \A n \in DOMAIN step.outputs : Covers(own, ContractOf(d, step.outputs[n], Resolving(s, step.outputs, n)))
    BY <2>0, StepReported
  <2>4. \A x : Reports(own, x) => Reports(all, x)
    BY <1>2, <1>3
  <2>. HIDE DEF s, own
  <2>5. \A n \in DOMAIN step.outputs : Reviewed(d, sup, step.outputs[n], Resolving(s, step.outputs, n))
    BY <2>1, <2>2, <2>3, <2>4, OutputReviewed
  <2>. QED  BY <2>5 DEF s
<1>. QED  BY <1>5, <1>6 DEF top

-----------------------------------------------------------------------------
(* The run of a verified package. *)

(* A reference that was evaluated: as its contract says, and no worse than   *)
(* the outcome.                                                              *)
UseSound(d, sup, u) ==
  /\ u.ref \in Expressions /\ u.scope \in Scopes
  /\ SoundAt(d, u.ref, u.scope, u.value) /\ Reviewed(d, sup, u.ref, u.scope)

(* The outputs of a step that has run and did not fail.                      *)
StepDone(d, outputs, i) ==
  LET step == d.workflows[1].steps[i] IN
  /\ i \in DOMAIN d.workflows[1].steps /\ DOMAIN outputs = DOMAIN step.outputs
  /\ \A n \in DOMAIN step.outputs :
       SoundAt(d, step.outputs[n], Scope(1, i, step.op, step.outputs, n), outputs[n])

(* The inductive invariant.  ContractSound alone is not one: a reference to  *)
(* an earlier step is sound because that step's own outputs were, and they   *)
(* all are there, and the assessment is the one of the document that runs.   *)
ContractInv ==
  /\ phase \notin Checked => uses = {}
  /\ phase \in Checked => assessment = Assess(doc, supplement) /\ ShapesReproduced(doc)
  /\ \A i \in skipped : Steps[i].when
  /\ phase = "verified" => \A i \in DOMAIN ran : StepDone(doc, ran[i], i)
  /\ \A u \in uses : UseSound(doc, supplement, u)

(* The results a step or the workflow's outputs see: those of the steps that *)
(* have run, and in a sequence every earlier one without a condition has.    *)
LEMMA ResultsAreSound ==
  ASSUME SessionInv, ContractInv, phase = "verified", NEW current,
         doc.workflows[1].type = "sequence" =>
           \A j \in DOMAIN Steps : RunsEarlier(j, current) => j \in Done
  PROVE  ResultsSound(doc, Results, current)
<1>1. SUFFICES ASSUME NEW i \in DOMAIN Steps, doc.workflows[1].type = "sequence", ~Steps[i].when,
                      RunsEarlier(i, current), \A j \in DOMAIN Steps : Steps[j].id = Steps[i].id <=> j = i
               PROVE  ResultSound(doc, Results, i)
  BY DEF ResultsSound, Steps
<1>2. i \in DOMAIN ran
  BY <1>1 DEF ContractInv, Done
<1>3. \A j \in DOMAIN ran : StepDone(doc, ran[j], j) /\ j \in DOMAIN Steps
  BY DEF ContractInv, StepDone, Steps
<1>4. (CHOOSE j \in DOMAIN ran : Steps[j].id = Steps[i].id) = i
  BY <1>1, <1>2, <1>3
<1>5. Steps[i].id \in DOMAIN Results /\ Results[Steps[i].id] = ran[i]
  BY <1>2, <1>4 DEF Results
<1>. QED  BY <1>2, <1>3, <1>5 DEF ResultSound, StepDone, Steps

(* The outputs of the owner are the only thing Resolving changes. *)
LEMMA ResolvingOwn ==
  ASSUME NEW w, NEW i, NEW op, NEW outputs, NEW n, NEW none, NEW name
  PROVE  Resolving(Scope(w, i, op, none, name), outputs, n) = Scope(w, i, op, outputs, n)
<1>. DEFINE s == Scope(w, i, op, none, name)
            t == Resolving(s, outputs, n)
<1>1. s \in [workflow : {w}, step : {i}, op : {op}, outputs : {none}, outputName : {name}]
  BY DEF Scope
<1>. HIDE DEF s
<1>2. t \in [workflow : {w}, step : {i}, op : {op}, outputs : {outputs}, outputName : {n}]
  BY <1>1, Zenon DEF Resolving
<1>3. t = Scope(w, i, op, outputs, n)
  <2>. HIDE DEF t
  <2>. QED  BY <1>2 DEF Scope
<1>. QED  BY <1>3 DEF s

(* The scope of a step's use, its operation and their outputs. *)
LEMMA StepScope ==
  ASSUME DocumentFits(doc), NEW i \in DOMAIN Steps, NEW op, op = Steps[i].op
  PROVE  /\ op \in DOMAIN doc.operations /\ op # NoOperation
         /\ 1 \in DOMAIN doc.workflows
         /\ Scope(1, i, op, <<>>, NoName) \in Scopes
         /\ doc.operations[op].outputs \in OutputMaps /\ Steps[i].outputs \in OutputMaps
         /\ OperationFits(doc.operations[op])
<1>1. 1 \in DOMAIN doc.workflows /\ Steps[i] = doc.workflows[1].steps[i] /\ i \in DOMAIN doc.workflows[1].steps
  BY DEF DocumentFits, Steps
<1>2. StepFits(doc, Steps[i]) /\ i \in Nat
  BY <1>1 DEF DocumentFits
<1>3. op \in DOMAIN doc.operations /\ Steps[i].outputs \in OutputMaps
  BY <1>2 DEF StepFits
<1>4. op \in STRING /\ op # NoOperation /\ OperationFits(doc.operations[op])
  BY <1>3 DEF DocumentFits
<1>. QED  BY <1>1, <1>2, <1>3, <1>4, EmptyOutputs, Zenon DEF OperationFits

(* Sound values of reviewed outputs make sound uses. *)
LEMMA OutputUsesSound ==
  ASSUME NEW d, NEW sup, NEW outputs \in OutputMaps, NEW s \in Scopes, NEW values,
         DOMAIN values \subseteq DOMAIN outputs,
         \A n \in DOMAIN values : SoundAt(d, outputs[n], Resolving(s, outputs, n), values[n]),
         \A n \in DOMAIN outputs : Reviewed(d, sup, outputs[n], Resolving(s, outputs, n))
  PROVE  \A u \in OutputUses(outputs, values, s) : UseSound(d, sup, u)
<1>1. SUFFICES ASSUME NEW n \in DOMAIN values
               PROVE  UseSound(d, sup, Use(outputs[n], Resolving(s, outputs, n), values[n]))
  BY DEF OutputUses, Resolving
<1>. DEFINE r == outputs[n]
            t == Resolving(s, outputs, n)
            v == values[n]
            u == Use(r, t, v)
<1>2. r \in Expressions /\ t \in Scopes
  BY <1>1, ResolvingIsScope
<1>3. SoundAt(d, r, t, v) /\ Reviewed(d, sup, r, t)
  BY <1>1
<1>. HIDE DEF r, t, v
<1>4. u.ref = r /\ u.scope = t /\ u.value = v
  BY DEF Use
<1>. HIDE DEF u
<1>5. UseSound(d, sup, u)
  BY <1>2, <1>3, <1>4 DEF UseSound
<1>. QED  BY <1>5 DEF u, r, t, v

(* What a ready step sees of the earlier ones is as their contracts say. *)
LEMMA ReadyInWorkflow ==
  ASSUME SessionInv, ContractInv, NEW i \in DOMAIN Steps, Ready(i), NEW op, op = Steps[i].op
  PROVE  /\ phase = "verified" /\ ResultsSound(doc, Results, i)
         /\ InWorkflow(doc, operationScope(doc, op), Results)
         /\ InWorkflow(doc, Scope(1, i, op, <<>>, NoName), Results)
<1>1. phase = "verified" /\ (doc.workflows[1].type = "sequence" => \A j \in 1..(i - 1) : j \in Done)
  BY DEF Ready
<1>2. DocumentFits(doc) /\ 1 \in DOMAIN doc.workflows /\ Steps = doc.workflows[1].steps
  BY DEF SessionInv, DocumentFits, Steps
<1>3. DOMAIN Steps = 1..Len(Steps) /\ Len(Steps) \in Nat
  BY <1>2 DEF DocumentFits
<1>4. doc.workflows[1].type = "sequence" => \A j \in DOMAIN Steps : RunsEarlier(j, i) => j \in Done
  BY <1>1, <1>3 DEF RunsEarlier
<1>5. ResultsSound(doc, Results, i)
  BY <1>1, <1>4, ResultsAreSound
<1>6. InWorkflow(doc, operationScope(doc, op), Results)
  <2>1. \/ operationScope(doc, op).workflow = 1 /\ operationScope(doc, op).step = i
        \/ operationScope(doc, op).workflow \notin DOMAIN doc.workflows
    BY <1>2, ScopeOfOperation
  <2>. QED  BY <1>5, <2>1 DEF InWorkflow
<1>. QED  BY <1>1, <1>5, <1>6 DEF InWorkflow, Scope

(* A request of a ready step. *)
LEMMA RequestSound ==
  ASSUME SessionInv, ContractInv, NEW i \in DOMAIN Steps, Ready(i), NEW op, op = Steps[i].op,
         NEW o, o = doc.operations[op], NEW k \in DOMAIN o.request,
         NEW v, v = Evaluate(doc, o.request[k], Env(FALSE, NoResponse))
  PROVE  UseSound(doc, supplement, Use(o.request[k], operationScope(doc, op), v))
<1>. DEFINE s == operationScope(doc, op)
            env == Env(FALSE, NoResponse)
            r == o.request[k]
            u == Use(r, s, v)
<1>0. DocumentFits(doc) /\ phase = "verified" /\ ShapesReproduced(doc)
  BY ReadyInWorkflow DEF SessionInv, ContractInv, Checked
<1>1. op \in DOMAIN doc.operations /\ OperationFits(o)
  BY <1>0, StepScope
<1>2. s \in Scopes /\ s.outputs = <<>> /\ InWorkflow(doc, s, Results)
  <2>2. s \in Scopes /\ s.outputs = <<>>
    BY <1>0, <1>1, OperationScopes DEF operationScope, Scope
  <2>. QED  BY <2>2, ReadyInWorkflow
<1>3. r \in Expressions /\ r.root \notin {"status", "body", "header"}
  BY <1>1 DEF OperationFits
<1>4. env.results = Results /\ env.outputs = <<>>
  BY DEF Env
<1>5. v = Evaluate(doc, r, env)
  OBVIOUS
<1>. HIDE DEF env, r, s
<1>6. SoundAt(doc, r, s, v)
  <2>1. SUFFICES ASSUME NEW g \in Frames, g.ref = r, g.scope = s PROVE Sound(Contracts(doc)[g], v)
    BY DEF SoundAt
  <2>2. OutputsSound(doc, g.scope, env.outputs)
    BY <1>2, <2>1 DEF OutputsSound
  <2>3. Sound(Contracts(doc)[g], Evaluate(doc, g.ref, env))
    BY <1>0, <1>2, <1>3, <1>4, <2>1, <2>2, EvaluateSound
  <2>. QED  BY <1>5, <2>1, <2>3
<1>7. Reviewed(doc, supplement, r, s)
  BY <1>0, <1>1, OperationReviewed DEF r, s
<1>8. u.ref = r /\ u.scope = s /\ u.value = v
  BY DEF Use
<1>. HIDE DEF u
<1>9. UseSound(doc, supplement, u)
  BY <1>2, <1>3, <1>6, <1>7, <1>8 DEF UseSound
<1>. QED  BY <1>9 DEF u, r, s

(* The outputs of a ready step, and of its operation.                        *)
LEMMA StepOutputsSound ==
  ASSUME SessionInv, ContractInv, NEW i \in DOMAIN Steps, Ready(i), NEW step, step = Steps[i],
         NEW o, o = doc.operations[step.op], NEW response \in Responses(o.actual),
         NEW env, env = Env(o.actual.protocol = "http", response)
  PROVE  /\ \A u \in OutputUses(o.outputs, Resolve(doc, o.outputs, env), operationScope(doc, step.op)) :
              UseSound(doc, supplement, u)
         /\ \A u \in OutputUses(step.outputs, Resolve(doc, step.outputs, env),
                                Scope(1, i, step.op, <<>>, NoName)) :
              UseSound(doc, supplement, u)
         /\ Resolved(Resolve(doc, step.outputs, env)) => StepDone(doc, Resolve(doc, step.outputs, env), i)
<1>. DEFINE op == step.op
            s == operationScope(doc, op)
            t == Scope(1, i, op, <<>>, NoName)
            http == (o.actual.protocol = "http")
            ofOperation == Resolve(doc, o.outputs, env)
            ofStep == Resolve(doc, step.outputs, env)
<1>0. DocumentFits(doc) /\ phase = "verified" /\ ShapesReproduced(doc)
  BY ReadyInWorkflow DEF SessionInv, ContractInv, Checked
<1>1. /\ op \in DOMAIN doc.operations /\ t \in Scopes /\ 1 \in DOMAIN doc.workflows
      /\ o.outputs \in OutputMaps /\ step.outputs \in OutputMaps
  BY <1>0, StepScope
<1>2. s \in Scopes /\ s.op = op /\ InWorkflow(doc, s, Results) /\ InWorkflow(doc, t, Results)
  <2>2. s \in Scopes /\ s.op = op
    BY <1>0, <1>1, OperationScopes DEF operationScope, Scope
  <2>. QED  BY <2>2, ReadyInWorkflow
<1>3. t.op = op
  BY DEF Scope
<1>4. /\ DOMAIN env = {"results", "outputs", "http", "response"}
      /\ env.results = Results /\ env.http = http /\ env.response = response
  BY DEF Env
<1>. HIDE DEF http
<1>5. ResponseFits(doc, s, env) /\ ResponseFits(doc, t, env)
  BY <1>1, <1>2, <1>3, <1>4 DEF ResponseFits, http
<1>. HIDE DEF s, t, ofOperation, ofStep, op
<1>6. /\ DOMAIN ofOperation \subseteq DOMAIN o.outputs
      /\ \A n \in DOMAIN ofOperation : SoundAt(doc, o.outputs[n], Resolving(s, o.outputs, n), ofOperation[n])
  <2>. DEFINE outputs == o.outputs
  <2>1. ofOperation = Resolve(doc, outputs, env) /\ outputs \in OutputMaps /\ InWorkflow(doc, s, env.results)
    BY <1>1, <1>2, <1>4 DEF ofOperation
  <2>. HIDE DEF outputs
  <2>2. /\ DOMAIN ofOperation \subseteq DOMAIN outputs
        /\ \A n \in DOMAIN ofOperation : SoundAt(doc, outputs[n], Resolving(s, outputs, n), ofOperation[n])
    BY <1>0, <1>2, <1>4, <1>5, <2>1, ResolveSound, Zenon
  <2>. QED  BY <2>2 DEF outputs
<1>7. /\ DOMAIN ofStep \subseteq DOMAIN step.outputs
      /\ Resolved(ofStep) => DOMAIN ofStep = DOMAIN step.outputs
      /\ \A n \in DOMAIN ofStep : SoundAt(doc, step.outputs[n], Resolving(t, step.outputs, n), ofStep[n])
  BY <1>0, <1>1, <1>2, <1>4, <1>5, ResolveSound DEF ofStep
<1>8. \A n \in DOMAIN o.outputs : Reviewed(doc, supplement, o.outputs[n], Resolving(s, o.outputs, n))
  BY <1>0, <1>1, OperationReviewed DEF s, op
<1>9. \A n \in DOMAIN step.outputs : Reviewed(doc, supplement, step.outputs[n], Resolving(t, step.outputs, n))
  BY <1>0, <1>1, WorkflowReviewed, Zenon DEF t, op, Steps
<1>10. \A u \in OutputUses(o.outputs, ofOperation, s) : UseSound(doc, supplement, u)
  BY <1>1, <1>2, <1>6, <1>8, OutputUsesSound
<1>11. \A u \in OutputUses(step.outputs, ofStep, t) : UseSound(doc, supplement, u)
  BY <1>1, <1>7, <1>9, OutputUsesSound
<1>12. \A n : Resolving(t, step.outputs, n) = Scope(1, i, op, step.outputs, n)
  BY ResolvingOwn DEF t
<1>13. Resolved(ofStep) => StepDone(doc, ofStep, i)
  BY <1>7, <1>12, Zenon DEF StepDone, Steps, op
<1>. QED  BY <1>10, <1>11, <1>13 DEF ofOperation, ofStep, s, t, op

(* The workflow's own outputs.                                               *)
LEMMA FinalOutputsSound ==
  ASSUME SessionInv, ContractInv, phase = "verified", Done = DOMAIN Steps,
         NEW outputs, outputs = doc.workflows[1].outputs,
         NEW values, values = Resolve(doc, outputs, Env(FALSE, NoResponse))
  PROVE  \A u \in OutputUses(outputs, values, Scope(1, 0, NoOperation, <<>>, NoName)) :
           UseSound(doc, supplement, u)
<1>. DEFINE s == Scope(1, 0, NoOperation, <<>>, NoName)
            env == Env(FALSE, NoResponse)
<1>0. DocumentFits(doc) /\ ShapesReproduced(doc) /\ 1 \in DOMAIN doc.workflows
  BY DEF SessionInv, ContractInv, Checked, DocumentFits
<1>1. outputs \in OutputMaps
  BY <1>0 DEF DocumentFits
<1>2. s \in Scopes
  BY EmptyOutputs
<1>3. s.step = 0 /\ s.workflow = 1 /\ s.op = NoOperation
  BY DEF Scope
<1>4. InWorkflow(doc, s, Results)
  BY <1>3, ResultsAreSound DEF InWorkflow
<1>5. DOMAIN env = {"results", "outputs", "http", "response"} /\ env.results = Results
  BY DEF Env
<1>6. ResponseFits(doc, s, env)
  BY <1>3 DEF ResponseFits
<1>7. \A n \in DOMAIN outputs : Reviewed(doc, supplement, outputs[n], Resolving(s, outputs, n))
  BY <1>0, WorkflowReviewed
<1>. HIDE DEF s, env
<1>8. /\ DOMAIN values \subseteq DOMAIN outputs
      /\ \A n \in DOMAIN values : SoundAt(doc, outputs[n], Resolving(s, outputs, n), values[n])
  <2>1. values = Resolve(doc, outputs, env) /\ InWorkflow(doc, s, env.results)
    BY <1>4, <1>5 DEF env
  <2>2. ASSUME NEW own \in OutputMaps, values = Resolve(doc, own, env)
        PROVE  /\ DOMAIN values \subseteq DOMAIN own
               /\ \A n \in DOMAIN values : SoundAt(doc, own[n], Resolving(s, own, n), values[n])
    BY <1>0, <1>2, <1>5, <1>6, <2>1, <2>2, ResolveSound
  <2>. QED  BY <1>1, <2>1, <2>2
<1>9. \A u \in OutputUses(outputs, values, s) : UseSound(doc, supplement, u)
  BY <1>1, <1>2, <1>7, <1>8, OutputUsesSound
<1>. QED  BY <1>9 DEF s

-----------------------------------------------------------------------------
(* The invariant. *)

(* Nothing has been evaluated. *)
LEMMA ContractInit == Init => ContractInv
  BY DEF Init, ContractInv, Checked

(* Before Verify nothing is evaluated.                                       *)
LEMMA NothingUsed ==
  ASSUME SessionInv, ContractInv, phase \notin Checked, phase' \notin Checked, NotRun
  PROVE  ContractInv'
<1>1. uses' = {} /\ skipped' = {} /\ phase' # "verified"
  BY DEF SessionInv, NotStarted, ContractInv, NotRun, Checked
<1>. QED  BY <1>1 DEF ContractInv

(* Verify: the assessment that is believed is the one of this document. *)
LEMMA ContractVerify ==
  ASSUME SessionInv, ContractInv, NEW v, Verify(v)
  PROVE  ContractInv'
<1>1. /\ phase = "built" /\ phase' \in {"verified", "refused"} /\ UNCHANGED <<doc, supplement, assessment>>
      /\ NotRun
      /\ phase' = "verified" => verifyShapes(doc, v) /\ assessment = Assess(doc, supplement)
  BY DEF Verify
<1>2. uses' = {} /\ skipped' = {} /\ ran' = <<>>
  BY <1>1 DEF SessionInv, NotStarted, ContractInv, NotRun, Checked
<1>3. CASE phase' # "verified"
  BY <1>1, <1>3, NothingUsed DEF Checked
<1>4. CASE phase' = "verified"
  <2>1. ShapesReproduced(doc) /\ assessment = Assess(doc, supplement)
    BY <1>1, <1>4, VerifiedShapes DEF SessionInv
  <2>2. phase' \in Checked
    BY <1>4 DEF Checked
  <2>. QED  BY <1>1, <1>2, <2>1, <2>2 DEF ContractInv
<1>. QED  BY <1>3, <1>4

(* A step leaves what was reviewed alone: what is left to show is the values *)
(* of the step.                                                              *)
LEMMA StillReviewed ==
  ASSUME SessionInv, ContractInv, phase = "verified", phase' \in Checked,
         UNCHANGED <<doc, supplement, assessment>>,
         \A i \in skipped' : Steps[i].when,
         phase' = "verified" => \A i \in DOMAIN ran' : StepDone(doc, ran'[i], i),
         \A u \in uses' : UseSound(doc, supplement, u)
  PROVE  ContractInv'
<1>1. assessment = Assess(doc, supplement) /\ ShapesReproduced(doc)
  BY DEF ContractInv, Checked
<1>2. \A i \in skipped' : Steps'[i].when
  BY DEF Steps
<1>. QED  BY <1>1, <1>2 DEF ContractInv

(* A step runs: its request, its operation's outputs and its own are sound   *)
(* uses.                                                                     *)
LEMMA ContractRun ==
  ASSUME SessionInv, ContractInv, NEW i \in DOMAIN Steps,
         NEW response \in Responses(doc.operations[Steps[i].op].actual), RunStep(i, response)
  PROVE  ContractInv'
<1>. DEFINE step == Steps[i]
            op == doc.operations[step.op]
            scope == Scope(1, i, step.op, <<>>, NoName)
            asked == [k \in DOMAIN op.request |-> Evaluate(doc, op.request[k], Env(FALSE, NoResponse))]
            env == Env(op.actual.protocol = "http", response)
            ofOperation == Resolve(doc, op.outputs, env)
            ofStep == Resolve(doc, step.outputs, env)
            requested == {Use(op.request[k], operationScope(doc, step.op), asked[k]) : k \in DOMAIN asked}
            ofOperationUses == OutputUses(op.outputs, ofOperation, operationScope(doc, step.op))
            ofStepUses == OutputUses(step.outputs, ofStep, scope)
<1>1. Ready(i) /\ UNCHANGED <<doc, supplement, assessment, skipped>> /\ phase = "verified"
  BY DEF RunStep, Ready
<1>2. /\ uses' \subseteq requested \cup ofOperationUses \cup ofStepUses
      /\ \/ phase' = "failed"
         \/ phase' = "verified" /\ Resolved(ofStep) /\ ran' = With(ran, i, ofStep)
  BY <1>1, Zenon DEF RunStep
<1>3. /\ \A u \in ofOperationUses : UseSound(doc, supplement, u)
      /\ \A u \in ofStepUses : UseSound(doc, supplement, u)
      /\ Resolved(ofStep) => StepDone(doc, ofStep, i)
  BY <1>1, StepOutputsSound
<1>4. ASSUME NEW u \in requested PROVE UseSound(doc, supplement, u)
  BY <1>1, RequestSound
<1>5. \A u \in uses' : UseSound(doc, supplement, u)
  <2>. HIDE DEF requested, ofOperationUses, ofStepUses
  <2>. QED  BY <1>2, <1>3, <1>4
<1>6. ASSUME phase' = "verified", NEW j \in DOMAIN ran' PROVE StepDone(doc, ran'[j], j)
  <2>. HIDE DEF ofStep
  <2>1. Resolved(ofStep) /\ ran' = With(ran, i, ofStep)
    BY <1>2, <1>6
  <2>2. CASE j = i
    <3>1. ran'[j] = ofStep
      BY <2>1, <2>2 DEF With
    <3>. QED  BY <1>3, <2>1, <2>2, <3>1
  <2>3. CASE j # i
    <3>1. j \in DOMAIN ran /\ ran'[j] = ran[j]
      BY <1>6, <2>1, <2>3 DEF With
    <3>. QED  BY <1>1, <3>1 DEF ContractInv
  <2>. QED  BY <2>2, <2>3
<1>7. phase' \in Checked
  BY <1>2 DEF Checked
<1>8. \A j \in skipped' : Steps[j].when
  BY <1>1 DEF ContractInv
<1>. QED  BY <1>1, <1>5, <1>6, <1>7, <1>8, StillReviewed, Zenon

(* A step is skipped: it had a condition. *)
LEMMA ContractSkip ==
  ASSUME SessionInv, ContractInv, NEW i, SkipStep(i)
  PROVE  ContractInv'
<1>1. /\ phase = "verified" /\ Steps[i].when /\ skipped' = skipped \cup {i}
      /\ UNCHANGED <<doc, supplement, assessment, phase, ran, uses>>
  BY DEF SkipStep, Ready
<1>2. phase' \in Checked
  BY <1>1 DEF Checked
<1>3. \A j \in skipped' : Steps[j].when
  BY <1>1 DEF ContractInv
<1>4. (\A j \in DOMAIN ran' : StepDone(doc, ran'[j], j)) /\ \A u \in uses' : UseSound(doc, supplement, u)
  BY <1>1 DEF ContractInv
<1>. QED  BY <1>1, <1>2, <1>3, <1>4, StillReviewed

(* Finish: the workflow's outputs are sound uses. *)
LEMMA ContractFinish ==
  ASSUME SessionInv, ContractInv, Finish
  PROVE  ContractInv'
<1>. DEFINE outputs == doc.workflows[1].outputs
            values == Resolve(doc, outputs, Env(FALSE, NoResponse))
<1>1. /\ phase = "verified" /\ Done = DOMAIN Steps /\ phase' \in {"finished", "failed"}
      /\ uses' = OutputUses(outputs, values, Scope(1, 0, NoOperation, <<>>, NoName))
      /\ UNCHANGED <<doc, supplement, assessment, skipped>>
  BY DEF Finish
<1>2. \A u \in uses' : UseSound(doc, supplement, u)
  BY <1>1, FinalOutputsSound
<1>3. phase' \in Checked /\ phase' # "verified" /\ \A j \in skipped' : Steps[j].when
  BY <1>1 DEF Checked, ContractInv
<1>. QED  BY <1>1, <1>2, <1>3, StillReviewed

(* In every state the references evaluated so far have the values their      *)
(* contracts say, the steps that ran left all their outputs, and the         *)
(* assessment is the one Verify derived again (Assess, Verify).              *)
THEOREM ContractInvariant == Spec => []ContractInv
<1>1. ASSUME SessionInv, ContractInv, [Next]_vars PROVE ContractInv'
  <2>1. ASSUME NEW p \in Permissions, NEW v \in Verifiers, Build(p, v) PROVE ContractInv'
    <3>1. phase \notin Checked /\ phase' \notin Checked /\ NotRun
      BY <2>1 DEF Build, Checked
    <3>. QED  BY <1>1, <3>1, NothingUsed
  <2>2. ASSUME NEW d, NEW s, Reassemble(d, s) PROVE ContractInv'
    <3>1. phase \notin Checked /\ phase' \notin Checked /\ NotRun
      BY <2>2 DEF Reassemble, Checked
    <3>. QED  BY <1>1, <3>1, NothingUsed
  <2>3. ASSUME NEW v \in Verifiers, Verify(v) PROVE ContractInv'
    BY <1>1, <2>3, ContractVerify
  <2>4. ASSUME NEW i \in DOMAIN Steps, NEW r \in Responses(doc.operations[Steps[i].op].actual),
               RunStep(i, r)
        PROVE  ContractInv'
    BY <1>1, <2>4, ContractRun
  <2>5. ASSUME NEW i \in DOMAIN Steps, SkipStep(i) PROVE ContractInv'
    BY <1>1, <2>5, ContractSkip
  <2>6. CASE Finish
    BY <1>1, <2>6, ContractFinish
  <2>7. CASE UNCHANGED vars
    BY <1>1, <2>7 DEF vars, ContractInv, Steps
  <2>. QED  BY <1>1, <2>1, <2>2, <2>3, <2>4, <2>5, <2>6, <2>7 DEF Next
<1>. QED  BY ContractInit, <1>1, SessionInvariant, PTL DEF Spec

(* What the invariant says of every use is the property. *)
LEMMA ContractInvSound == SessionInv /\ ContractInv => ContractSound
<1>. SUFFICES ASSUME SessionInv, ContractInv, NEW u \in uses
              PROVE  LET c == ContractOf(doc, u.ref, u.scope) IN
                     /\ c.status = "compatible" =>
                          IF c.schema = Nothing THEN u.value = Absent
                          ELSE u.value # Absent /\ Conforms(u.value, c.schema)
                     /\ assessment.outcome = "compatible" /\ ~Unvalidated(u) => c.status = "compatible"
                     /\ assessment.outcome = "indeterminate" => c.status # "incompatible"
  BY DEF ContractSound
<1>. DEFINE f == Frame(u.ref, u.scope, {}, 0)
            c == ContractOf(doc, u.ref, u.scope)
<1>1. UseSound(doc, supplement, u) /\ DocumentFits(doc)
  BY DEF ContractInv, SessionInv
<1>2. f \in Frames /\ f.ref = u.ref /\ f.scope = u.scope /\ c = Contracts(doc)[f]
  BY <1>1, ContractIsCall DEF UseSound
<1>. HIDE DEF f, c
<1>3. Sound(c, u.value)
  BY <1>1, <1>2 DEF UseSound, SoundAt
<1>4. assessment = Assess(doc, supplement)
  BY DEF ContractInv
<1>5. ASSUME c.status = "compatible"
      PROVE  IF c.schema = Nothing THEN u.value = Absent
             ELSE u.value # Absent /\ Conforms(u.value, c.schema)
  <2>1. \/ c.schema = Nothing /\ u.value = Absent
        \/ c.schema \in Schemas /\ u.value \in Values /\ Conforms(u.value, c.schema)
    BY <1>3, <1>5 DEF Sound, Says
  <2>2. ASSUME c.schema \in Schemas, u.value \in Values, Conforms(u.value, c.schema)
        PROVE  c.schema # Nothing /\ u.value # Absent
    <3>1. Admits(c.schema, u.value)
      BY <2>2, DataAssumption
    <3>2. c.schema # Nothing
      <4>1. Nothing.kind = "false"
        BY DEF Nothing
      <4>2. ~Admits(Nothing, u.value)
        BY <4>1 DEF Admits
      <4>. QED  BY <3>1, <4>2
    <3>3. u.value.kind # "absent"
      BY <2>2, DataAssumption DEF ValueKinds
    <3>. QED  BY <3>2, <3>3 DEF Absent
  <2>. QED  BY <2>1, <2>2
<1>6. /\ assessment.outcome = "compatible" /\ ~Exempt(supplement, u.scope) => c.status = "compatible"
      /\ assessment.outcome = "indeterminate" => c.status # "incompatible"
  BY <1>1, <1>4 DEF UseSound, Reviewed, c
<1>7. Exempt(supplement, u.scope) <=> Unvalidated(u)
  BY DEF Exempt, Unvalidated
<1>. QED  BY <1>5, <1>6, <1>7 DEF c

(* What the review proves of a reference holds in every run of a verified    *)
(* package: a compatible contract has a value of its schema, and the outcome *)
(* is never better than the contract of a reference that is evaluated        *)
(* (contract, Assess).                                                       *)
THEOREM SpecContractSound == Spec => []ContractSound
  BY ContractInvSound, SessionInvariant, ContractInvariant, PTL
=============================================================================
