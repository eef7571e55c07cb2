SPECIFICATION Spec
CONSTANTS
  s1 = s1
  s2 = s2
  s3 = s3
  k1 = k1
  Sources = {s1, s2, s3}
  NoSource = NoSource
  Slots = {k1}
  Attempts <- AllAttempts
  Requests = {r1, r2}
  NoRequest = NoRequest
  Questions = {q1}
  NoQuestion = NoQuestion
  MaxEvents = 4096
  MaxQuestions = 2
INVARIANTS TypeOK DispatchInOrder ResolvedByLastMessage NonDispatchHolds EvidenceSound EvidenceIsObserved ContainedDispatch SaveFollowsCandidate DenialWithholdsSave FallbackStaysFresh
PROPERTIES StopLatches OneMessagePerGrant ImplementsDispatch
SYMMETRY MessageSymmetry
VIEW readerVars
CHECK_DEADLOCK FALSE
