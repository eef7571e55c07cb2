SPECIFICATION MCSpec
CONSTANTS
  password = password
  None = None
  Schemes = {password}
  Contents <- TwoContents
  Workers <- TwoWorkers
  Admits <- AllAdmitted
  Revisions = {1, 2}
  Sessions <- OneSession
  Deadlines = {2, 3}
  MaxAttempts = 2
  MaxTime = 2
INVARIANTS AdmittedAsReviewed AdmittedIsCurrent AuthorityKeepsWorking
CHECK_DEADLOCK FALSE
