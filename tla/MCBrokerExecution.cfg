SPECIFICATION Spec
CONSTANTS
  key = key
  None = None
  Schemes = {key}
  Contents <- SomeContents
  Forgeries <- SomeForgeries
  Workers <- SomeWorkers
  Admits <- AllAdmitted
  Revisions = {1, 2}
  MaxTime = 1
INVARIANTS ExecutedAsApproved ExecutedAsConfirmed ExecutedIsFit ApprovalKeepsWorking
CHECK_DEADLOCK FALSE
