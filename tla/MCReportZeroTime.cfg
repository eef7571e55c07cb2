SPECIFICATION Spec
CONSTANTS
  a = a
  b = b
  run1 = run1
  run2 = run2
  Inventories <- PlainInventory
  Reports <- TimedReports
  Names = {a, b}
  Identities = {run1, run2}
  Times <- EarlyTimes
  ZeroTime <- YearOne
  None = None
  Malformed = Malformed
  MaxSteps = 2
INVARIANTS FinishBoundsSteps
CHECK_DEADLOCK FALSE
