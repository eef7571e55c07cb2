SPECIFICATION Spec
CONSTANTS
  a = a
  b = b
  run1 = run1
  run2 = run2
  Inventories <- SomeInventories
  Reports <- SomeReports
  Names = {a, b}
  Identities = {run1, run2}
  Times = {0, 1, 2}
  ZeroTime <- YearOne
  None = None
  Malformed = Malformed
  MaxSteps = 2
INVARIANTS ValidatedIffConsistent
CHECK_DEADLOCK FALSE
