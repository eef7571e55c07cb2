SPECIFICATION Spec
CONSTANTS
  None = None
  Works = {w1}
  Versions = {"v3"}
  Repeated = {"v3"}
  Paths = {"report.json", "async.json"}
  Padding = {FALSE, TRUE}
  MaxAttempts = 1
  MaxEdits = 2
INVARIANTS SuccessIsReported
CHECK_DEADLOCK FALSE
