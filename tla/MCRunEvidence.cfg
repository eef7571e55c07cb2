SPECIFICATION Spec
CONSTANTS
  None = None
  Works = {w1}
  Versions = {"v2", "v3", "v4"}
  Repeated = {"v3"}
  Paths = {"report.json", "async.json"}
  Padding = {FALSE}
  MaxAttempts = 2
  MaxEdits = 2
INVARIANTS TrustedIsRecorded ResultsAreReported SuccessIsReported RecordedVerifies
CHECK_DEADLOCK FALSE
