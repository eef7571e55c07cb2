SPECIFICATION Spec
CONSTANTS
  Profile <- OneProfile
  MaxMatches = 2
  MaxActions = 2
  MaxChecks = 4
  Malformed = Malformed
  CanonicalPaths = {1, 2, 3}
  MaxFiles = 3
  Blank = Blank
  Documents <- SomeDocuments
  Rewrites <- SomeRewrites
  MaxBlocks = 2
  MaxWrites = 2
  MaxEdits = 2
  MaxTime = 3
  ManifestPath = 1
  SummaryPath = 2
  WorkflowPath = 3
  None = None
INVARIANTS WrittenWhole AcceptedIffTruthful ArchiveIsSealed SummaryKeepsWorking
CHECK_DEADLOCK FALSE
