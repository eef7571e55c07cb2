SPECIFICATION Spec
CONSTANTS
  Alphabet <- Names
  MaxDepth = 4
  Identifiers = {"main", "alice", "form"}
  MaxCalls = 2
  MaxNames = 1
  Documents <- PlainProjections
  Revisions = {}
  Permissions <- SomePermissions
  Verifiers = {"exact", "no verifier"}
  MaxFunctions = 1
  Bodies <- SomeBodies
  Values <- SomeValues
  Schemas <- SomeSchemas
  Conforms <- ConformsTo
  Expressions <- SomeExpressions
  MaxFindings = 1
  MaxEdits = 1
INVARIANT MissingBlocksReview
CHECK_DEADLOCK FALSE
