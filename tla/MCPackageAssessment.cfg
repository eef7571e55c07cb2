SPECIFICATION Spec
CONSTANTS
  Alphabet <- Names
  MaxDepth = 4
  Identifiers = {"main", "alice", "form"}
  MaxCalls = 2
  MaxNames = 1
  Documents <- SomeDocuments
  Revisions <- SomeRevisions
  Permissions <- SomePermissions
  Verifiers = {"exact", "no verifier"}
  MaxFunctions = 1
  Bodies <- SomeBodies
  Values <- SomeValues
  Schemas <- SomeSchemas
  Conforms <- ConformsTo
  Expressions <- SomeExpressions
  MaxFindings = 1
  MaxEdits = 1
INVARIANTS ContractSound SessionBeforeUse
CHECK_DEADLOCK FALSE
