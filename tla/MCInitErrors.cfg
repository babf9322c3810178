\* Failing init_fns, and init_fns that register initializers or call u7_init.
SPECIFICATION FairSpecAll
CONSTANTS
  a = a
  b = b
  d = d
  Record <- MCRecord
  Name <- MCName
  Precedence <- MCPrecedence
  MaxDepth = 2
  MaxFailures = 2
  Error = {e1, e2}
INVARIANTS
  TypeOK
  EarlierSucceeded
  RunAgainOnlyWithReason
  NoneLost
  CollisionsAreRefused
  OneOwner
PROPERTIES
  OkMeansExecuted
  AllExecuted
