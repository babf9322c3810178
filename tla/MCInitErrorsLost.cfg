\* Registration while u7_init runs.
SPECIFICATION SpecAll
CONSTANTS
  a = a
  b = b
  d = d
  Record <- MCRecord
  Name <- MCName
  Precedence <- MCPrecedence
  MaxDepth = 2
  MaxFailures = 2
  Error = {e1, e2}
INVARIANT RegisteredIsKept
