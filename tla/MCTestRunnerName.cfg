\* The name after a nested run.
SPECIFICATION Spec
CONSTANTS
  a = a
  b = b
  c = c
  o = o
  w = w
  x = x
  NoTest = NoTest
  Test <- MCTest
  OwnTest <- MCOwnTest
  Name <- MCName
  Pattern <- MCPattern
  Contains <- MCContains
  MaxArgs = 3
  MaxOwnArgs = 2
  MaxOwnList = 2
  MaxDepth = 2
INVARIANT ActiveNameKnown
