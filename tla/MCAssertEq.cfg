\* Integers of five and two bits, doubles with three.
SPECIFICATION Spec
CONSTANTS
  W = 5
  N = 2
  P = 3
  Pow2 <- MCPow2
  Contents = {s1, s2}
  NullStr = NullStr
  NaN = NaN
INVARIANTS
  IntegersExact
  SameNumberPasses
