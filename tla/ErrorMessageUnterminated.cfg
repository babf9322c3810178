\* Texts of INT_MAX characters and more as well: "%s" copies no terminator.
SPECIFICATION Spec
CONSTANTS
  IntMax = 6
  kN = 3
  MaxText = 8
INVARIANT Terminated
