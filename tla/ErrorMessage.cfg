\* Texts below, at and above INT_MAX characters; kN is reached below it.
SPECIFICATION Spec
CONSTANTS
  IntMax = 6
  kN = 3
  MaxText = 8
INVARIANTS
  TypeOK
  MemorySafe
  MessageWhole
  BufferAccounted
  CauseAccounted
