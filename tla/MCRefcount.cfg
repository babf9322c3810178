\* A two-bit int (-2..1) and four references: the count passes INT_MAX and wraps.
SPECIFICATION Spec
CONSTANTS
  Thread = {t1, t2, t3}
  Ref = {r1, r2, r3, r4}
  IntMax = 1
  NoThread = NoThread
  NoRef = NoRef
SYMMETRY Symmetry
INVARIANTS
  TypeOK
  CountExact
  SoleDisposer
  NoStaleOne
  AcquireWouldOrder
PROPERTIES
  LastReleaseDisposes
  SubOrders
  ImplementsOwnership
