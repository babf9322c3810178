\* Two threads with three variables share chains of up to two payloads
\* and the fallback.
SPECIFICATION FairSpec
CONSTANTS
  Thread = {t1, t2}
  Var = {v1, v2, v3}
  Payload = {p1, p2}
  Fallback = Fallback
  Null = Null
  NoVar = NoVar
INVARIANTS
  TypeOK
  CountsReferences
  NoDangling
  NoLeak
PROPERTIES
  ReleaseReturns
  ImplementsHeap
