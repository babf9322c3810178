\* Three threads on two processors, with a short backoff.
SPECIFICATION FairSpec
CONSTANTS
  Thread = {t1, t2, t3}
  Cpus = 2
  PauseLimit = 1
  YieldLimit = 3
INVARIANTS
  TypeOK
  MutualExclusion
  CriticalOrdered
PROPERTIES
  ImplementsMutex
  HolderFinishes
