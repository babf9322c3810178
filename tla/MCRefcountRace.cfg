\* Releases by u7_refcount_skewed_decrement only, as in u7_error_release.
SPECIFICATION SkewedSpec
CONSTANTS
  Thread = {t1, t2, t3}
  Ref = {r1, r2, r3, r4}
  IntMax = 7
  NoThread = NoThread
  NoRef = NoRef
SYMMETRY Symmetry
INVARIANT DisposalOrdered
