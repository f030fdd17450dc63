SPECIFICATION Spec
CONSTANTS
  k1 = k1 k2 = k2 k3 = k3 t1 = t1 t2 = t2
  Key = {k1, k2, k3}
  Task = {t1, t2}
  Limit = 2
  Window = 3
  Retain = 5
  MaxBuckets = 2
  MaxLag = 1
SYMMETRY Symmetric
INVARIANT TypeOK
INVARIANT BucketsBounded
INVARIANT SlidingBound
PROPERTY RefusalJustified
