SPECIFICATION Spec
CONSTANTS
  s1 = s1
  s2 = s2
  s3 = s3
  k1 = k1
  k2 = k2
  Keys = {k1, k2}
  Sock = {s1, s2, s3}
  PoolSize = 1
  MaxAge = 1
  CheckInterval = 1
  BackoffInitial = 1
  BackoffMax = 1
  Doublings = 0
SYMMETRY SockSymmetry
INVARIANTS OneOwner NoOrphan
PROPERTIES PoolContract
