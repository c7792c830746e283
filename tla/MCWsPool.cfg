SPECIFICATION FairSpec
CONSTANTS
  s1 = s1
  s2 = s2
  s3 = s3
  k1 = k1
  k2 = k2
  Keys = {k1}
  Sock = {s1, s2}
  PoolSize = 2
  MaxAge = 2
  CheckInterval = 1
  BackoffInitial = 1
  BackoffMax = 2
  Doublings = 1
INVARIANTS PoolBounded Watched BackoffEarned
PROPERTIES RefillEnds StaleLeaves
