SPECIFICATION FairSpec
CONSTANTS
  d2 = d2
  d3 = d3
  Dcs = {dc4}
  Dc = dc4
  Sock = {s1, s2}
  PoolSize = 4
  PerDcLimit = 1
  Own = {o1}
  Default = {d1, d2}
  Pools <- McPools
  NoDomain = none
  MaxThreads = 2
  Client = {c1}
  Workers = {w1}
  WithWorkers = 1
INVARIANTS
  OwnDomains
  TriesAll
PROPERTIES
  WorkerContract
  SupersededEnds
