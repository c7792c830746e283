SPECIFICATION Spec
CONSTANTS
  p1 = p1
  p2 = p2
  Pids <- McPids
  Checkers <- McPids
  MaxBirth = 3
  MaxRelease = 3
  MaxPublish = 1
  FirstLatest = 2
  FirstVersion = 1
SYMMETRY Interchangeable
INVARIANTS
  OneInstance
  ProgramKept
  OfferSound
PROPERTIES
  RefusedRightly
CHECK_DEADLOCK FALSE
