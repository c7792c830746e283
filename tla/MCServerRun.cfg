SPECIFICATION Spec
CONSTANTS
  Clients = {c1, c2, c3}
  WaitKinds = {FALSE, TRUE}
INVARIANTS SweepLeavesOnlyLate
PROPERTIES ListenerReplaced StopEnds
