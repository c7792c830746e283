SPECIFICATION FairSpec
CONSTANTS
  MaxRestarts = 1
  MaxVersion = 2
  PortOf <- TrayPorts
INVARIANTS
  OneProxy
  ServesLatest
PROPERTIES
  ToldEnds
  ExitEnds
CHECK_DEADLOCK FALSE
