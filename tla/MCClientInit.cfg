SPECIFICATION FairSpec
CONSTANTS
  InitLen = 2
  ReadSize = 2
  Wires <- McWires
  MaxProbe = 2
  MaxReply = 2
INVARIANTS
  StreamExact
  Disguised
PROPERTIES
  MaskEnds
CHECK_DEADLOCK FALSE
