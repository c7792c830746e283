SPECIFICATION SplitSpec
CONSTANTS
  MaxLen = 6
  Bytes = {0, 1, 127, 129}
  Streams <- MCStreams
  Protos = {"abridged", "intermediate", "other"}
  Word = 1
INVARIANTS FramesArePackets HoldsOnlyBeginning NothingDropped
CHECK_DEADLOCK FALSE
