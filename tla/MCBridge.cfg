SPECIFICATION Spec
CONSTANTS
  Streams <- MCStreams
  Protos = {"abridged"}
  Word = 1
  MaxMessage = 3
  MaxDown = 5
INVARIANTS UplinkExact DownlinkExact Released
PROPERTIES NoFrameAfterClose TearsDown
