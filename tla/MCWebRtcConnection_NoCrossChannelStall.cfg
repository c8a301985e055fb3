CONSTANTS
  c1 = c1
  c2 = c2
  Channels <- MCChannels
  MaxFrames = 3
  MaxSubstreams = 2
  EventCap = 2
  DataKinds = {"data", "flags"}
  ReuseChannelIds = FALSE
  SubCap = 1
  ReceiversMayDrop = FALSE

SPECIFICATION Spec

INVARIANT NoCrossChannelStall

CHECK_DEADLOCK FALSE
