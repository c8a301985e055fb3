CONSTANTS
  c1 = c1
  c2 = c2
  Channels <- MCChannels
  MaxFrames = 3
  MaxSubstreams = 2
  EventCap = 2
  DataKinds = {"data"}
  ReuseChannelIds = FALSE
  SubCap = 1
  ReceiversMayDrop = FALSE

SPECIFICATION Spec

INVARIANT ExitDisconnects


CHECK_DEADLOCK FALSE
