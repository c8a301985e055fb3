CONSTANTS
  c1 = c1
  c2 = c2
  Channels <- MCChannels
  MaxFrames = 2
  MaxSubstreams = 2
  EventCap = 2
  DataKinds = {"data"}
  ReuseChannelIds = FALSE
  SubCap = 1
  ReceiversMayDrop = TRUE

SPECIFICATION Spec

PROPERTY DataDelivered

CHECK_DEADLOCK FALSE
