CONSTANTS
  p1 = p1
  Peers <- MCPeers
  MaxConns = 2
  MaxSid = 2
  QueueCap = 2
  MaxInbound = 2

SPECIFICATION Spec

INVARIANT OutboundRequestsAccounted


CHECK_DEADLOCK FALSE
