CONSTANTS
  p1 = p1
  Peers <- MCPeers
  MaxConns = 2
  MaxSid = 2
  QueueCap = 2
  MaxInbound = 2

SPECIFICATION Spec

INVARIANT TypeOK
INVARIANT NoSubstreamLeak
PROPERTY TransitionsFollowGraph
PROPERTY SessionRefined
PROPERTY PendingOpenDiscarded
PROPERTY CloseTakesEffect

CHECK_DEADLOCK FALSE
