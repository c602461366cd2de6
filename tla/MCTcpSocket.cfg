SPECIFICATION Spec
CONSTANTS
  p1 = p1
  p2 = p2
  Peers <- MCPeers
  MaxSockets = 3
  QueueLen = 1
  MaxPayloads = 2
  MaxObjects = 3
  MaxCopies = 2
SYMMETRY MCSymmetry
INVARIANTS OnePerPeer EndsAgree AcceptedOnce NoDangling StreamIntact
PROPERTY FollowsDiagram
CHECK_DEADLOCK FALSE
