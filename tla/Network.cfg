SPECIFICATION Spec
CONSTANTS
  Peers = {p1}
  Ports = {1, 2}
  Macs = {1, 2}
  RxSize = 32
  Lengths = {5}
  TxSlots = 2
  QueueSize = 2
  MaxFrames = 2
  MaxSends = 2
  MaxSockets = 2
  MaxMissed = 1
INVARIANTS AddressesFresh DatagramsOwned
PROPERTIES Sent Resolves
CHECK_DEADLOCK FALSE
