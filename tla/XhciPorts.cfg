SPECIFICATION PortsSpec
CONSTANTS
  NumPorts = 2
  NumSlots = 3
  MaxPlugs = 3
  MaxFaults = 1
  MaxPasses = 2
INVARIANTS PortsFollowed OneDevice SlotsMatch
CHECK_DEADLOCK FALSE
