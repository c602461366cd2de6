SPECIFICATION MountSpec
CONSTANTS
  Full = {"f"}
  Short = {"s"}
  MaxPieces = 2
  Entries = 6
  DeviceNames <- MCDevices
  Disks <- MCDisks
INVARIANTS OpensNamed MountsLive
CHECK_DEADLOCK FALSE
