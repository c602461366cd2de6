SPECIFICATION Spec
CONSTANTS
  stdout = stdout
  stdin = stdin
  Devices <- MCDevices
  MaxFds = 4
INVARIANTS FilesOwned ObjectsOwned
