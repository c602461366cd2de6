SPECIFICATION Spec
CONSTANTS
  stdout = stdout
  stdin = stdin
  Devices <- MCDevices
  MaxFds = 2
INVARIANT NoDoubleFree
