SPECIFICATION Spec
CONSTANTS
  h1 = h1
  h2 = h2
  long = long
  empty = empty
  x = x
  y = y
  Handles <- MCHandles
  Files <- MCFiles
  Byte <- MCBytes
  Zero = x
  First <- MCFirst
  Fat <- MCFat
  Chain <- MCChain
  ClusterBytes = 2
  SectorBytes = 1
  Watched = long
  MaxIo = 2
SYMMETRY MCSymmetry
INVARIANTS SizeFitsChain PositionInFile SizeOnDisk
PROPERTIES OthersUntouched RefinesByteFile
CHECK_DEADLOCK FALSE
