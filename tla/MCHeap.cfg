SPECIFICATION Spec
CONSTANTS
  HeapStart = 64
  HeapSize = 320
  Word = 1024
  Requests <- MCRequests
  AlignedRequests <- MCAlignedRequests
INVARIANTS Tiling Coalesced Owned Inside
PROPERTY Allocates
