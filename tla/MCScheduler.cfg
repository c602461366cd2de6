SPECIFICATION Spec
CONSTANTS
  NThreads = 3
  Priority <- MCPriority
  Callers = {0, 1}
  Enders = {0, 1, 2}
  WorkWrap = 3
INVARIANTS StopsKnown ContextsKept NoResurrection QuantumBound
PROPERTY RunsAgain
CHECK_DEADLOCK FALSE
