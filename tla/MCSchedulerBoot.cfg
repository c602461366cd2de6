SPECIFICATION Spec
CONSTANTS
  NThreads = 2
  Priority <- MCBootPriority
  Callers = {1}
  Enders = {0}
  WorkWrap = 6
INVARIANT SyscallRegistersKept
CHECK_DEADLOCK FALSE
