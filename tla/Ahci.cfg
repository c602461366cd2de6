SPECIFICATION Spec
CONSTANTS
  Threads = {t1, t2}
  NumSlots = 2
  MaxCommands = 4
  MaxErrors = 2
  MaxTimeouts = 2
INVARIANTS DoneIsDone NoStray
PROPERTY Recovers
CHECK_DEADLOCK FALSE
