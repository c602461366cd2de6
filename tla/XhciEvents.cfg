SPECIFICATION Spec
CONSTANTS
  RingSize = 3
  TrbCount = 3
  MaxEvents = 4
  MaxCommands = 2
  MaxTransfers = 2
INVARIANTS AnswerIsMine AnswersOnce OwnData ReportsKept
PROPERTY EventsRead
CHECK_DEADLOCK FALSE
