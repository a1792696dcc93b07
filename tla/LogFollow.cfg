SPECIFICATION LogFairSpec
CONSTANTS
  None = None
  TailLines <- OneTailOrNone
  NoTail = None
  NoTime = NoTime
  Second = 2
  MaxLines = 3
  MaxTime = 4
CHECK_DEADLOCK FALSE
INVARIANTS
  LogTypeOK
  NoGap
  EndIsComplete
  ResentIsRecent
PROPERTY ReaderEnds
