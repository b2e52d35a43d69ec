CONSTANTS
  NumDays = 2
  DayLen = 1
  DayEnd <- MCDayEnd
  RoundBound = 0
  RetryDelay = 1
  LateLimit = 0
  Changeover = {}
  MaxTime = 3
  MaxStops = 1
SPECIFICATION FairSpec
VIEW LiveState
PROPERTY EveryDayDone
PROPERTY PublicationsEnd
