CONSTANTS
  NumDays = 2
  DayLen = 1
  DayEnd <- MCDayEnd
  RoundBound = 0
  RetryDelay = 1
  LateLimit = 1
  Changeover = {}
  MaxTime = 5
  MaxStops = 0
SPECIFICATION Spec
VIEW LiveState
PROPERTY NeverPublishesAfterNewer
