CONSTANTS
  NumDays = 3
  DayLen = 1
  DayEnd <- MCDayEnd
  RoundBound = 1
  RetryDelay = 1
  LateLimit = 1
  Changeover = {1}
  MaxTime = 5
  MaxStops = 1
  StallLimit = 1
SPECIFICATION Spec
VIEW LiveState
INVARIANT UnpublishedDayIsNamed
INVARIANT NoStrandedJob
INVARIANT PublicationPerClosure
INVARIANT PublishedIsSwapped
PROPERTY StagesInOrder
PROPERTY RetrySpacing
PROPERTY NoEarlyVerdict
PROPERTY RecordsPublishInOrder
PROPERTY LedgerSpec
