CONSTANTS
  f1 = f1
  Feeds = {f1}
  Packages = {f1}
  Hours = {1}
  DayLength = 3
  RoundAt = 0
  Offsets <- MCOffsets
  RoundBound = 2
  Slots <- MCSlots
  BillAt = 2
  Pages = 2
  Limit = 4
  DaytimeMaxRetries = 1
  Cooldown = 1
  Interval = 1
  MaxDelay = 1
  MaxUpsets = 1
  StartAt = 1
  MaxTime = 4
SPECIFICATION Spec
VIEW LiveState
INVARIANT BudgetCoversCalls
INVARIANT RoundTriesBounded
INVARIANT RoundStoredOnce
INVARIANT ScoredIsFirst
CHECK_DEADLOCK FALSE
