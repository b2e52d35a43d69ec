CONSTANTS
  s1 = s1
  s2 = s2
  west = west
  mid = mid
  east = east
  Stations = {s1, s2}
  FirstLog <- MCFirstLog
  Zones = {west, mid, east}
  Ahead <- MCAhead
  FirstZone = mid
  DayLength = 2
  RetryDelay = 1
  RawKeep = 0
  Lookback = 1
  FutureSlack = 1
  MaxInputs = 2
  MaxReadings = 1
  MaxTime = 5
  SegmentLines = 2
  MaxSeq = 3
  RetentionDays = 1
  MaxLines = 6
  MaxDay = 3
  MaxFaults = 2
SPECIFICATION DaysSpec
INVARIANT DaysTile
INVARIANT ListsFollowLogs
INVARIANT ClosedFromItsReadings
INVARIANT LinesKept
PROPERTY DropsOlderDaysFirst
CHECK_DEADLOCK FALSE
