CONSTANTS
  s1 = s1
  s2 = s2
  Stations = {s1, s2}
  Slots = {2, 3, 4}
  LateFrom = 4
  DayEnd = 5
  Interval = 1
  Defer = 1
  Hold = 2
  MaxDelay = 2
  PollFloor = 1
  PollPark = 2
  ChunkCalls = 1
  Cooldown = 2
  Limit = 2
  BillAt = 3
  MaxTime = 5
  MaxUpsets = 1
SPECIFICATION Spec
SYMMETRY TwoStations
VIEW LiveState
INVARIANT PauseHeeded
CHECK_DEADLOCK FALSE
