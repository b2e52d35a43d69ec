CONSTANTS
  a1 = a1
  a2 = a2
  none = none
  main = main
  poller = poller
  page = page
  r1 = r1
  r2 = r2
  Addrs <- MCAddrs
  NoAddr <- none
  DriftCycles = 2
  Attempts = 2
  ConfirmRetries = 1
  MaxEvents = 3
  OldFiles <- MCOldFiles
  MaxStops = 1
  MaxFaults = 2
  MaxEdits = 1
  Lanes <- MCLanes
  Pages <- MCPages
  Reclaim = reclaim
  Conns <- MCConns
  Nobody = nobody
  MaxOps = 3
  MaxFailures = 1
SPECIFICATION ProgramsSpec
INVARIANT QuietIsRight
INVARIANT HistoryKept
INVARIANT ConnectionsApart
INVARIANT NothingStranded
PROPERTY RecordFollows
PROPERTY OperatorChoiceKept
PROPERTY UpgradeCompletes
PROPERTY StopEnds
PROPERTY ShutdownEnds
CHECK_DEADLOCK FALSE
