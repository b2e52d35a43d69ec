CONSTANTS
  s1 = s1
  s2 = s2
  Sites = {s1, s2}
  Kinds = {"close", "wind", "fetch", "curobs"}
  Limit <- MCLimit
  Cooldown = 1
  Spacing = 1
  Evening = {2}
  Retention = 1
  MaxRetryCount = 2
  MaxDelay = 1
  InitialTables <- MCTables
  MaxJobs = 2
  MaxTime = 2
  MaxStarts = 2
SPECIFICATION FairSpec
VIEW LiveState
INVARIANT RunningIsHeld
INVARIANT RetriesEnd
PROPERTY OutcomeIsOwn
PROPERTY CooldownKept
PROPERTY LedgerSpec
PROPERTY DueIsClaimed
CHECK_DEADLOCK FALSE
