CONSTANTS
  a1 = a1
  a2 = a2
  none = none
  Addrs <- MCAddrs
  NoAddr <- none
  DriftCycles = 2
  Attempts = 2
  ConfirmRetries = 1
  MaxEvents = 3
SPECIFICATION Spec
INVARIANT StartupSelfHeal
