CONSTANTS
  Jobs = {j1}
  Readers = {r1, r2}
  NoJob = NoJob
  MaxForeign = 2
  MaxOwn = 2
  MaxEpoch = 4
SPECIFICATION Spec
SYMMETRY Symmetry
VIEW LiveState
INVARIANT NoStaleApply
INVARIANT PinsAgree
