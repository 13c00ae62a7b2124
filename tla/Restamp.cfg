\* What does the expired path cache after it waited for somebody else's load?
SPECIFICATION Spec
CONSTANTS
  Callers = {c1, c2}
  Tasks = {t1, t2}
  Keys = {k1}
  None = None
  NoEntry = NoEntry
  FreshMs = 1
  StaleMs = 2
  CustomOptions <- NoOptions
  WaitMs = 1
  KeepsExpired = TRUE
  Depth = 1
  Ops = {"swr"}
  Faults = {"origin"}
  MaxTime = 3
  MaxVersion = 1
INVARIANTS ExpiredPathCachesLoads
