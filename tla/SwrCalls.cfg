\* Two concurrent calls of swr and get, two background tasks, a lossy store that may fail and keeps expired entries.
SPECIFICATION Spec
CONSTANTS
  Callers = {c1, c2}
  Tasks = {t1, t2}
  Keys = {k1}
  None = None
  NoEntry = NoEntry
  FreshMs = 1
  StaleMs = 2
  CustomOptions <- NoOptions
  WaitMs = 1
  KeepsExpired = TRUE
  Depth = 1
  Ops = {"swr", "get"}
  Faults = {"get", "set", "origin", "abandon"}
  MaxTime = 3
  MaxVersion = 1
SYMMETRY Interchangeable
INVARIANTS TypeOK MarkerHasLoader OwnLoadIsRecent NoneOnlyFromOrigin ExpiredNeverLost
PROPERTIES OnlyAdvances
