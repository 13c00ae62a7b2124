\* Can one key be loaded from the origin twice at once?
SPECIFICATION Spec
CONSTANTS
  Callers = {c1, c2}
  Tasks = {t1, t2}
  Keys = {k1}
  None = None
  NoEntry = NoEntry
  FreshMs = 1
  StaleMs = 2
  CustomOptions <- NoOptions
  WaitMs = 1
  KeepsExpired = FALSE
  Depth = 1
  Ops = {"swr"}
  Faults = {}
  MaxTime = 3
  MaxVersion = 1
INVARIANTS AtMostOneLoad
