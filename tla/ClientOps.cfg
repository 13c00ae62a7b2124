\* swr, get, set and remove mixed by two clients, whose calls overlap with each other and with tasks.
SPECIFICATION Spec
CONSTANTS
  Callers = {c1, c2}
  Tasks = {t1, t2}
  Keys = {k1}
  None = None
  NoEntry = NoEntry
  FreshMs = 1
  StaleMs = 2
  CustomOptions <- NoOptions
  WaitMs = 1
  KeepsExpired = TRUE
  Depth = 1
  Ops = {"swr", "get", "set", "remove"}
  Faults = {"origin"}
  MaxTime = 2
  MaxVersion = 1
SYMMETRY Interchangeable
PROPERTIES ImplementsContract
