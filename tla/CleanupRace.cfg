\* Does a get remove only expired entries?
SPECIFICATION Spec
CONSTANTS
  Procs = {p1, p2}
  Keys = {k1, k2, k3}
  NoEntry = NoEntry
  Inputs <- OneValue
  Frequency = "always"
  MaxItems = 1
  MaxTime = 2
  Drops = FALSE
PROPERTIES CleanupRemovesExpired
