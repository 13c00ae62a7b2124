\* Fair calls and tasks, no abandoned work: everything that starts also ends.
SPECIFICATION FairSpec
CONSTANTS
  Callers = {c1, c2}
  Tasks = {t1, t2}
  Keys = {k1}
  None = None
  NoEntry = NoEntry
  FreshMs = 1
  StaleMs = 2
  CustomOptions <- NoOptions
  WaitMs = 1
  KeepsExpired = FALSE
  Depth = 1
  Ops = {"swr"}
  Faults = {"get", "set", "origin"}
  MaxTime = 2
  MaxVersion = 0
PROPERTIES CallsReturn BackgroundWorkEnds MarkersAreReleased StaleHitReachesOrigin GivesWayToALoad
