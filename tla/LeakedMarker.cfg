\* A dropped call or a panicking load leaves its marker: is a stale entry still revalidated?
SPECIFICATION Spec
CONSTANTS
  Callers = {c1, c2}
  Tasks = {t1, t2}
  Keys = {k1}
  None = None
  NoEntry = NoEntry
  FreshMs = 1
  StaleMs = 2
  CustomOptions <- NoOptions
  WaitMs = 1
  KeepsExpired = FALSE
  Depth = 1
  Ops = {"swr"}
  Faults = {"abandon"}
  MaxTime = 2
  MaxVersion = 0
PROPERTIES GivesWayToALoad
