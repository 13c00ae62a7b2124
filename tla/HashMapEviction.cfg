\* Two callers over three keys, room for one entry, eviction on some sets, dropped futures.
SPECIFICATION Spec
CONSTANTS
  Procs = {p1, p2}
  Keys = {k1, k2, k3}
  NoEntry = NoEntry
  Inputs <- OneValue
  Frequency = "sometimes"
  MaxItems = 1
  MaxTime = 2
  Drops = TRUE
SYMMETRY Interchangeable
INVARIANTS TypeOK CapacityBound
PROPERTIES EvictsNearestDeadline OnlyKnownLosses ImplementsStore
