\* Two callers, two caches of different types that share a key, on one metered store.
SPECIFICATION MetricsSpec
CONSTANTS
  Procs = {p1, p2}
  V = V
  W = W
  a = a
  k = k
  Segments = {a, k}
  Types = {V, W}
  Writes = {V, W}
  Reads <- MCReads
  Spaces <- TwoSpaces
  Names <- TwoNames
  TypeOf <- MCTypeOf
  Inputs <- MCInputs
  Batches <- MCBatches
  NoEntry = NoEntry
  MaxTime = 2
SYMMETRY Interchangeable
INVARIANTS TypeOK NoTypeConfusion RemoveRemoves MetricTellsTruth
PROPERTIES ImplementsStore
