\* Two callers over a key with TTLs and one without; half a second a step.
SPECIFICATION Spec
CONSTANTS
  Procs = {p1, p2}
  Keys = {k1, k2}
  Persistent = {k2}
  V = V
  W = W
  Types = {V, W}
  Writes = {V, W}
  Reads <- MCReads
  Inputs <- ThreeInputs
  NoEntry = NoEntry
  Never = Never
  TickMs = 500
  MaxTime = 2500
  MaxDels = 1
SYMMETRY Interchangeable
INVARIANTS TypeOK AnswersDecode TtlLosesLessThanASecond
PROPERTIES OnlyKnownLosses ImplementsStore
