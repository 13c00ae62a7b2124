\* Three calls on one key; every tier may fail and every call be dropped.
SPECIFICATION Spec
CONSTANTS
  Callers = {c1, c2, c3}
  Fills = {f1, f2}
  Keys = {k1}
  Data = {d1, d2}
  Inputs <- MCInputs
  NoEntry = NoEntry
  Depth = 2
  Faults = {"get", "set", "remove", "abandon"}
  Losses = TRUE
SYMMETRY Interchangeable
INVARIANTS TypeOK SettledTiersAgree OnlyFillsUndoRemoves
PROPERTIES ImplementsStore
