\* A get and a remove on two tiers that never fail.
SPECIFICATION Spec
CONSTANTS
  Callers = {c1, c2}
  Fills = {f1}
  Keys = {k1}
  Data = {d1}
  Inputs <- MCInputs
  NoEntry = NoEntry
  Depth = 2
  Faults = {}
  Losses = TRUE
SYMMETRY Interchangeable
PROPERTIES RemoveRemoves
