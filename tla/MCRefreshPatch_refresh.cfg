SPECIFICATION Spec
CONSTANTS
  Keys = {k1}
  Values = {v1, v2}
  v1 = v1
  v2 = v2
  None = None
  MaxRuns = 3
  MaxWrites = 1
  MaxEdits = 1
  MaxUpsets = 1
SYMMETRY SwapValues
INVARIANTS ShownIsTrue StreamingHasEnd
CHECK_DEADLOCK FALSE
