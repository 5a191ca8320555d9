CONSTANTS
  p1 = p1
  p2 = p2
  c1 = c1
  c2 = c2
  t1 = t1
  i1 = i1
  i2 = i2
  Procs = {p1, p2}
  Calls = {c1, c2}
  Ids = {t1}
  Pids = {i1, i2}
  MaxSeq = 3
  MaxUpsets = 1
SPECIFICATION FairSpec
PROPERTIES NothingOverwritten Refinement EveryCallReturns
CHECK_DEADLOCK FALSE
