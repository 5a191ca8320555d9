SPECIFICATION Spec
CONSTANTS
  Plain = {}
  Previews = {p1}
  Others = {o1}
  Timed = {p1}
  Conns = {c1}
  PoolSize = 1
  None = None
SYMMETRY ConnSymmetry
INVARIANTS
  PreviewKillsHitOwn
CHECK_DEADLOCK FALSE
