SPECIFICATION FairSpec
CONSTANTS
  Plain = {q1, q2}
  Previews = {p1}
  Others = {o1}
  Timed = {q1, p1}
  Conns = {c1, c2, c3}
  PoolSize = 2
  None = None
INVARIANTS
  KillsHitOwn
  PoolClean
PROPERTIES
  TimedRunsEnd
CHECK_DEADLOCK FALSE
