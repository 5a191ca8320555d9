SPECIFICATION Spec
CONSTANTS
  Sessions = {s1}
  Reconnects = {r1, r2}
  Disconnects = {d1, d2}
  Starts = {}
  Streams = {}
  StreamOf <- NoStreams
  Producers = {q1}
  KindOf <- OneResult
  TxSessions = {s1}
  Mortal = {s1, r1}
  None = None
  l1 = l1
  x1 = x1
  q1 = q1
INVARIANTS
  ConnectionsOwned
PROPERTIES
  NoResurrection
  RemovalReleases
CHECK_DEADLOCK FALSE
