SPECIFICATION FairSpec
CONSTANTS
  Sessions = {s1}
  Reconnects = {r1}
  Disconnects = {d1}
  Starts = {l1}
  Streams = {x1}
  StreamOf <- OneStream
  Producers = {}
  KindOf <- NoKinds
  TxSessions = {}
  Mortal = {}
  None = None
  l1 = l1
  x1 = x1
  q1 = q1
INVARIANTS
  StreamsExact
  NoListenerAfterDisconnect
PROPERTY ListenersEnd
CHECK_DEADLOCK FALSE
