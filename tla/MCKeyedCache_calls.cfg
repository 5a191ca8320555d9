SPECIFICATION FairSpec
CONSTANTS
  Calls = {c1, c2}
  Writers = {w1}
  Bulks = {}
  Slots = {s1}
  Keys = {k1}
  Scopes <- AllItems
  MaxEntries = 1
  NoCall = NoCall
INVARIANTS
  ReadsFresh
  SingleFlight
PROPERTIES
  SharedFetchFresh
  EveryCallReturns
CHECK_DEADLOCK FALSE
