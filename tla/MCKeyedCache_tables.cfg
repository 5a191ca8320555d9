SPECIFICATION Spec
CONSTANTS
  Calls = {c1}
  Writers = {w1}
  Bulks = {b1}
  Slots = {s1, s2}
  Keys = {k1, k2}
  Scopes <- AllOrOneTable
  MaxEntries = 1
  NoCall = NoCall
INVARIANTS
  CacheFresh
  CapRespected
CHECK_DEADLOCK FALSE
