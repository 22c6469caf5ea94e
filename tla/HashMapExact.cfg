SPECIFICATION ExactSpec
CONSTANTS
  a = a
  b = b
  c = c
  d = d
  Keys = {a, b, c, d}
  Vals = {v, w}
  NoVal = NoVal
  Null = Null
  TOMBSTONE = TOMBSTONE
  Hash <- MCHash
  HashModulus = 16
  INIT_SIZE = 4
  Capacities = {4, 8}
INVARIANTS
  KeysOnce
PROPERTIES
  ImplementsMap
CHECK_DEADLOCK FALSE
