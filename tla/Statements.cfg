SPECIFICATION Spec
CONSTANTS
  Bodies <- MCBodies
  Values <- MCValues
  Bits = 3
INVARIANTS
  TypeOK
  RefusesAsC
  SameExpressions
  KeepsPace
CHECK_DEADLOCK FALSE
