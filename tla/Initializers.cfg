SPECIFICATION Spec
CONSTANTS
  Types <- Objects
  MaxItems <- Bounds
  MaxNesting = 3
  Indices = {0, 2}
  Lengths = {1, 4}
  Shorthand = FALSE
  Leftovers = FALSE
INVARIANTS
  ReadAsC
  StaticAsC
  LocalAsC
CHECK_DEADLOCK FALSE
