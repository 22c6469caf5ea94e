SPECIFICATION Spec
CONSTANTS
  Inputs <- MCInputs
  Spliced <- MCSpliced
  Quoted <- MCQuoted
INVARIANTS
  NotReentered
  SubstIsStandard
PROPERTIES
  Terminates
CHECK_DEADLOCK FALSE
