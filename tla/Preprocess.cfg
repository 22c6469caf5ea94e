SPECIFICATION FairSpec
CONSTANTS
  Programs <- AllPrograms
  Files <- Headers
  MaxLines = 5
INVARIANTS
  InsideSelected
PROPERTIES
  ImplementsStandard
  Terminates
CHECK_DEADLOCK FALSE
