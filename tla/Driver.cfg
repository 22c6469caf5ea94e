SPECIFICATION Spec
CONSTANTS
  Commands <- AllCommands
  OldFiles <- OldOutputs
  MaxInputs = 3
INVARIANTS
  ReadyToRun
  CompleteOnSuccess
  TmpfilesRemoved
CHECK_DEADLOCK FALSE
