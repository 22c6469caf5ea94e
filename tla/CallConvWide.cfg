SPECIFICATION Spec
CONSTANTS
  GP_MAX = 3
  FP_MAX = 2
  MaxArgs = 4
  ArgLists <- WideLists
  StartDepths = {0, 1}
  AllocaSizes = {1, 16}
  AllocaArgs = 3
  AllocaWords = 4
INVARIANTS
  ArgsArrive
  VariadicArrive
  Balanced
  Aligned
