SPECIFICATION Spec
CONSTANTS
  Declarators <- MCDeclarators
  MaxMembers = 3
  Values <- MCValues
  Gaps = FALSE
INVARIANTS
  AsAbi
  UnitsInside
  ReadsBack
  LayoutKept
