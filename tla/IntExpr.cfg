SPECIFICATION Spec
CONSTANTS
  Bits <- MCBits
  Values <- MCValues
INVARIANTS
  CodeIsC
  TypesAreC
  ConstantIsC
