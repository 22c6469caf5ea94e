SPECIFICATION Spec
CONSTANTS
  Sources <- Files
  Keywords <- Words
  ShortName = 1
  LongName = 2
  IntBits = 3
  LongBits = 5
CHECK_DEADLOCK FALSE
INVARIANTS
  TypeOK
  ReadAsC
  ConstantsAsC
  StringsAsC
