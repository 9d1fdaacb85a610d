SPECIFICATION FairSpec
CONSTANTS
  Names = {a, b}
  Calls = {c1, c2}
  MaxClicks = 3
  MaxFaults = 1
  Hooked = {a}
  None = None
CHECK_DEADLOCK FALSE
INVARIANTS
  TypeOK
  SavesOwn
  PageIsRow
PROPERTIES
  WritesInOrder
  EditsStay
  PageSettles
