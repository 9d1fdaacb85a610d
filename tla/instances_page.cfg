SPECIFICATION FairSpec
CONSTANTS
  Names = {a}
  Calls = {c1, c2}
  MaxClicks = 4
  MaxChanges = 1
  MaxFails = 1
  None = None
CHECK_DEADLOCK FALSE
INVARIANTS
  TypeOK
  NeverBlank
  ModalIsOwn
  SpinnerWaits
PROPERTIES
  PageSettles
