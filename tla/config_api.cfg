SPECIFICATION Spec
CONSTANTS
  Workers = {w1, w2, w3}
  Fields = {f, g}
  MaxRows = 2
  MaxWrites = 4
  MaxFaults = 1
  None = None
SYMMETRY Symmetry
CHECK_DEADLOCK FALSE
INVARIANTS
  TypeOK
  NoLostChange
  RuntimeFresh
  HookIsLast
