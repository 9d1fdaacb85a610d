SPECIFICATION Spec
CONSTANTS
  Names = {n1}
  Ids = {i1, i2}
  Objs = {o1, o2}
  Jids = {j1}
  Procs = {p1, p2}
  Ops = {"create", "connect", "restart", "logout", "delete", "disconnect"}
  Faults = {"store", "dial", "logout", "drop"}
  MaxBoots = 1
  None = None
SYMMETRY Symmetry
INVARIANTS
  TypeOK
  MapReady
  SessionOfRow
  NoStray
  RunningHasRow
