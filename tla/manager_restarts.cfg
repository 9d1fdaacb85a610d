SPECIFICATION FairSpec
CONSTANTS
  Names = {n1}
  Ids = {i1}
  Objs = {o1, o2}
  Jids = {j1}
  Procs = {p1}
  Ops = {"create", "connect", "logout", "delete"}
  Faults = {"drop"}
  MaxBoots = 2
  None = None
INVARIANTS
  NoStray
PROPERTIES
  OpenRowsResume
