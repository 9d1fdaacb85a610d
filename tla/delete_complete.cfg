SPECIFICATION Spec
CONSTANTS
  Names = {n1}
  Ids = {i1}
  Objs = {o1, o2}
  Jids = {j1}
  Procs = {p1, p2}
  Ops = {"create", "connect", "delete"}
  Faults = {}
  MaxBoots = 1
  None = None
INVARIANTS
  DeleteIsComplete
