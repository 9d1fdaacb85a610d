SPECIFICATION Spec
CONSTANTS
  Names = {n1}
  Ids = {i1}
  Objs = {o1, o2}
  Jids = {j1}
  Procs = {p1}
  Ops = {"create", "connect", "restart", "logout"}
  Faults = {"dial"}
  MaxBoots = 1
  None = None
PROPERTIES
  LogoutClears
