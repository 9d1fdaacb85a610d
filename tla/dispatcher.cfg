SPECIFICATION Spec
CONSTANTS
  MaxEvents = 3
  QueueCap = 1
  MaxConcurrent = 2
  MaxRetries = 2
  Ids = {i1}
  Kinds <- KindsMC
  Filters <- FiltersMC
  GlobalURL = TRUE
  GlobalEvents <- GlobalEventsMC
  MaxEdits = 0
  StoreMayFail = TRUE
  None = None
CHECK_DEADLOCK FALSE
INVARIANTS
  TypeOK
  DeliveriesBounded
PROPERTIES
  KeepsPromise
