SPECIFICATION FairSpec
CONSTANTS
  MaxEvents = 2
  QueueCap = 1
  MaxConcurrent = 1
  MaxRetries = 2
  Ids = {i1}
  Kinds <- KindsMC
  Filters <- FiltersMC
  GlobalURL = TRUE
  GlobalEvents <- GlobalEventsMC
  MaxEdits = 1
  StoreMayFail = TRUE
  None = None
CHECK_DEADLOCK FALSE
PROPERTIES
  EventsSettle
  StopsAfterCancel
