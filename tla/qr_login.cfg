SPECIFICATION FairSpec
CONSTANTS
  Requests = {r1}
  MaxCodes = 3
  BufCap = 2
  None = None
CHECK_DEADLOCK FALSE
INVARIANTS
  TypeOK
  NoSendOnClosed
  FirstEvent
PROPERTY ConnectEnds
