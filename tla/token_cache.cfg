SPECIFICATION FairSpec
CONSTANTS
  Requests = {q1, q2, q3}
  MaxRows = 2
  None = None
INVARIANT TypeOK
PROPERTIES
  StaysForgotten
  TokenDies
