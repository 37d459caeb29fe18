SPECIFICATION FairSpec
CONSTANTS
  r1 = r1
  r2 = r2
  None = None
  Reqs <- OneReq
  Modes <- AllModes
  Cap = 2
  MaxTokens = 2
  Hwm = 1
  WritesFail = FALSE
INVARIANTS
  ResponseShape
PROPERTIES
  RequestsEnd
  StopReturns
CHECK_DEADLOCK FALSE
