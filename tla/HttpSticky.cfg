SPECIFICATION Spec
CONSTANTS
  Scripts <- AfterClose
  MaxUrl = 3
  MaxBody = 2
  ReadCap = 4
  WritesFail = TRUE
  AllocFails = TRUE
INVARIANTS
  DispatchHasRequest
CHECK_DEADLOCK FALSE
