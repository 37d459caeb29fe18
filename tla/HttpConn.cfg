SPECIFICATION FairSpec
CONSTANTS
  Scripts <- MCScripts
  MaxUrl = 3
  MaxBody = 2
  ReadCap = 4
  WritesFail = TRUE
  AllocFails = TRUE
INVARIANTS
  InOrder
  AllServed
  AnswersFollow
PROPERTIES
  Closes
CHECK_DEADLOCK FALSE
