SPECIFICATION FairSpec
CONSTANTS
  r1 = r1
  Args <- MCArgs
  Dashed <- MCDashed
  Long <- MCLong
  Float <- MCFloat
  INT_MAX = 70000
  CommandLines <- MCCommandLines
  Reqs <- OneReq
  Run = r1
  Cap = 2
  MaxTokens = 3
  MaxSigints = 2
INVARIANTS
  ExitHonest
  NothingLost
  LeavesNothing
PROPERTIES
  CtrlCEnds
CHECK_DEADLOCK FALSE
