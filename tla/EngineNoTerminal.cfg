SPECIFICATION Spec
CONSTANTS
  r1 = r1
  l1 = l1
  None = None
  Reqs <- OneReq
  Loads <- OneLoad
  Misc = {}
  Inputs <- OneInput
  Cap = 2
  MaxPos = 1
  PrefillChunk = 1
INVARIANTS
  CancelGetsTerminal
CHECK_DEADLOCK FALSE
