SPECIFICATION AnySpec
CONSTANTS
  r1 = r1
  l1 = l1
  None = None
  Reqs <- OneReq
  Loads <- OneLoad
  Misc = {"RECLAIM", "UNLOAD", "EMBED", "STOP"}
  Inputs <- ManyInputs
  Cap = 2
  MaxPos = 3
  PrefillChunk = 1
INVARIANTS
  TokenBudget
  TerminalUnlessWithdrawn
  RefsExact
  NoUseAfterFree
  ResidentModel
  DestroyedClean
  VerdictIsOwn
PROPERTIES
  KeepsContract
  ShutdownExits
  CancelSettles
CHECK_DEADLOCK FALSE
