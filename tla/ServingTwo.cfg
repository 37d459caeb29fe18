SPECIFICATION Spec
CONSTANTS
  r1 = r1
  r2 = r2
  None = None
  Reqs <- TwoReqs
  Modes = {"completion"}
  Cap = 2
  MaxTokens = 0
  Hwm = 1
  WritesFail = TRUE
SYMMETRY Symmetry
VIEW WithoutHistory
INVARIANTS
  NoDanglingPointer
  DrainCount
  AnsweredOnce
CHECK_DEADLOCK FALSE
