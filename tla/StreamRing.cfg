SPECIFICATION FairSpec
CONSTANTS
  Cap <- MCCap
  MaxPush <- MCMaxPush
INVARIANTS
  ErrorOwnedOnce
PROPERTIES
  ImplementsQueue
  ThreadsReturn
CHECK_DEADLOCK FALSE
