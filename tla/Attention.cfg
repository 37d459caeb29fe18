SPECIFICATION ModelSpec
CONSTANTS
  NumLayers = 4
  Configs <- AllConfigs
  Dirs <- MCDirs
  Safetensors <- MCSafetensors
  Escaping <- MCEscaping
  INT_MAX = 100000
  ID_MAX = 100000
  MAX_LAYERS = 4
  MAX_EOS_TOKENS = 4
  PrefillChunk = 3
  MaxPrompt = 7
  MaxNew = 4
INVARIANTS
  AttendsWindow
  CacheHoldsPrefix
  AcceptedServed
  TensorsServed
CHECK_DEADLOCK TRUE
