SPECIFICATION Spec
CONSTANTS
  UcLetters = {233}
  UcMarks = {769}
  UcNumbers = {178}
  MaxId = 60
  Cls <- MCCls
  Sep <- MCSep
  WpUnk <- MCWpUnk
  Unk <- MCUnk
  BosNames <- MCBosNames
  EosNames <- MCEosNames
  ExtraNames <- MCExtraNames
  NormalOf <- MCNormalOf
  Inputs <- MCInputs
INVARIANTS
  EncodeIsReference
  ScratchFits
  StreamedText
  LoadConsistent
PROPERTIES
  MergesAreNaive
CHECK_DEADLOCK FALSE
