CONSTANTS
  K <- MCK
  SeqMod <- MCSeqMod
SPECIFICATION Spec
INVARIANTS
  TypeOK
  PlausibilityExact
  KBufferInv
PROPERTIES
  ImplementsWindow
  ConfirmedUpToSeqNo
  CheckTerminates
