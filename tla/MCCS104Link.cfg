SPECIFICATION Spec
CONSTANTS
  k = 2
  w = 2
  SeqMod = 3
  Scenarios <- MCScenarios
INVARIANTS
  TypeOK
  NoProtocolError
  AcknowledgedWasReceived
CHECK_DEADLOCK FALSE
PROPERTY
  Settled
