CONSTANTS
  Clients = {c1, c2}
  Files <- MCFiles
  Sections <- MCSections
  maxSegmentSize = 1
  ChecksumMod = 8
  MaxReceived = 1
  None = None
SPECIFICATION Spec
INVARIANT
  TypeOK
PROPERTIES
  TransferAsCalled
  TransferEnds
