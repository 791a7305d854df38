CONSTANTS
  Size <- MCSize
  HeaderSize = 1
  AsduSizes <- MCAsduSizes
  MaxRefs = 2
  MaxEntryId = 6
SPECIFICATION Spec
INVARIANTS
  TypeOK
  QueueConsistent
  NoCorruption
PROPERTIES
  ImplementsEventQueue
