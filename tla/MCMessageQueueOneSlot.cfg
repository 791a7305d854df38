CONSTANTS
  Size <- MCSize
  HeaderSize = 1
  AsduSizes <- MCAsduSizes
  MaxRefs = 2
  MaxEntryId = 5
SPECIFICATION Spec
INVARIANT
  QueueConsistent
