SPECIFICATION Spec
CONSTANTS
  N = 2
  QueueSize = 2
  Repeats = 1
  useSingleCharACK = TRUE
  Scenarios <- MCScenarios
  MaxCount = 2
INVARIANTS
  TypeOK
  OneFrameAtATime
  QueueKeepsNewest
  OnceUnlessDisturbed
PROPERTIES
  ArriveInOrder
  EverySlaveServed
