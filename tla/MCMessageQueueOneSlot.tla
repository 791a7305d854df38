----------------------- MODULE MCMessageQueueOneSlot ------------------------
(* The event queue created with maxLowPrioQueueSize = 1: a single slot,    *)
(* into which two small ASDUs fit but not a small and a large one.         *)
EXTENDS MessageQueue

MCSize == 5
MCAsduSizes == 1..3
=============================================================================
