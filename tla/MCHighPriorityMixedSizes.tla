---------------------- MODULE MCHighPriorityMixedSizes ----------------------
(* The high-priority queue when responses have different sizes.            *)
EXTENDS HighPriorityASDUQueue

MCSize == 3 * 4
MCAsduSizes == 1..2
MCPayloads == {"a", "b"}
=============================================================================
