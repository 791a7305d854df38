---------------------- MODULE MCHighPriorityASDUQueue -----------------------
(* A high-priority queue of three slots in which all ASDUs have one size.  *)
EXTENDS HighPriorityASDUQueue

MCSize == 3 * 4
MCAsduSizes == {2}
MCPayloads == {"a", "b", "c"}
=============================================================================
