--------------------------- MODULE MCMessageQueue ---------------------------
(* An event queue of two slots: a header of one unit, a slot of four.      *)
EXTENDS MessageQueue

MCSize == 2 * 5
MCAsduSizes == {1, 3}
=============================================================================
