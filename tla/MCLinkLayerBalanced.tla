------------------------ MODULE MCLinkLayerBalanced ------------------------
(* A master with one queue and a slave with class 1 and class 2 data.      *)
EXTENDS LinkLayerBalanced

MCStations == {"master", "slave"}
MCClasses == [s \in MCStations |-> IF s = "master" THEN {1} ELSE {1, 2}]
MCAsdus == [s \in MCStations |-> IF s = "master" THEN 3 ELSE 1]
=============================================================================
