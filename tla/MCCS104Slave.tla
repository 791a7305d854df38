--------------------------- MODULE MCCS104Slave -----------------------------
(* Two connection slots in one redundancy group: with an event and a       *)
(* response, and with a stop and a start of the server.                    *)
EXTENDS CS104Slave

MCGroups == {"g"}
MCScenarios == {[events |-> 1, responses |-> 1, stops |-> 0],
                [events |-> 0, responses |-> 0, stops |-> 1]}
MCNoTraffic == {[events |-> 0, responses |-> 0, stops |-> 0]}
=============================================================================
