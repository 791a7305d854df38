----------------------------- MODULE MCCS104Link -----------------------------
EXTENDS CS104Link

Fields == {"connects", "sockets", "starts", "stops", "commands", "events",
           "bypass", "timers", "breaks", "splits",
           "threadless", "stopThreadless"}

Scenario(f) == [x \in Fields |-> IF x \in DOMAIN f THEN f[x] ELSE 0]

MCScenarios ==
  {Scenario([connects |-> 1, starts |-> 1, stops |-> 1, events |-> 2]),
   Scenario([connects |-> 1, starts |-> 2, stops |-> 1, commands |-> 1]),
   Scenario([connects |-> 1, starts |-> 1, events |-> 3, commands |-> 1]),
   Scenario([connects |-> 1, starts |-> 1, commands |-> 3]),
   Scenario([connects |-> 1, starts |-> 1, stops |-> 1, events |-> 1, bypass |-> 1]),
   Scenario([connects |-> 1, starts |-> 1, commands |-> 1, breaks |-> 1]),
   Scenario([connects |-> 1, starts |-> 1, stops |-> 1, breaks |-> 1]),
   Scenario([connects |-> 2, starts |-> 2, events |-> 1]),
   Scenario([connects |-> 2, breaks |-> 1]),
   Scenario([connects |-> 1, starts |-> 1, stops |-> 1, events |-> 1, splits |-> 1]),
   Scenario([connects |-> 2, sockets |-> 1, commands |-> 1, starts |-> 1]),
   Scenario([threadless |-> 1, stopThreadless |-> 1, starts |-> 1, events |-> 1, commands |-> 1]),
   Scenario([connects |-> 1, starts |-> 1, events |-> 1, timers |-> 2])}
=============================================================================
