------------------------ MODULE MCLinkLayerUnbalanced ------------------------
(* Two slaves: the first has data of both classes and gets commands, the   *)
(* second only has to be polled.  One kind of fault at a time, each with   *)
(* the traffic it can disturb.                                             *)
EXTENDS LinkLayerUnbalanced

With(a1, a2, commands, all, requesting, fault, n) ==
  [asdus |-> <<<<a1, a2>>, <<0, 0>>>>, commands |-> <<commands, 0>>,
   broadcasts |-> all, class1 |-> requesting,
   faults |-> [k \in Faults |-> IF k = fault THEN n ELSE 0]]

MCScenarios ==
  {With(3, 0, 0, 0, {1}, "none", 0), With(0, 0, 2, 1, {}, "none", 0),
   With(1, 0, 0, 0, {}, "lost", 1), With(0, 0, 2, 0, {}, "lost", 1), With(0, 0, 1, 0, {}, "lost", 2),
   With(0, 1, 0, 0, {}, "late", 1), With(0, 0, 1, 0, {}, "late", 1),
   With(0, 1, 0, 0, {}, "restart", 1), With(0, 0, 1, 0, {}, "restart", 1),
   With(0, 0, 1, 0, {}, "test", 1), With(0, 0, 1, 0, {}, "foreign", 1)}
=============================================================================
