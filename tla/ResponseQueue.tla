---------------------------- MODULE ResponseQueue ---------------------------
(***************************************************************************)
(* What the high-priority queue of a CS104 server connection promises: the *)
(* ASDUs it accepts come out once each, in order, unless the connection is *)
(* started anew.  An ASDU that is not accepted changes nothing.            *)
(***************************************************************************)
EXTENDS Sequences

CONSTANT Payloads

VARIABLE q

RInit == q = <<>>

Accept  == \E x \in Payloads : q' = Append(q, x)
Deliver == q # <<>> /\ q' = Tail(q)
Reset   == q' = <<>>

RNext == Accept \/ Deliver \/ Reset

RSpec == RInit /\ [][RNext]_q
=============================================================================
