----------------------------- MODULE EventQueue -----------------------------
(***************************************************************************)
(* What the event queue of a CS104 server promises its users: a FIFO of    *)
(* events, each waiting, sent but not confirmed, or confirmed.  Adding an  *)
(* event may push out events, but only from the old end.  The next event   *)
(* handed out for transmission is the oldest one that is waiting.  An      *)
(* event leaves from the front once it is confirmed.                       *)
(***************************************************************************)
EXTENDS Integers, Sequences

VARIABLES
  q,       \* sequence of [id, state], oldest first
  nextId   \* the number the next event will get

qvars == <<q, nextId>>

EntryStates == {"confirmed", "waiting", "sent"}

QInit == q = <<>> /\ nextId = 1

Add ==
  /\ nextId' = nextId + 1
  /\ LET old == q
     IN  q' \in {Append(SubSeq(old, dropped + 1, Len(old)),
                        [id |-> nextId, state |-> "waiting"]) : dropped \in 0..Len(old)}

(* Hand out the oldest waiting event. *)
HandOut ==
  /\ UNCHANGED nextId
  /\ LET old == q
         waiting == {i \in DOMAIN old : old[i].state = "waiting"}
     IN  \E i \in waiting : /\ \A j \in waiting : i <= j
                            /\ q' = [old EXCEPT ![i].state = "sent"]

(* A confirmed event is removed when it is the oldest one, else marked. *)
Confirm ==
  /\ UNCHANGED nextId
  /\ LET old == q
     IN  q' \in {IF i = 1 THEN Tail(old) ELSE [old EXCEPT ![i].state = "confirmed"] :
                   i \in DOMAIN old}

(* After a connection loss what was sent has to be sent again. *)
Requeue ==
  /\ UNCHANGED nextId
  /\ LET old == q
     IN  q' = [i \in DOMAIN old |->
                 IF old[i].state = "sent" THEN [old[i] EXCEPT !.state = "waiting"] ELSE old[i]]

Clear == UNCHANGED nextId /\ q' = <<>>

QNext == Add \/ HandOut \/ Confirm \/ Requeue \/ Clear

QSpec == QInit /\ [][QNext]_qvars
=============================================================================
