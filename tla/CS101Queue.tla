------------------------------ MODULE CS101Queue ------------------------------
(***************************************************************************)
(* The ring buffer of cs101_queue.c as a value: the indices and the slots, *)
(* and what each function makes of them.  The functions run under          *)
(* queueLock.                                                              *)
(***************************************************************************)
EXTENDS Integers, Sequences

(* elements keeps what a slot held last; Empty was never written. *)
CS101_Queue_initialize(size, Empty) ==
  [entryCounter |-> 0, firstMsgIndex |-> 0, lastMsgIndex |-> 0,
   elements |-> [i \in 0..size - 1 |-> Empty]]

CS101_Queue_isFull(q, size) == q.entryCounter = size
CS101_Queue_isEmpty(q) == q.entryCounter = 0

Wrap(i, size) == IF i = size THEN 0 ELSE i

(* Mutant: a full queue keeps its oldest entry. *)
CS101_Queue_enqueue_keepFirst(q, size, asdu) ==
  LET next == IF q.entryCounter = 0 THEN 0 ELSE Wrap(q.lastMsgIndex + 1, size)
  IN  [entryCounter  |-> IF q.entryCounter = size THEN size ELSE q.entryCounter + 1,
       firstMsgIndex |-> IF q.entryCounter = 0 THEN 0 ELSE q.firstMsgIndex,
       lastMsgIndex  |-> next,
       elements      |-> [q.elements EXCEPT ![next] = asdu]]

(* A full queue loses its oldest entry. *)
CS101_Queue_enqueue(q, size, asdu) ==
  LET next == IF q.entryCounter = 0 THEN 0 ELSE Wrap(q.lastMsgIndex + 1, size)
  IN  [entryCounter  |-> IF q.entryCounter = size THEN size ELSE q.entryCounter + 1,
       firstMsgIndex |-> IF q.entryCounter = 0 THEN 0
                         ELSE IF q.entryCounter = size THEN Wrap(next + 1, size)
                         ELSE q.firstMsgIndex,
       lastMsgIndex  |-> next,
       elements      |-> [q.elements EXCEPT ![next] = asdu]]

(* What dequeue hands out, and what it leaves.                             *)
CS101_Queue_first(q) == q.elements[q.firstMsgIndex]

CS101_Queue_dequeue(q, size) ==
  IF CS101_Queue_isEmpty(q) THEN q
  ELSE [q EXCEPT !.firstMsgIndex = (@ + 1) % size, !.entryCounter = @ - 1]

CS101_Queue_flush(q) ==
  [q EXCEPT !.entryCounter = 0, !.firstMsgIndex = 0, !.lastMsgIndex = 0]

---------------------------------------------------------------------------
(* The queue as the list of its entries, the oldest first.                 *)
slot(q, size, i) == IF q.firstMsgIndex + i <= size THEN q.firstMsgIndex + i - 1
                    ELSE q.firstMsgIndex + i - 1 - size

contents(q, size) == [i \in 1..q.entryCounter |-> q.elements[slot(q, size, i)]]
=============================================================================
