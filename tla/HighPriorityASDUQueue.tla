----------------------- MODULE HighPriorityASDUQueue ------------------------
(***************************************************************************)
(* The high-priority queue of the CS104 server: responses that do not fit  *)
(* into the k-buffer wait here.  A byte buffer used like the one of        *)
(* MessageQueue, with a two-byte size in front of every entry, but an      *)
(* entry that does not fit is rejected instead of overwriting old ones.    *)
(*                                                                         *)
(* Every operation holds queueLock and is one action.                      *)
(***************************************************************************)
EXTENDS Integers, Sequences,
        FiniteSetsExt   \* Max

CONSTANTS
  Size,         \* bytes of the buffer
  HeaderSize,   \* sizeof(uint16_t)
  AsduSizes,    \* sizes an encoded ASDU can have
  Payloads      \* what tells ASDUs of one size apart

ASSUME SizesAssumption ==
  /\ Size \in Nat /\ HeaderSize \in Nat \ {0}
  /\ AsduSizes \subseteq Nat /\ AsduSizes # {}
  /\ \A s \in AsduSizes : HeaderSize + s <= Size

VARIABLES entryCounter, firstEntry, lastEntry, lastInBufferEntry, mem

vars == <<entryCounter, firstEntry, lastEntry, lastInBufferEntry, mem>>

NULL == -1
Offsets == 0..(Size - 1)

(* Memory without an entry at its start: read as a size of zero. *)
Blank == [size |-> 0, asdu |-> "none"]

Init ==
  /\ entryCounter = 0
  /\ firstEntry = NULL /\ lastEntry = NULL /\ lastInBufferEntry = NULL
  /\ mem = [p \in Offsets |-> Blank]

EndOf(p) == p + HeaderSize + mem[p].size

(* The address HighPriorityASDUQueue_enqueue chooses for an entry. *)
behindLast == IF entryCounter = 0 THEN 0 ELSE EndOf(lastEntry)

(* Mutant: the end of the buffer is not noticed. *)
wraps_never(entrySize) == FALSE

wraps(entrySize) == behindLast + entrySize > Size

place(entrySize) == IF wraps(entrySize) THEN 0 ELSE behindLast

(* Mutant: an entry that starts where the oldest one does is accepted. *)
isRejected_offByOne(entrySize) ==
  LET next == place(entrySize)
  IN  entryCounter > 0 /\ next < firstEntry /\ next + entrySize > firstEntry

(* The entry would reach into the oldest one. *)
isRejected(entrySize) ==
  LET next == place(entrySize)
  IN  entryCounter > 0 /\ next <= firstEntry /\ next + entrySize > firstEntry

(* The size that isFull reckons with.                                      *)
LargestSize == Max(AsduSizes)

(* Mutant: there is room for an entry that starts where the oldest one does. *)
isFull_offByOne ==
  LET entrySize == HeaderSize + LargestSize
      behind == EndOf(lastEntry)
      nextMsgPtr == IF behind + entrySize > Size THEN 0 ELSE behind
  IN  entryCounter > 0 /\ nextMsgPtr < firstEntry /\ nextMsgPtr + entrySize > firstEntry

(* HighPriorityASDUQueue_isFull does not ask the code of the enqueue: it   *)
(* computes the place of an ASDU of the largest size once more.            *)
isFull ==
  LET entrySize == HeaderSize + LargestSize
      behind == EndOf(lastEntry)
      nextMsgPtr == IF behind + entrySize > Size THEN 0 ELSE behind
  IN  entryCounter > 0 /\ nextMsgPtr <= firstEntry /\ nextMsgPtr + entrySize > firstEntry

HighPriorityASDUQueue_enqueue(asduSize, asdu) ==
  LET entrySize == HeaderSize + asduSize
      next      == place(entrySize)
      enqueued  == ~isRejected(entrySize)
  IN  /\ firstEntry' = IF entryCounter = 0 THEN 0 ELSE firstEntry
      (* written before it is known whether the entry fits *)
      /\ lastInBufferEntry' =
           IF entryCounter = 0 THEN 0
           ELSE IF next > firstEntry THEN next
           ELSE IF wraps(entrySize) THEN lastEntry ELSE lastInBufferEntry
      /\ lastEntry' = IF enqueued THEN next ELSE lastEntry
      /\ entryCounter' = IF enqueued THEN entryCounter + 1 ELSE entryCounter
      /\ mem' = IF enqueued
                THEN [p \in Offsets |->
                        IF p = next THEN [size |-> asduSize, asdu |-> asdu]
                        ELSE IF p > next /\ p < next + entrySize THEN Blank ELSE mem[p]]
                ELSE mem

HighPriorityASDUQueue_getNextASDU ==
  /\ entryCounter > 0
  /\ entryCounter' = entryCounter - 1
  /\ IF entryCounter' = 0
     THEN UNCHANGED <<firstEntry, lastEntry, lastInBufferEntry>>
     ELSE IF firstEntry = lastEntry
     THEN firstEntry' = NULL /\ lastEntry' = NULL /\ lastInBufferEntry' = NULL
     ELSE IF firstEntry = lastInBufferEntry
     THEN firstEntry' = 0 /\ lastInBufferEntry' = lastEntry /\ UNCHANGED lastEntry
     ELSE firstEntry' = EndOf(firstEntry) /\ UNCHANGED <<lastEntry, lastInBufferEntry>>
  /\ UNCHANGED mem

HighPriorityASDUQueue_resetConnectionQueue ==
  /\ firstEntry' = NULL /\ lastEntry' = NULL /\ lastInBufferEntry' = NULL
  /\ entryCounter' = 0
  /\ UNCHANGED mem

Next ==
  \/ \E s \in AsduSizes, x \in Payloads : HighPriorityASDUQueue_enqueue(s, x)
  \/ HighPriorityASDUQueue_getNextASDU
  \/ HighPriorityASDUQueue_resetConnectionQueue

Spec == Init /\ [][Next]_vars

-----------------------------------------------------------------------------
TypeOK ==
  /\ entryCounter \in Nat
  /\ {firstEntry, lastEntry, lastInBufferEntry} \subseteq Offsets \cup {NULL}
  /\ mem \in [Offsets -> [size : AsduSizes \cup {0}, asdu : Payloads \cup {"none"}]]

(* The ASDUs that getNextASDU would return one after the other. *)
MaxEntries == Size \div HeaderSize

Queued ==
  LET succ == [p \in Offsets |-> IF p = lastInBufferEntry THEN 0 ELSE EndOf(p) % Size]
      at[i \in 1..MaxEntries] == IF i = 1 THEN firstEntry ELSE succ[at[i - 1]]
  IN  [i \in 1..entryCounter |-> mem[at[i]].asdu]

FIFO == INSTANCE ResponseQueue WITH q <- Queued

(* The byte ring delivers what it has accepted, once and in order, and a   *)
(* rejected ASDU leaves it unharmed: HighPriorityASDUQueue_enqueue writes  *)
(* over no entry that is still to be sent.                                 *)
ImplementsFIFO == FIFO!RSpec

(* How many ASDUs of the largest size fit into an empty queue.             *)
Capacity == Size \div (HeaderSize + LargestSize)

(* What HighPriorityASDUQueue_isFull computes, and                         *)
(* IMasterConnection_isReady promises, is what                             *)
(* HighPriorityASDUQueue_enqueue does with the next ASDU of the largest    *)
(* size; and both know when every place is taken, and not before: wherever *)
(* the first entry lies after a wrap, getNextASDU makes the room of one    *)
(* ASDU again and no place is lost.                                        *)
IsFullExact ==
  [][/\ isFull <=> entryCounter = Capacity
     /\ \A x \in Payloads :
          HighPriorityASDUQueue_enqueue(LargestSize, x) =>
            (isFull <=> entryCounter' = entryCounter)]_vars
=============================================================================
