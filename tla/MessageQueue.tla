---------------------------- MODULE MessageQueue ----------------------------
(***************************************************************************)
(* The low-priority (event) queue of the CS104 server: encoded ASDUs of    *)
(* different sizes, each behind an entry header, in one buffer of bytes    *)
(* that is filled like a ring.  firstEntry, lastEntry and                  *)
(* lastInBufferEntry are addresses in the buffer, here offsets.            *)
(*                                                                         *)
(* An entry never straddles the end of the buffer: one that does not fit   *)
(* behind the last entry goes to offset 0, and entries in its way are      *)
(* overwritten, oldest first.                                              *)
(*                                                                         *)
(* Every operation runs with queueLock held and is one action.  The        *)
(* connections keep references (address, id) to the entries they have      *)
(* sent; refs is the set of all of them, stale ones included.              *)
(***************************************************************************)
EXTENDS Integers, Sequences, FiniteSets,
        FiniteSetsExt,   \* Min
        Functions        \* Range

CONSTANTS
  Size,         \* bytes of the buffer
  HeaderSize,   \* sizeof(struct sMessageQueueEntryInfo)
  AsduSizes,    \* sizes an encoded ASDU can have
  MaxRefs,      \* bound: frames in the k-buffers of all connections
  MaxEntryId    \* bound: number of ASDUs that are enqueued

ASSUME SizesAssumption ==
  /\ Size \in Nat /\ HeaderSize \in Nat \ {0}
  /\ AsduSizes \subseteq Nat
  /\ \A s \in AsduSizes : HeaderSize + s <= Size

ASSUME BoundsAssumption == MaxRefs \in Nat /\ MaxEntryId \in Nat

VARIABLES
  entryCounter, firstEntry, lastEntry, lastInBufferEntry,
  entryId,      \* id of the next entry
  mem,          \* the entry header that can be read at an offset
  refs          \* SentASDUSlave.queueEntry/entryId of all connections

vars == <<entryCounter, firstEntry, lastEntry, lastInBufferEntry, entryId, mem, refs>>

NULL == -1
Offsets == 0..(Size - 1)

(* What is read where no header was written: the buffer is zeroed when it  *)
(* is created, and the bytes of a payload are no header.                   *)
Blank == [entryId |-> 0, state |-> "confirmed", size |-> 0]

Init ==
  /\ entryCounter = 0
  /\ firstEntry = NULL /\ lastEntry = NULL /\ lastInBufferEntry = NULL
  /\ entryId = 1
  /\ mem = [p \in Offsets |-> Blank]
  /\ refs = {}

EndOf(p) == p + HeaderSize + mem[p].size

(* The addresses visited from address first on when the headers are        *)
(* followed and lib is the entry behind which the FIFO goes on at offset   *)
(* 0: as many as there can be entries.  (An address past the buffer's end, *)
(* which no intact queue contains, is read modulo Size.)                   *)
MaxEntries == MaxEntryId

Chain(first, lib) ==
  LET succ == [p \in Offsets |-> IF p = lib THEN 0 ELSE EndOf(p) % Size]
      at[i \in 1..MaxEntries] == IF i = 1 THEN first ELSE succ[at[i - 1]]
  IN  at

(* How many entries of the sequence w a loop visits that ends at p. *)
LengthUntil(w, p) == Min({i \in DOMAIN w : w[i] = p} \cup {MaxEntries})

(* The addresses of the queue's entries, oldest first. *)
Visited ==
  IF entryCounter = 0 THEN <<>>
  ELSE LET w == Chain(firstEntry, lastInBufferEntry)
       IN  SubSeq(w, 1, LengthUntil(w, lastEntry))

-----------------------------------------------------------------------------
(* Mutant: the entry at the end of the buffer is not counted. *)
countEntriesUntilEndOfBuffer_offByOne ==
  LengthUntil(Chain(firstEntry, lastInBufferEntry), lastInBufferEntry) - 1

(* MessageQueue_countEntriesUntilEndOfBuffer *)
countEntriesUntilEndOfBuffer ==
  LengthUntil(Chain(firstEntry, lastInBufferEntry), lastInBufferEntry)

(* The indices of the queue while an entry is placed. *)
Indices == [counter |-> entryCounter, first |-> firstEntry, lib |-> lastInBufferEntry]

(* "remove old entries until we have enough space for the new ASDU": the   *)
(* while loop of MessageQueue_enqueueASDU for an entry at [next, end).     *)
RemoveOldEntries(ix, next, end) ==
  LET w == Chain(ix.first, ix.lib)
      (* the first n entries have been removed and the loop goes on *)
      goesOn(n) == /\ n < ix.counter
                   /\ end > w[n + 1]
                   /\ \A i \in 1..n : w[i] # ix.lib
      n == Min({m \in 0..ix.counter : ~goesOn(m)})
  IN  IF n > 0 /\ w[n] = ix.lib
      THEN [counter |-> ix.counter - n, first |-> 0, lib |-> next]
      ELSE [ix EXCEPT !.counter = @ - n, !.first = w[n + 1]]

MessageQueue_enqueueASDU(asduSize) ==
  LET entrySize == HeaderSize + asduSize
      empty     == entryCounter = 0
      behind    == IF empty THEN 0 ELSE EndOf(lastEntry)
      wraps     == ~empty /\ behind + entrySize > Size
      (* "remove all entries from last entry to end of buffer" *)
      ix1 == IF empty THEN [counter |-> 0, first |-> 0, lib |-> 0]
             ELSE IF wraps /\ behind <= firstEntry
                  THEN [counter |-> entryCounter - countEntriesUntilEndOfBuffer,
                        first   |-> 0, lib |-> lastInBufferEntry]
                  ELSE Indices
      next == IF wraps THEN 0 ELSE behind
      ix2 == IF wraps /\ lastEntry > ix1.first THEN [ix1 EXCEPT !.lib = lastEntry] ELSE ix1
      ix3 == IF ~empty /\ next <= ix2.first
             THEN RemoveOldEntries(ix2, next, next + entrySize)
             ELSE ix2
  IN  /\ entryId <= MaxEntryId
      /\ entryCounter' = ix3.counter + 1
      /\ firstEntry' = ix3.first
      /\ lastEntry' = next
      /\ lastInBufferEntry' = IF next > ix3.lib THEN next ELSE ix3.lib
      /\ mem' = [p \in Offsets |->
                   IF p = next
                   THEN [entryId |-> entryId, state |-> "waiting", size |-> asduSize]
                   ELSE IF p > next /\ p < next + entrySize THEN Blank ELSE mem[p]]
      /\ entryId' = entryId + 1
      /\ UNCHANGED refs

(* MessageQueue_getNextWaitingASDU: the caller remembers the address and   *)
(* the id of the entry in its k-buffer.                                    *)
MessageQueue_getNextWaitingASDU ==
  /\ Cardinality(refs) < MaxRefs
  /\ LET w == Visited
         waiting == {i \in DOMAIN w : mem[w[i]].state = "waiting"}
         p == w[Min(waiting)]
     IN  /\ waiting # {}
         /\ mem' = [mem EXCEPT ![p].state = "sent"]
         /\ refs' = refs \cup {[queueEntry |-> p, entryId |-> mem[p].entryId]}
  /\ UNCHANGED <<entryCounter, firstEntry, lastEntry, lastInBufferEntry, entryId>>

MessageQueue_hasUnconfirmedIMessages ==
  \E p \in Range(Visited) : mem[p].state = "sent"

(* Mutant: confirmed entries are sent again, too. *)
MessageQueue_setWaitingForTransmission_all ==
  /\ MessageQueue_hasUnconfirmedIMessages
  /\ mem' = [p \in Offsets |-> IF p \in Range(Visited)
                               THEN [mem[p] EXCEPT !.state = "waiting"] ELSE mem[p]]
  /\ UNCHANGED <<entryCounter, firstEntry, lastEntry, lastInBufferEntry, entryId, refs>>

MessageQueue_setWaitingForTransmissionWhenNotConfirmed ==
  LET inUse == Range(Visited)
  IN  /\ MessageQueue_hasUnconfirmedIMessages
      /\ mem' = [p \in Offsets |->
                   IF p \in inUse /\ mem[p].state = "sent"
                   THEN [mem[p] EXCEPT !.state = "waiting"] ELSE mem[p]]
      /\ UNCHANGED <<entryCounter, firstEntry, lastEntry, lastInBufferEntry, entryId, refs>>

MessageQueue_releaseAllQueuedASDUs ==
  /\ firstEntry' = NULL /\ lastEntry' = NULL /\ lastInBufferEntry' = NULL
  /\ entryCounter' = 0
  /\ UNCHANGED <<entryId, mem, refs>>

(* Mutant: the end of the buffer is not noticed. *)
removeFirstEntry_noWrap ==
  /\ firstEntry' = EndOf(firstEntry)
  /\ entryCounter' = entryCounter - 1
  /\ UNCHANGED <<lastEntry, lastInBufferEntry>>

removeFirstEntry ==
  /\ IF firstEntry = lastInBufferEntry
     THEN IF firstEntry = lastEntry
          THEN firstEntry' = NULL /\ lastEntry' = NULL /\ lastInBufferEntry' = NULL
          ELSE /\ firstEntry' = 0
               /\ lastInBufferEntry' = lastEntry
               /\ UNCHANGED lastEntry
     ELSE /\ firstEntry' = EndOf(firstEntry)
          /\ UNCHANGED <<lastEntry, lastInBufferEntry>>
  /\ entryCounter' = entryCounter - 1

(* Mutant: the id just before the oldest one passes as well. *)
plausible_offByOne(r) == entryCounter > 0 /\ entryId - 1 - r.entryId <= entryCounter

(* The id of a reference is one of the last entryCounter ids. *)
plausible(r) == entryCounter > 0 /\ entryId - 1 - r.entryId < entryCounter

(* MessageQueue_markAsduAsConfirmed for a reference out of a k-buffer,     *)
(* which forgets it.                                                       *)
MessageQueue_markAsduAsConfirmed(r) ==
  /\ refs' = refs \ {r}
  /\ IF plausible(r) /\ mem[r.queueEntry].entryId = r.entryId
     THEN /\ mem' = [mem EXCEPT ![r.queueEntry].state = "confirmed"]
          /\ IF r.queueEntry = firstEntry
             THEN removeFirstEntry
             ELSE UNCHANGED <<entryCounter, firstEntry, lastEntry, lastInBufferEntry>>
     ELSE UNCHANGED <<mem, entryCounter, firstEntry, lastEntry, lastInBufferEntry>>
  /\ UNCHANGED entryId

(* MasterConnection_init empties the k-buffer of one connection: its       *)
(* references, some of all, are gone.                                      *)
MasterConnection_init ==
  /\ \E gone \in SUBSET refs : gone # {} /\ refs' = refs \ gone
  /\ UNCHANGED <<entryCounter, firstEntry, lastEntry, lastInBufferEntry, entryId, mem>>

Next ==
  \/ \E s \in AsduSizes : MessageQueue_enqueueASDU(s)
  \/ MessageQueue_getNextWaitingASDU
  \/ MessageQueue_setWaitingForTransmissionWhenNotConfirmed
  \/ MessageQueue_releaseAllQueuedASDUs
  \/ \E r \in refs : MessageQueue_markAsduAsConfirmed(r)
  \/ MasterConnection_init

Spec == Init /\ [][Next]_vars

-----------------------------------------------------------------------------
TypeOK ==
  /\ entryCounter \in Nat
  /\ {firstEntry, lastEntry, lastInBufferEntry} \subseteq Offsets \cup {NULL}
  /\ entryId \in 1..(MaxEntryId + 1)
  /\ mem \in [Offsets -> [entryId : 0..MaxEntryId, size : AsduSizes \cup {0},
                          state : {"confirmed", "waiting", "sent"}]]
  /\ refs \subseteq [queueEntry : Offsets, entryId : 1..MaxEntryId]

(* The entries between firstEntry and lastEntry are exactly the            *)
(* entryCounter youngest ones, linked in the order of their ids, complete  *)
(* inside the buffer and not overlapping: no header is read from the       *)
(* middle of another entry.                                                *)
QueueConsistent ==
  LET w == Visited
  IN  /\ Len(w) = entryCounter
      /\ \A i \in DOMAIN w :
           /\ EndOf(w[i]) <= Size
           /\ mem[w[i]].entryId = entryId - 1 - entryCounter + i
           /\ \A j \in 1..(i - 1) : EndOf(w[i]) <= w[j] \/ EndOf(w[j]) <= w[i]

(* A reference that passes the plausibility test of                        *)
(* MessageQueue_markAsduAsConfirmed points to the very entry it was made   *)
(* for: "message queue corrupted" is never reached.                        *)
NoCorruption ==
  \A r \in refs : plausible(r) => mem[r.queueEntry].entryId = r.entryId

Events ==
  LET w == Visited
  IN  [i \in DOMAIN w |-> [id |-> mem[w[i]].entryId, state |-> mem[w[i]].state]]

FIFO == INSTANCE EventQueue WITH q <- Events, nextId <- entryId

(* The byte ring implements the event FIFO: only the oldest events are     *)
(* pushed out, the oldest waiting event is sent next, a confirmation       *)
(* touches the confirmed event alone.                                      *)
ImplementsEventQueue == FIFO!QSpec
=============================================================================
