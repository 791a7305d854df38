# lib60870-C in TLA+

A specification of lib60870-C, the C implementation of the telecontrol
protocols IEC 60870-5-104 (over TCP) and IEC 60870-5-101 (over serial lines):
TLA+ modules translated from the source, TLC configurations that check them on
small instances, and TLAPS proofs for every instance. Source paths are relative
to `src/lib60870-C/src/iec60870/` where nothing else is said. `PROJECT.json`
maps every definition to the lines it models.

## 1. The system

### Components

| Component | Source | State | Operations |
|---|---|---|---|
| k-buffer | `cs104/cs104_slave.c` (a second copy in `cs104_connection.c`) | ring `sentASDUs`, `oldestSentASDU`, `newestSentASDU`, `sendCount` | `sendASDU`, `checkSequenceNumber`, reset for a new client |
| event queue `MessageQueue` | `cs104/cs104_slave.c` | byte buffer with entries of different sizes, four indices, entry ids, entry states | enqueue (overwrites), get next, confirm, requeue, release |
| response queue `HighPriorityASDUQueue` | `cs104/cs104_slave.c` | byte buffer, four indices | enqueue (rejects), get next, isFull, reset |
| CS104 server | `cs104/cs104_slave.c` | connection slots (`isUsed`, `isRunning`, `state`, `requeuedOnActivate`), `openConnections`, redundancy groups, locks | server thread, one thread per connection, application calls, start and stop |
| CS104 client | `cs104/cs104_connection.c` | connection state, k-buffer, receive counter, timers T0..T3 | connect, STARTDT/STOPDT, send, close; one thread, or `run` |
| link layer FT 1.2 | `link_layer/link_layer.c` | primary and secondary state machines, frame count bit, timers | balanced and unbalanced mode |
| CS101 slave and master | `cs101/cs101_slave.c`, `cs101_queue.c`, `cs101_master.c` | class 1 and class 2 queues | enqueue, poll, send, run |
| file server plugin | `../file-service/file_server.c` | transfer state, selected file, section, checksums, timer | ASDU handler and periodic task |
| codec | `cs101/cs101_asdu.c`, `cs101_information_objects.c` | payload of an ASDU | encode, decode, add, get, check a received message |
| ASDU dispatch `handleASDU` | `cs104/cs104_slave.c`, `cs101/cs101_slave.c` | none | decides about the answer to a command |
| small parts | `cs101/cs101_bcr.c`, `apl/cpXXtime2a.c`, `cs104_frame.c`, `buffer_frame.c`, `../common/` | none | byte layouts, a list |
| HAL | `../hal/` | sockets, threads, semaphores, serial ports, clocks, TLS | external to the models |

### How they interact

*CS104.* The application enqueues events with `CS104_Slave_enqueueASDU`, which
copies them into the event queue of every redundancy group. The server thread
accepts clients into slots, starts a thread per connection, and reaps slots
whose thread has stopped. A connection thread loops: receive one frame, handle
it, handle the timers, and, if the connection is active, send one response, or
else one event. A frame that is sent occupies a slot of the connection's
k-buffer until the client's N(R) acknowledges it; for an event the
acknowledgement also marks the entry of the event queue, found by its address
and id. STARTDT_ACT makes a connection the active one of its group: the others
that are active are closed and the events they have in flight are requeued.
STOPDT_ACT ends data transfer once nothing is unconfirmed. The client has one
thread, too, and the same counters and k-buffer; the application's calls meet it
under `conStateLock` and through the flags `close`, `running` and `failure`.

Shared between threads of the server are the queues of a group (`queueLock`),
the k-buffer (`sentASDUsLock`), the state of a connection (`stateLock`) and the
slots (`openConnectionsLock`). Callbacks run in the connection thread.

*CS101.* One thread per station calls `run`: read at most one frame, then run
the state machine of the primary. In balanced mode each station has a primary
and a secondary; in unbalanced mode the master's primary polls one slave after
another and the slaves answer from their class queues.

*Files.* `handleAsdu` of the plugin is called with every ASDU a slave receives,
`runTask` periodically in the thread of each connection.

### What is hard, and what makes it correct

* Sequence numbers wrap at 32768 while frames are in flight. *The N(R) accepted
  are exactly those of the window; exactly the frames before N(R) are
  confirmed; never more than k are unconfirmed.*
* Two byte rings with entries of different sizes, whose entries never straddle
  the end of the buffer. *They are FIFOs; only the oldest events are pushed out;
  a response that was accepted is sent.*
* A k-buffer slot refers to a queue entry that may have been overwritten.
  *A confirmation touches no other entry.*
* Connections of a group are switched over, break, are reaped, and the server is
  stopped and started at any time. *One active connection per group; no event is
  lost; no response goes to another client; slots become free again.*
* Locks taken in different orders, and joining a thread that may be waiting for
  a lock. *No deadlock.*
* Client and server start and stop data transfer, acknowledge and test the
  connection while frames cross on the wire, and the connection may break
  silently. *Neither sees a protocol error; what is acknowledged was received;
  blocking calls return; nothing stays unacknowledged forever.*
* Frames on a serial line are lost or late and repeated. *Everything arrives in
  order and once; losses are reported; the link comes back; every slave is
  polled.*
* Dozens of object types share one message format, whose length the sender
  states. *What was added is what is read; nothing is read behind the end.*
* A transfer of a file goes on over many messages, while other masters send
  theirs. *The data sent are those called for; a silent master does not block the
  service.*

`PROJECT.json` lists every hazard at its line, with the properties that cover
it, or why there is none.

## 2. Modules

Abstract specifications, each the promise of a component:

* `SendWindow`: the window of unconfirmed frames as two numbers.
* `EventQueue`: the sequence of queued events with ids and states.
* `ResponseQueue`: a FIFO that may refuse.

CS104 server, inside:

* `SentASDUs`: the k-buffer of one connection. State and names are those of
  `struct sMasterConnection`; the payload of a slot is left out. A call of
  `checkSequenceNumber` is its plausibility test and then one action per
  iteration of the `do` loop; its locals are in `check`.
* `MessageQueue`: the event queue. Addresses are offsets, `mem` gives the header
  that can be read at an offset (a blank one where payload lies). Each function
  is an action, because it holds `queueLock` from start to end. The walk over
  entries, which the code does in each function with a pointer, is the operator
  `Chain`, a recursive function over offsets, so a broken link is followed as
  the code would follow it. `refs` are the (address, id) pairs in all k-buffers.
* `HighPriorityASDUQueue`: the response queue in the same manner.
* `CS104Slave`: server thread, connection threads and redundancy groups over the
  abstract queues. `pc` is the place in `connectionHandlingThread`, `arg` the
  local its next step uses; a step ends where another thread's step can matter.
  `lock` is `openConnectionsLock`, the only lock that is held over several steps;
  the others are held inside one. `CS104_Slave_stop` joins the server thread,
  then closes, joins and counts down one connection after another;
  `CS104_Slave_start` makes new queues. History variables: `raced` (two STARTDT
  of a group overlapped), `abandoned` (events a thread left behind because of
  `requeuedOnActivate`), `miscount` (slots that are still in use after a stop,
  although they were counted down).

CS104, client and server together:

* `APCI`: a TCP connection (frames in order; it may break without notice; a
  frame may arrive in pieces), the counters and the k-buffer that both ends keep.
* `CS104Connection`: the client. `pc` is the place in its handling thread from
  `resetConnection` to the end, `app` the API call in progress. Its threadless
  mode is the same loop without the thread.
* `MasterConnection`: one server connection as the client sees it: the answer to
  each kind of frame, T1, T2 and T3, the transmission from both queues, and
  `sendASDUInternal` of an application thread, which goes past the queues.
* `CS104Link`: both of them, TCP, `Next` and the properties.

CS101 and files:

* `CS101Queue`: the ring buffer of a class.
* `LinkLayerBalanced`: two stations, each with primary and secondary; the line is
  a sequence of frames per direction that loses any of them. A timer runs out
  when both directions are empty, or earlier (a late answer).
* `LinkLayerUnbalanced`: the master's primary for several slaves
  (`currentSlave`, broadcasts, class 1 on access demand, class 2 by polling), the
  slaves' secondary with their class queues, and the master's application.
* `InformationObjects`: each object type as a list of kinds of fields with their
  encoding and decoding, and the sizes its encoder checks.
* `CS101ASDU`: `CS101_ASDU_addInformationObject` as the action, and
  `createFromBufferEx` and `getElementEx` as operators of what was built.
* `FileServer`: one action per file ASDU and state, and the three outcomes of
  `runTask`. `handleAsdu` and `runTask` are one step each, which is exact for a
  CS101 slave and for a CS104 server without threads.

`MC*` modules only give values to constants; `*Proofs` modules hold the theorems
about the module they are named after (section 4). Definitions named
`<operation>_<defect>` and commented "Mutant" are altered copies of an
operation that no specification uses; they document, for every property, a
plausible defect of the code that the property detects.

## 3. Runs

| Run | Instance | Distinct states | Checked |
|---|---|---|---|
| `sentasdus` | k = 4, numbers modulo 5 | 18 272 | `TypeOK`, `PlausibilityExact`, `KBufferInv`, `ConfirmedUpToSeqNo`, `CheckTerminates`; implements `SendWindow` |
| `messagequeue` | 2 slots of 5 units, ASDUs of 1 and 3, 6 ASDUs, 2 references | 193 499 | `TypeOK`, `QueueConsistent`, `NoCorruption`; implements `EventQueue` |
| `messagequeue_one_slot` | 1 slot | | `QueueConsistent` is violated (5.1) |
| `highprio` | ASDUs of one size | 2 035 | `TypeOK`, `IsFullExact`; implements `ResponseQueue` |
| `highprio_mixed` | ASDUs of two sizes | | `ImplementsFIFO` is violated (5.2) |
| `slave` | 2 slots, 1 group, k = 1; 1 event and 1 response, or 1 stop and start | 3 032 749 | `TypeOK`, `OneActiveUnlessRaced`, `OpenConnectionsExact`, `SentIsOwned`, `AnswerToRequester`, no deadlock |
| `slave_liveness` | 2 slots, no traffic | 130 240 | `SlotFreed` |
| `cs104_link` | k = w = 2, numbers modulo 3, 13 scenarios | 170 451 | `TypeOK`, `NoProtocolError`, `AcknowledgedWasReceived`, `Settled` |
| `linklayer_balanced` | 2 stations, 3 and 1 + 1 ASDUs, 1 repetition, 2 faults | 923 090 | `TypeOK`, `InOrderOnce`, `ConfirmedWasDelivered`, `LossAccounted`, `LinkRecovers` |
| `linklayer_unbalanced` | 2 slaves, queues of 2, 1 repetition, 11 scenarios | 232 288 | `TypeOK`, `OneFrameAtATime`, `QueueKeepsNewest`, `OnceUnlessDisturbed`, `ArriveInOrder`, `EverySlaveServed` |
| `asdu` | 68 object types, sequences or not, addresses of 1 to 3 bytes, 3 sizes of ASDU | 16 766 | `PayloadFits`, `ElementsReadBack`, `TruncationDetected` |
| `file_server` | 2 masters, a file of 2 sections, 2 files not offered | 1 254 535 | `TypeOK`, `TransferAsCalled`, `TransferEnds` |

### Bounds and why they are enough

`sentasdus`: the modulus is just above k (the least the proofs allow), so the
window covers nearly the whole circle and every alignment of ring index,
sequence number and wrap occurs; there is no bound on the length of a run.

`messagequeue`: six ASDUs in a buffer that holds two to five fill it, wrap it,
and overwrite across the end twice; confirmations then meet entries that are
current, overwritten or released. `MaxEntryId` bounds the ids, `MaxRefs` the
frames in flight. `highprio`: no bound other than the buffer.
`IsFullExact` compares what `isFull` says with the number of ASDUs the buffer has
room for (`Capacity`) and with what the enqueue then does; the code has its test
twice (`cs104_slave.c:768`, `:831`), and so has the module.

`slave`: two connections are enough for a switch-over, a race of two STARTDT, a
standby connection that ends, and reaping while another thread holds or wants
the lock; with one event and one response the shared queues are empty, waiting
or in flight on either connection. `Scenarios` are the bounds of a behaviour:
events and responses, and how often the server is stopped and started again;
connections come and go without bound. A stop comes without traffic: what is in
flight then is dropped with the queues, which a start makes anew. The liveness
run drops traffic and stops, which have no part in reaping. All connections
belong to one group: groups share nothing but the slots and
`openConnectionsLock`.

`cs104_link`: `Scenarios` say how often each call of the application is made
and what goes wrong (connections that break, frames in pieces, timers that run
out early, a socket that cannot be created). Three I frames with k = 2 fill
the k-buffer and wrap the numbers; w = 2 lets acknowledgements come by count and
by T2; one scenario per hazard, with all interleavings of the threads inside it:
events against a stop, a command against a stop, events against commands, a
full k-buffer in each direction, an application thread that sends during a
stop, a lost connection with a command or a stop under way, two connects,
a split frame, a failed socket, the threadless mode, early timers.

`linklayer_balanced`: `MaxFaults` lost frames, late answers, tests of the link
and foreign answers together; two are enough for a frame and the answer to its
repetition, which is when the frame count bit and the reset of the link matter,
and for a fault during the recovery of another. One foreign answer can cost
three ASDUs in a row, which is all that the master has here; how the losses of
several faults add up is proved for any number of ASDUs, but for late answers
(section 4). `linklayer_unbalanced`: the same
kinds of faults and the restart of a slave, each with the traffic that it can
disturb; three ASDUs overrun a queue of two; two slaves because the master has
one exchange at a time and a single character has no address. `MaxCount` bounds
what the histories count.

`asdu`: `room` 5, 22 and 40 bytes lie below, at and above what two or three
objects of the types need; one more configuration fills the seven bits of the
VSQ. Every field takes its extreme values.

`file_server`: a section of two segments and one of one; the masters send every
file ASDU in every state, so all orders occur. They also name a file of another
address, which is refused, and one of another name at the address of the file
offered, which is taken for it while that one is selected, since only CA and IOA
are compared (`../file-service/file_server.c:729`, `:773`). `MaxReceived` bounds what a
master uploads. `ChecksumMod` is 8 so that sums of the data stay distinct and
still wrap.

Every run but one checks for deadlock. In `cs104_link` a scenario is used up in
the end and both ends may then be closed for good. (In `messagequeue` only
`releaseAllQueuedASDUs` is left when all ids are used.)

### Fairness

* `SentASDUs`: weak fairness on the two loop actions; the thread that executes
  the loop goes on.
* `CS104Slave`: weak fairness per thread; strong fairness for the steps that
  wait for `openConnectionsLock`, because the semaphore is released again and
  again and its waiters are served in turn by the scheduler, and for a stop that
  has begun. A connection thread's `receive` always has an enabled step, because
  it waits with a time limit.
* `CS104Link`: weak fairness for each thread and for an API call that can
  return; strong fairness for the timers, whose test is part of every iteration
  of a thread, but not for their running out early, which is bounded by the
  scenario.
* `LinkLayerBalanced`, `LinkLayerUnbalanced`: weak fairness for the threads that
  call `run`; strong fairness for a timer of a slave connection, which the master
  tests whenever that slave has the turn. Nothing is assumed of the line, whose
  faults are finitely many.
* `FileServer`: clocks run, and the thread of an open connection goes on calling
  `runTask`.

No fairness is assumed of applications, clients and masters, and none for losses
and breaks. All other properties are safety properties and hold without it.

### What the properties leave room for

Some properties name an exception. Each is something that the code really does,
recorded by a history variable or a state, so the property says that nothing
else goes wrong:

* `OneActiveUnlessRaced`: `CS104_Slave_activate` releases `openConnectionsLock`
  before the connection sets its own state (`cs104_slave.c:1755`): two
  STARTDT_ACT at the same time both succeed.
* `SentIsOwned`: the thread of a connection closed by a switch-over can still
  fetch an event after the requeue; `requeuedOnActivate` then suppresses the
  requeue that would have rescued it (`cs104_slave.c:3811`). The event waits
  until another connection of the group ends. Also, the end of any connection
  thread requeues events in flight on the active one, which sends them again,
  behind younger ones (`cs104_slave.c:3812`); no event is lost by that.
* `OpenConnectionsExact`: `CS104_Slave_stop` counts a connection down and leaves
  its slot in use; the next server thread reaps it and counts it down again
  (`cs104_slave.c:5329`), so that it admits more than `maxOpenConnections`.
* `NoProtocolError`: an application that calls again before STARTDT_CON or
  STOPDT_CON has come (`hasty`; the state that says so may be gone by then:
  `setInactive` follows a `sendStartDT` that came before it,
  `cs104_connection.c:1508`), and `sendASDUInternal`, which tests `isActive`
  and sends while the connection thread handles STOPDT_ACT (`raced`,
  `cs104_slave.c:2107`).
* `Settled`, its part `CallsReturn`: `CS104_Connection_connect` waits for an event
  that nobody reports when the socket cannot be created (`cs104_connection.c:1701`); a
  `close` right after `connectAsync` is forgotten by `resetConnection`, and then
  waits for the end of a connection that goes on (`cs104_connection.c:745`);
  a `connect` on an open connection joins its thread.
* `Settled`, its part `FramesSettle`: a command sent before STARTDT_CON is counted
  in the k-buffer and may not be written. The client never detects T1 of its I
  frames: it stamps them with `Hal_getTimeInMs` and compares with `Hal_getMonotonicTimeInMs`
  (`cs104_connection.c:293`). Any U frame it receives stops the timer of
  STARTDT and STOPDT.
* `ConfirmedWasDelivered`: a test of the link replaces the repetition of user
  data (`link_layer.c:1443`), whose acknowledgement then stands for the data.
* `LossAccounted`, `OnceUnlessDisturbed`: a link reset leaves the
  primary's `nextFcb` alone (`link_layer.c:1247`); the first user data after it
  may be taken for a repetition. A restart of a slave has the same effect.
  Out of step the unbalanced master takes each ACK for that of the next command,
  which need not have arrived: there acknowledged and dropped commands have no
  such bound, and `OnceUnlessDisturbed` counts them in step only.
* `LinkRecovers`: nothing leaves `PLL_SECONDARY_LINK_LAYER_BUSY` in balanced mode
  (`link_layer.c:1465`).
* `TypeOK` and `OneFrameAtATime` of the unbalanced link: a late answer, a
  refusal and a test (which is always refused) end the wait for an answer before
  the exchange ends. The master then polls the next slave while the repetition
  of the old request is under way, and takes its single character for the
  answer of the slave whose turn it is (`link_layer.c:2408`).
* `EverySlaveServed`: after a late answer master and slave can stay one answer
  out of step: each answer ends an exchange that began after it was sent.
* `ElementsReadBack`: parameters in a sequence are read as if there were none
  (`cs101_asdu.c:1573`), and of several log queries the first is read for all
  (`Unreadable`). The flag of a file that is ready is left out (`Contradicted`),
  since `FileReady_isPositive` inverts what was given to `FileReady_create`
  (section 5): the property holds with this getter and with a corrected one.
* `PayloadFits`: the five encoders of file objects test for less room than they
  use, or for none.
* `TransferAsCalled`: `sectionChecksum` is not reset when a transfer breaks off
  within a section (`leftover`); `fileChecksum` counts a section again that is
  repeated after a negative ACK (`miscounted`); a refused announcement of a file
  gives its name to the transfer in progress (`renamed`,
  `../file-service/file_server.c:352`). `SEND_ABORT` sends nothing and
  DEACTIVATE_FILE is ignored during a transfer: `TransferEnds` rests on the
  timeout.

## 4. Proofs

Each of the modules named below first states an inductive invariant, `IInv`,
whose conjuncts are named after what they say; then there is one lemma per group
of actions and conjunct, and the theorems follow. Every invariant that is
proved, and every `IInv`, has also been checked by TLC on the instance of the
corresponding run (that of `MessageQueue` with `Visited` for the sequence it says
there is). The library's induction theorems cannot be used with the installed
provers; where a proof needs induction over numbers (the two byte rings and the
checksums) it takes a least counterexample with the lemma `LeastNatural`, that
a set of numbers that is not empty has a least element.

### The k-buffer: `SentASDUsProofs`

For every `K \in Nat \ {0}` and `SeqMod > K` (`KAssumption`,
`SeqModAssumption`; 32768 and k of at most 32767 in the code):

* `TypeCorrect`, `KBufferCorrect`: `Spec => []TypeOK` and `Spec => []KBufferInv`;
* `PlausibilityCorrect`: `Spec => []PlausibilityExact`;
* `ConfirmationCorrect`: the action property `ConfirmedUpToSeqNo`;
* `WindowRefined`: `Spec => Window!WSpec`.

The inductive invariant is `IInv == TypeOK /\ KBufferInv`. The type alone says
nothing about the numbers in the ring; `KBufferInv` says that the slots in use
hold consecutive numbers that end with `sendCount` (`Consecutive`), that they
hold numbers at all, which is what is left after a failed write (`SlotsInUse`),
and that the locals of a check in progress agree with the ring although the ring
moves under them (`CheckConsistent`: the flag `counterOverflowDetected` is
computed before the loop and stays right while the oldest slots leave).
`Offset`, `SeqAdd` and `SeqDist` are the arithmetic on the two circles; the
lemmas about them are stated first. Exactness of the test and the refinement
follow from `IInv`. `APCI` models the k-buffer as a sequence of frames; that the
ring of the code is such a window is what `WindowRefined` shows.

### The server's threads: `CS104SlaveProofs`

For every number `N` of slots, every non-empty set of groups, every `K > 0`, and
any number of events, responses and stops (`SlaveAssumption`):

* `TypeCorrect`, `OneActive`, `ConnectionsCounted`, `SentOwned`:
  `TypeOK`, `OneActiveUnlessRaced`, `OpenConnectionsExact` and `SentIsOwned`
  are invariants;
* `ResponsesToRequester`: the action property `AnswerToRequester`.

None of the four is inductive alone. `LockOK` ties `lock` to the places of the
threads that hold it. `ActivationOK` is the heart of `OneActive`: while a
connection walks over the others, those it has passed (`Scanned`) stay inactive,
because a connection becomes active only at a place that, without a race, no
other thread of the group is at meanwhile. `ResponsesOK` says that the responses
waiting in the queue of a group may be sent on its active connection, except
between its activation and its STARTDT_CON, which is when the queue is emptied.
`ServerOK` and `ThreadsOK` are what the server thread and the connection threads
know about the slot and the local they work on. `ConnectionsCounted` counts
slots: a step adds one to a finite set or removes one, and `openConnections`
follows.

### The event queue: `MessageQueueProofs`

For every size of header and ASDUs and every buffer that has room for two ASDUs
(`SizesAssumption`, `RoomForTwo`: every queue of at least two slots; with one
slot the claims are false, section 5.1):

* `TypeCorrect`, `Consistent`, `NeverCorrupted`: `TypeOK`, `QueueConsistent` and
  `NoCorruption` are invariants;
* `FIFORefined`: `Spec => ImplementsEventQueue`.

Entries have different sizes, so there are no slots to count. The invariant says
that there is a sequence `w` of addresses, oldest entry first, and a position `k`
in it, the entry at the end of the buffer (`Held(w, k)`). `Layout`: each entry
begins where the one before it ends, or at offset 0 after the `k`-th, and the
entries after the `k`-th lie before the others. `Numbered`: their ids are
the last `entryCounter` ones. `Referenced`: a reference with such an id has the
address of that entry, whatever was overwritten or released since it was made;
this is what makes the test in `markAsduAsConfirmed` sufficient. An enqueue
takes `w` without its first `d` entries and appends the new address
(`EntryAdded`). `OldEntriesRemoved` finds `d` from the loop that removes them,
and `ReplacesAll`, `WrapsAround`, `Joins` and `GoesBehind` are the ways in
which the new entry can lie. Room for two is needed at one place: when the new
entry does not fit behind the last one, the last one is not at offset 0, so the
code's test `lastEntry > firstEntry` sees it and it becomes the entry at the end
of the buffer.
The walk of the code is along `w` (`ChainFollows`), so that the abstract queue is
what `mem` holds at `w` (`EventsShown`), and there is one lemma per operation that
it is a step of `EventQueue`.

### The response queue: `HighPriorityASDUQueueProofs`

For every size of buffer, header and ASDU (`SizesAssumption`), when all ASDUs
have the same size (`OneSize`; without it the claim is false, section 5.2):

* `TypeCorrect`: `Spec => []TypeOK`;
* `FIFORefined`: `Spec => ImplementsFIFO`;
* `FullTold`: `Spec => IsFullExact`.

All three rest on `IInv == TypeOK /\ RingOK`: the buffer is a ring of `Slots` equal slots, the
entries occupy consecutive slots from slot `a` on, `lastInBufferEntry` is the last
entry, or the last slot when the entries go round the end (`Held(a)`). The
products `slot * EntrySize` are not linear, so everything about addresses is in
four lemmas (`SlotsFit`, `SlotsApart`, `SlotAddress`, `EntriesApart`). `Queued`
follows the entries with a recursive function; `WalkInRing` shows that it visits
the slots in turn. For `FullTold`, `SameTest` shows that the test of `isFull` and
that of the enqueue, which the code writes out separately, agree in any state and
for any sizes, and `FullInRing` that they are true exactly when every slot of the
ring is taken, wherever the ring begins.

### The balanced link layer: `LinkLayerBalancedProofs`

For any two stations, any set of classes per station, any number of ASDUs,
`Repeats` and `MaxFaults` (`BalancedAssumption`):

* `TypeCorrect`: `Spec => []TypeOK`;
* `DeliveredInOrderOnce`: `Spec => []InOrderOnce`;
* `ConfirmedDelivered`: `Spec => []ConfirmedWasDelivered`;
* `LossesReported`: `Spec => []LossReported`, the first half of `LossAccounted`;
* `LossesAccounted`: `Repeats >= 1` implies
  `Spec => [](faults.late = 0 => LossAccounted)`.

The argument is that of the alternating bit protocol, made harder by link resets
that leave `nextFcb` alone, by tests of the link that replace a repetition, and
by answers that come late. The invariant speaks of the frames under way followed
by the repetition the primary may still send (`Upcoming`), whether it will be
sent or not. That line is in the order of the queues, an ASDU in it twice has the
same frame count bit both times, and nothing between the two makes the
secondary expect that bit again (`FramesInOrder`); nothing in it is older than
what was delivered, and what was delivered already meets a secondary that
expects the other bit (`NewerThan`). Hence a lost frame leaves a line that is
still right, and a delivery cannot repeat. `ConfirmedDelivered` needs more,
`PInv`: while no answer has been late, a station has at most one request or one
answer under way (`OneOutstanding`), and an ACK on its way belongs to the ASDU
in hand, which was delivered (`AckFits`).

What is given up is reported because a user state of ERROR is always left before
the next ASDU is sent (`NoErrorWhileUp`); a refusal is the one answer that drops
the ASDU in hand without it, and each refusal under way was counted as a fault
(`RInv`). For the bound on what never arrives, `DInv` gives each primary a
`Debt`: the ASDUs it will lose although no further fault happens. It follows from
its state, from whether its `nextFcb` and the secondary's `expectedFcb` agree, from
the frame or answer under way and, while it repeats, from the repetitions it
made. No step lets undelivered ASDUs and debt together grow by more than the
faults of that step. `Repeats >= 1` holds for the default parameters
(`timeoutRepeat` 1000 ms, `timeoutForAck` 200 ms: up to four, as both times must
be exceeded, `link_layer.c:1432`); without a repetition a lost
frame costs two ASDUs. A late answer leaves two requests under way, for which
`Debt` says nothing: there the bound is only model-checked.

### The unbalanced link layer: `LinkLayerUnbalancedProofs`

For every number of slaves, size of the queues, `Repeats` and set of scenarios
(`UnbalancedAssumption`):

* `TypeCorrect`, `OneFrame`, `NewestKept`: `TypeOK`, `OneFrameAtATime` and
  `QueueKeepsNewest` are invariants;
* `InOrder`: the action property `ArriveInOrder`;
* `OnceInStep`: `Spec => [](~OutOfStep => OnceUnlessDisturbed)`.

`QueuesOK` says that a ring holds the newest ASDUs from its first slot on
(`HoldsNewest`; `Place` is the arithmetic of the ring, and there is a lemma for
each operation of the queue) and that the buffer of the link layer holds an ASDU
that has left its queue, or none. `OneExchange` is what the turn rests on, while
the master is in step: it waits for the slave whose turn it is, and for no other
(`WaitsInTurn`); a request under way is the one that the state of that slave's
connection stands for (`Asks`), and there is no second one and no answer
(`RequestFits`); an answer under way ends that state (`Ends`, `AnswerFits`). So
an answer finds the state it belongs to, and a timer that is not early finds the
line quiet. `ArriveInOrder` does not need the turn and holds out of step too:
the commands under way to a slave are in order, between the last one that was
indicated and the one in the master's buffer (`CommandsOK`); the ASDUs under way
to the master likewise, up to what the slave has in its buffer (`DataOK`).

`OnceUnlessDisturbed` bounds what has gone wrong by the resets and restarts there
were, which is not inductive: a reset or a restart may leave the two frame count
bits out of phase, and what comes of it shows only in a later exchange. `DInv`
therefore adds what is owed to what is counted (`Covered`): `SkipDebt`, the
command that will be taken for a repetition, or is being acknowledged as one;
`ToRepeat`, a command in the buffer that its application has got and will get
again; `StaleDebt`, an old or unwritten answer that the slave will give, is
giving, or both. Each is a function of the state of the exchange, of whether the
bits agree (`InPhase`) and of the answer under way. `RequestsNow` says that a
request under way has the frame count bit and the command of the exchange it
belongs to. Every step, seen from one slave, is of one of eleven kinds (`Moves`),
and `SkipsCovered`, `RepeatsCovered` and `StaleCovered` go through these, without a
look at the other slaves or the line. `MaxCount`, the bound of what the histories
count, is a constant like the others: the theorem holds for each value of it.

### Client and server: `CS104LinkProofs`

For every k, w and modulus larger than k (`APCIAssumption`; the code has 32768
and leaves k and w to the user), and every set of scenarios:

* `LinkTypeCorrect`: `Spec => []TypeOK`;
* `AcknowledgedReceived`: `Spec => []AcknowledgedWasReceived`;
* `ProtocolRespected`: `Spec => []NoProtocolError`.

The first two rest on `LinkInv`, which speaks of each direction by itself
(`Channel`): there is an R such that the peer's application has received the
first R frames of the k-buffer (`AcknowledgedUpTo`), the I frames under way
carry later ones (`Carried`), the N(R) on their way back acknowledge at most R
frames and never go back, and an S frame acknowledges something new. Sequence
numbers go round, so it speaks of their `Distance`, the number of frames of the
k-buffer that a number acknowledges: sending, confirming and receiving leave
it alone or shift it, which is where the modulus has to exceed k, and the only
place where it is computed with. When the connection is gone, what is left to
be read still satisfies `AcknowledgedUpTo`, which is why a confirmation read
after the end of the connection is right as well. A scenario is not bounded
here: the lemmas hold for any budget, and the length of what is under way is
not limited. `ClientInv` says what the place in the client's thread implies for
its socket and counters.

`ProtocolRespected` needs to know that the two ends agree, which is true only
while nobody was `hasty` or `raced` (`Calm`). `OrderInv`: the I frames under way
have the numbers expected next, one after the other, up to the sender's own
count. `Phases` (`Exchange`): one request or its answer is under way, and the
states of the two ends are those of that stage; an `ACTIVE` client means a
`STARTED` server. Hence a command on its way meets a server that is started,
and no STARTDT or STOPDT before it changes that (`CommandsInv`), and a server
that is stopped has nothing in its k-buffer, so no S frame can come
(`StoppedInv`). `OpeningInv` is about the window before `setInactive`, where
the application may have asked for STARTDT already. A second STARTDT while one is
under way breaks the agreement although the client's state does not say so,
hence the definition of `hasty` in `sendStartDT`. A client also confirms a
STARTDT that it receives (`receiveU`), but this server sends none
(`ClientReplies`).

### The file server: `FileServerProofs`

For every set of masters and of files, any sections of bytes, every positive size
of segment and every modulus of the checksum (`FileServerAssumption`: the files
offered have names in `Files`, their sections are sequences of bytes):

* `TypeCorrect`: `Spec => []TypeOK`, of which the part that matters is that the
  server never reads from a file that is not selected;
* `TransferCorrect`: `Spec => TransferAsCalled`, its three state predicates and its
  action property.

`SumAppend`, that the checksum of two parts is the sum of theirs, is what allows
`sendSegment` to add up segment by segment. `IInv` relates, while a section is
sent, `currentSectionOffset` and `currentSectionSize` to the section called and
to what was sent of it (`SectionHeard`), and the two checksums to the sums of
that (`SectionCounted`, `FileCounted`). It is not needed that the masters keep to
the protocol: `StepKinds` shows that whatever they send, a step leaves the
transfer as it is (`Stays`), ends it (`Quits`), or is one of the steps of a
transfer (`Proceeds`), and only the last need a look at the data. `SectionCounted`
would be false without `leftover`, as no step that ends a transfer within a section
resets `sectionChecksum`; `FileCounted` would be false without `miscounted`.

### Only model-checked

* Liveness and ENABLED are out of the prover's reach: `CheckTerminates`,
  `SlotFreed`, `Settled`, `LinkRecovers`, `EverySlaveServed`,
  `TransferEnds`.
* The bound of `LossAccounted` after an answer came late.
* What the recursive functions and folds of the codec compute for every input
  (`ElementsReadBack`, `TruncationDetected`, `PayloadFits`) would need induction
  over the table of object types and over byte strings.
* What the response queue does when the sizes differ.
* `OnceUnlessDisturbed` after an answer came late, a test or a refusal: then
  several requests and answers may be under way, for which the debts of `DInv` say
  nothing.

## 5. Disagreements between code and documentation

1. `messagequeue_one_slot`: with `maxLowPrioQueueSize = 1`, wrapping while
   `lastEntry < firstEntry` leaves `lastInBufferEntry` on a removed entry
   (`cs104_slave.c:318`); `firstEntry` then points into a payload.
2. `highprio_mixed`: when the response queue has wrapped and the next ASDU does
   not fit between `lastEntry` and the end of the buffer, it wraps again and is
   written over waiting responses (`cs104_slave.c:843`). This needs responses
   of different sizes; with one size the queue is correct (`highprio`).

Not in a run of its own: `FileReady_create` takes `positive` as "when true file
is ready to transmit" (`cs101_information_objects.h:1946`), and
`FileReady_isPositive` returns the opposite of it
(`cs101_information_objects.c:7144`), as bit 8 of the FRQ means a negative
confirmation.

The exceptions of section 3 are further ones, described where the properties
state them.

## 6. Not modelled

* Of the server: the mode without threads,
  `CS104_MODE_CONNECTION_IS_REDUNDANCY_GROUP`, TLS, and the assignment of a
  client to a group by its address.
* ASDU dispatch (`handleASDU`): a table without state, from type, cause of
  transmission and the handler's result to an answer. The models take any answer,
  or none.
* Of the client: TLS, setters, the raw message handler. A call of the API from a
  handler, which waits for a lock that its own thread holds, is a hazard in the
  list and not in the model, whose application has a thread of its own.
* Of CS101: start and stop of the threads, the dispatch of received ASDUs, and
  the helpers that only build an ASDU.
* Of the codec: header setters, cloning, and the arithmetic of time tags and
  counter readings.
* The serial transceiver and the byte layout of the APCI: byte I/O. A damaged
  frame is a lost one.
* HAL and TLS: external; a read yields any frame or an error, a write may fail.
  Secure authentication is not in the repository.
* Data races on the bit-fields of `sMasterConnection`, and the surplus
  `Semaphore_post(stateLock)` of the STOPDT branch (`cs104_slave.c:3140`).
* In `FileServer`: threads of two CS104 connections inside the plugin at the same
  time (it has no lock), and the originator address.

## 7. Plan

1. `CS104Slave` without threads and with one group per connection.
2. An abstract channel that `LinkLayerBalanced` implements up to reported loss.
3. `FileServer` composed with two connection threads.
4. `AsduDispatch`.
