----------------------------- MODULE CS104Slave -----------------------------
(***************************************************************************)
(* The threaded CS104 server: the server thread that accepts and reaps     *)
(* connections, one thread per connection, and the redundancy groups whose *)
(* connections share an event queue and a response queue.  A single group  *)
(* is CS104_MODE_SINGLE_REDUNDANCY_GROUP, several are                      *)
(* CS104_MODE_MULTIPLE_REDUNDANCY_GROUPS.                                  *)
(*                                                                         *)
(* A step is what a thread does between two points where the steps of      *)
(* another thread matter: sections under stateLock, sentASDUsLock or       *)
(* queueLock are atomic; openConnectionsLock is held over several steps    *)
(* and is a variable.  The client and the network are the choice of what   *)
(* is received and of whether a write succeeds.                            *)
(*                                                                         *)
(* The event queue is the one EventQueue describes, without overflow       *)
(* (MessageQueue is about that); the k-buffer is the sequence of frames    *)
(* that SendWindow counts.                                                 *)
(***************************************************************************)
EXTENDS Integers, Sequences, FiniteSets, Functions

CONSTANTS
  N,            \* CONFIG_CS104_MAX_CLIENT_CONNECTIONS
  Groups,       \* redundancy groups
  K,            \* conParameters.k
  Scenarios     \* bounds: ASDUs the application enqueues, room in the response
                \* queue of a group, how often the server is stopped

ASSUME SlaveAssumption ==
  /\ N \in Nat \ {0} /\ K \in Nat \ {0}
  /\ Groups # {}
  /\ Scenarios \subseteq [events : Nat, responses : Nat, stops : Nat]

VARIABLES
  isUsed, isRunning, state, requeuedOnActivate,   \* MasterConnection fields
  group,       \* connection -> redundancyGroup
  sentASDUs,   \* connection -> its k-buffer: events, and 0 for a response
  pc,          \* connection -> where its thread is
  arg,         \* connection -> the local variable the thread's next step uses
  server,      \* where the server thread is, and its loop variable
  openConnections,
  lock,        \* holder of openConnectionsLock: a connection, N + 1 for the
               \* server thread, 0 for nobody
  lowPrioQueue,   \* group -> event -> state of its entry
  highPrioQueue,  \* group -> responses, each with the connection it is for
  raced,       \* history: group -> two STARTDT were handled at the same time
  abandoned,   \* history: group -> events left behind by a thread that ended
               \* without requeueing
  scenario,    \* one of Scenarios
  stops,       \* history: how often the server was stopped
  miscount     \* history: slots that a stop has counted as closed and left in use

conVars   == <<isUsed, isRunning, state, requeuedOnActivate, group, sentASDUs>>
threads   == <<pc, arg>>
serverVars == <<server, openConnections>>
queues    == <<lowPrioQueue, highPrioQueue>>
history   == <<raced, abandoned>>
stopVars  == <<scenario, stops, miscount>>
vars == <<conVars, threads, serverVars, lock, queues, history, stopVars>>

Conns  == 1..N
Events == 1..scenario.events
Server == N + 1

Init ==
  /\ scenario \in Scenarios
  /\ isUsed = [c \in Conns |-> FALSE]
  /\ isRunning = [c \in Conns |-> FALSE]
  /\ state = [c \in Conns |-> "STOPPED"]
  /\ requeuedOnActivate = [c \in Conns |-> FALSE]
  /\ group \in [Conns -> {CHOOSE g \in Groups : TRUE}]
  /\ sentASDUs = [c \in Conns |-> <<>>]
  /\ pc = [c \in Conns |-> "none"]
  /\ arg = [c \in Conns |-> 0]
  /\ server = [pc |-> "accept", i |-> 1]
  /\ openConnections = 0
  /\ lock = 0
  /\ lowPrioQueue = [g \in Groups |-> [e \in Events |-> "none"]]
  /\ highPrioQueue = [g \in Groups |-> <<>>]
  /\ raced = [g \in Groups |-> FALSE]
  /\ abandoned = [g \in Groups |-> {}]
  /\ stops = 0 /\ miscount = 0

isActive(c) == state[c] = "STARTED"

(* Mutant: one frame too many. *)
isSentBufferFull_offByOne(c) == Len(sentASDUs[c]) > K

isSentBufferFull(c) == Len(sentASDUs[c]) = K

(* Events are numbered in the order in which they are enqueued.            *)
oldest(e, S) == \A d \in S : e <= d

WithState(g, s) == {e \in Events : lowPrioQueue[g][e] = s}

SetEvents(g, S, s) ==
  lowPrioQueue' = [lowPrioQueue EXCEPT ![g] =
                     [e \in Events |-> IF e \in S THEN s ELSE @[e]]]

(* MessageQueue_setWaitingForTransmissionWhenNotConfirmed *)
RequeueAll(g) ==
  /\ SetEvents(g, WithState(g, "sent"), "waiting")
  /\ abandoned' = [abandoned EXCEPT ![g] = {}]

(* MasterConnection_hasUnconfirmedMessages of a connection of group g that *)
(* has frames in its k-buffer; asked after the queue became ev.            *)
hasUnconfirmedMessages(ev, frames) ==
  "sent" \in Range(ev) \/ frames # <<>>

Goto(c, l) == pc' = [pc EXCEPT ![c] = l] /\ arg' = [arg EXCEPT ![c] = 0]
At(c, l)   == pc[c] = l

StopRunning(c) == isRunning' = [isRunning EXCEPT ![c] = FALSE]

(* A write to the socket, which may fail; then the connection is to be     *)
(* closed.                                                                 *)
Write(c) == UNCHANGED isRunning \/ StopRunning(c)

-----------------------------------------------------------------------------
(* The server thread. *)

(* c is the first slot that is not in use.                                 *)
getFreeConnection(c) == ~isUsed[c] /\ \A d \in 1..(c - 1) : isUsed[d]

(* The slot c is prepared for a client of group g.  The response queue,    *)
(* which the group shares, is emptied.                                     *)
MasterConnection_init(c, g) ==
  /\ isRunning' = [isRunning EXCEPT ![c] = FALSE]
  /\ requeuedOnActivate' = [requeuedOnActivate EXCEPT ![c] = FALSE]
  /\ sentASDUs' = [sentASDUs EXCEPT ![c] = <<>>]
  /\ group' = [group EXCEPT ![c] = g]
  /\ highPrioQueue' = [highPrioQueue EXCEPT ![g] = <<>>]

(* A client connects: getFreeConnection, MasterConnection_init and         *)
(* openConnections++, all with openConnectionsLock held.  The group is     *)
(* that of the client's address.                                           *)
AcceptConnection ==
  /\ server.pc = "accept"
  /\ lock = 0
  /\ openConnections < N
  /\ \E c \in Conns, g \in Groups :
       /\ getFreeConnection(c)
       /\ isUsed' = [isUsed EXCEPT ![c] = TRUE]
       /\ MasterConnection_init(c, g)
       /\ server' = [pc |-> "start", i |-> c]
  /\ openConnections' = openConnections + 1
  /\ UNCHANGED <<state, threads, lock, lowPrioQueue, history>>

MasterConnection_start ==
  LET c == server.i
  IN  /\ server.pc = "start"
      /\ isRunning' = [isRunning EXCEPT ![c] = TRUE]
      /\ state' = [state EXCEPT ![c] = "STOPPED"]
      /\ Goto(c, "receive")
      /\ server' = [pc |-> "lock", i |-> 1]
      /\ UNCHANGED <<isUsed, requeuedOnActivate, group, sentASDUs,
                     openConnections, lock, queues, history>>

(* Nobody wants to connect, or the connection is refused, or the new one   *)
(* is started: the server thread goes on to look for dead connections.     *)
LockConnections ==
  /\ server.pc \in {"accept", "lock"}
  /\ lock = 0
  /\ lock' = Server
  /\ server' = [pc |-> "reap", i |-> 1]
  /\ UNCHANGED <<conVars, threads, openConnections, queues, history>>

(* Mutant: openConnectionsLock is kept while the thread is joined. *)
CheckConnection_keepLock ==
  LET c == server.i
      dead == isUsed[c] /\ ~isRunning[c]
  IN  /\ server.pc = "reap"
      /\ server' = IF dead THEN [server EXCEPT !.pc = "join"]
                   ELSE IF c < N THEN [server EXCEPT !.i = c + 1]
                   ELSE [pc |-> "accept", i |-> 1]
      /\ lock' = IF ~dead /\ c = N THEN 0 ELSE lock
      /\ UNCHANGED <<conVars, threads, openConnections, queues, history>>

(* "check if there are connections to close": one slot of the loop.  The   *)
(* lock is released before the thread is joined.                           *)
CheckConnection ==
  LET c == server.i
      dead == isUsed[c] /\ ~isRunning[c]
  IN  /\ server.pc = "reap"
      /\ server' = IF dead THEN [server EXCEPT !.pc = "join"]
                   ELSE IF c < N THEN [server EXCEPT !.i = c + 1]
                   ELSE [pc |-> "accept", i |-> 1]
      /\ lock' = IF dead \/ c = N THEN 0 ELSE lock
      /\ UNCHANGED <<conVars, threads, openConnections, queues, history>>

MasterConnection_deinit(c) == state' = [state EXCEPT ![c] = "STOPPED"]

(* Thread_destroy waits for the end of the thread; a slot that was left in *)
(* use by CS104_Slave_stop has none.                                       *)
JoinThread ==
  LET c == server.i
  IN  /\ server.pc = "join"
      /\ pc[c] \in {"done", "none"}
      /\ Goto(c, "none")
      /\ MasterConnection_deinit(c)
      /\ server' = [server EXCEPT !.pc = "free"]
      /\ UNCHANGED <<isUsed, isRunning, requeuedOnActivate, group, sentASDUs,
                     openConnections, lock, queues, history>>

(* Mutant: the slot is freed, the number of connections is not changed. *)
FreeConnection_noDecrement ==
  LET c == server.i
  IN  /\ server.pc = "free"
      /\ lock = 0
      /\ isUsed' = [isUsed EXCEPT ![c] = FALSE]
      /\ server' = [pc |-> "accept", i |-> 1]
      /\ UNCHANGED <<isRunning, state, requeuedOnActivate, group, sentASDUs,
                     threads, openConnections, lock, queues, history>>

FreeConnection ==
  LET c == server.i
  IN  /\ server.pc = "free"
      /\ lock = 0
      /\ openConnections' = openConnections - 1
      /\ isUsed' = [isUsed EXCEPT ![c] = FALSE]
      /\ lock' = IF c = N THEN 0 ELSE Server
      /\ server' = IF c = N THEN [pc |-> "accept", i |-> 1]
                            ELSE [pc |-> "reap", i |-> c + 1]
      /\ UNCHANGED <<isRunning, state, requeuedOnActivate, group, sentASDUs,
                     threads, queues, history>>

serverThread ==
  \/ AcceptConnection \/ MasterConnection_start \/ LockConnections
  \/ CheckConnection \/ JoinThread \/ FreeConnection

-----------------------------------------------------------------------------
(* connectionHandlingThread *)

(* The end of one iteration and the condition of the while loop. *)
NextIteration(c) == Goto(c, IF isRunning'[c] THEN "receive" ELSE "exit")

(* Nothing was received, or a frame that changes nothing modelled here     *)
(* (TESTFR_ACT, TESTFR_CON, an unknown frame).                             *)
ReceiveNothing(c) ==
  /\ At(c, "receive")
  /\ Goto(c, "timeouts")
  /\ UNCHANGED <<conVars, serverVars, lock, queues, history>>

(* receiveMessage returns -1: the loop is left. *)
ReceiveError(c) ==
  /\ At(c, "receive")
  /\ Goto(c, "exit")
  /\ UNCHANGED <<conVars, serverVars, lock, queues, history>>

(* handleMessage returns false: a malformed frame, a wrong sequence        *)
(* number, an invalid ASDU, or an I frame in another state than STARTED.   *)
ReceiveInvalid(c) ==
  /\ At(c, "receive")
  /\ StopRunning(c)
  /\ Goto(c, "timeouts")
  /\ UNCHANGED <<isUsed, state, requeuedOnActivate, group, sentASDUs,
                 serverVars, lock, queues, history>>

(* checkSequenceNumber for an N(R) that acknowledges the n oldest frames:  *)
(* MessageQueue_markAsduAsConfirmed for each of them that is an event.     *)
Acknowledge(c, n) ==
  LET g == group[c]
      acked == {sentASDUs[c][i] : i \in 1..n} \ {0}
  IN  /\ sentASDUs' = [sentASDUs EXCEPT ![c] = SubSeq(@, n + 1, Len(@))]
      /\ SetEvents(g, acked, "confirmed")
      /\ abandoned' = [abandoned EXCEPT ![g] = @ \ acked]

(* handleMessage for an S frame.  In STOPPED state the connection is       *)
(* closed; a pending STOPDT is confirmed when nothing is unconfirmed now.  *)
ReceiveS(c) ==
  /\ At(c, "receive")
  /\ \E n \in 0..Len(sentASDUs[c]) : Acknowledge(c, n)
  /\ IF /\ state[c] = "UNCONFIRMED_STOPPED"
        /\ ~hasUnconfirmedMessages(lowPrioQueue'[group[c]], sentASDUs'[c])
     THEN state' = [state EXCEPT ![c] = "STOPPED"] /\ Write(c)
     ELSE /\ UNCHANGED state
          /\ IF state[c] = "STOPPED" THEN StopRunning(c) ELSE UNCHANGED isRunning
  /\ Goto(c, "timeouts")
  /\ UNCHANGED <<isUsed, requeuedOnActivate, group, serverVars, lock,
                 highPrioQueue, raced>>

(* handleMessage for an I frame.  The ASDU handler answers through         *)
(* sendASDUInternal (the library's own answers, and an application's that  *)
(* bypasses the queue) or through IMasterConnection_sendASDU (the other    *)
(* answers of the application), or not at all.  (The                       *)
(* test of isActive before the handler is called only finds out what       *)
(* MasterConnection_close did, which has cleared isRunning as well.)       *)
ReceiveI(c) ==
  /\ At(c, "receive")
  /\ isActive(c)
  /\ \E n \in 0..Len(sentASDUs[c]) : Acknowledge(c, n)
  /\ \E l \in {"timeouts", "respond", "enqueue"} : Goto(c, l)
  /\ UNCHANGED <<isUsed, isRunning, state, requeuedOnActivate, group,
                 serverVars, lock, highPrioQueue, raced>>

(* sendASDUInternal: a response is sent at once; if the k-buffer is full   *)
(* it is queued, or dropped with dontQueueIfBufferFull.                    *)
Respond(c) ==
  /\ At(c, "respond")
  /\ IF isActive(c) /\ isSentBufferFull(c)
     THEN /\ \E l \in {"enqueue", "timeouts"} : Goto(c, l)
          /\ UNCHANGED <<sentASDUs, isRunning>>
     ELSE /\ Goto(c, "timeouts")
          /\ IF isActive(c)
             THEN /\ sentASDUs' = [sentASDUs EXCEPT ![c] = Append(@, 0)]
                  /\ Write(c)
             ELSE UNCHANGED <<sentASDUs, isRunning>>
  /\ UNCHANGED <<isUsed, state, requeuedOnActivate, group,
                 serverVars, lock, queues, history>>

(* HighPriorityASDUQueue_enqueue; late is for the properties: the          *)
(* connection is no longer the active one.                                 *)
EnqueueResponse(c) ==
  LET g == group[c]
      r == [con |-> c, late |-> ~(isRunning[c] /\ isActive(c))]
  IN  /\ At(c, "enqueue")
      /\ highPrioQueue' = IF Len(highPrioQueue[g]) < scenario.responses
                          THEN [highPrioQueue EXCEPT ![g] = Append(@, r)]
                          ELSE highPrioQueue
      /\ Goto(c, "timeouts")
      /\ UNCHANGED <<conVars, serverVars, lock, lowPrioQueue, history>>

-----------------------------------------------------------------------------
(* STARTDT_ACT: CS104_Slave_activate, then the STARTDT_CON *)

ReceiveStartDT(c) ==
  /\ At(c, "receive")
  /\ Goto(c, "activate_lock")
  /\ UNCHANGED <<conVars, serverVars, lock, queues, history>>

(* Mutant: the connections are scanned without waiting for the lock. *)
LockForActivation_noWait(c) ==
  /\ At(c, "activate_lock")
  /\ pc' = [pc EXCEPT ![c] = "scan"]
  /\ arg' = [arg EXCEPT ![c] = 1]
  /\ UNCHANGED <<conVars, serverVars, lock, queues, history>>

LockForActivation(c) ==
  LET others == {d \in Conns \ {c} : group[d] = group[c] /\ At(d, "activate")}
  IN  /\ At(c, "activate_lock")
      /\ lock = 0
      /\ lock' = c
      /\ pc' = [pc EXCEPT ![c] = "scan"]
      /\ arg' = [arg EXCEPT ![c] = 1]
      /\ raced' = [raced EXCEPT ![group[c]] = @ \/ others # {}]
      /\ UNCHANGED <<conVars, serverVars, queues, abandoned>>

MasterConnection_close(d) ==
  /\ StopRunning(d)
  /\ state' = [state EXCEPT ![d] = "STOPPED"]

(* One slot of the loop: an active connection of the same group is closed. *)
CloseActive(c) ==
  LET d == arg[c]
      close == isUsed[d] /\ d # c /\ group[d] = group[c] /\ isActive(d)
  IN  /\ At(c, "scan")
      /\ d <= N
      /\ IF close
         THEN /\ MasterConnection_close(d)
              /\ pc' = [pc EXCEPT ![c] = "requeue"]
              /\ UNCHANGED arg
         ELSE /\ arg' = [arg EXCEPT ![c] = d + 1]
              /\ UNCHANGED <<isRunning, state, pc>>
      /\ UNCHANGED <<isUsed, requeuedOnActivate, group, sentASDUs,
                     serverVars, lock, queues, history>>

RequeueClosed(c) ==
  /\ At(c, "requeue")
  /\ RequeueAll(group[arg[c]])
  /\ pc' = [pc EXCEPT ![c] = "flag"]
  /\ UNCHANGED <<conVars, arg, serverVars, lock, highPrioQueue, raced>>

FlagClosed(c) ==
  /\ At(c, "flag")
  /\ requeuedOnActivate' = [requeuedOnActivate EXCEPT ![arg[c]] = TRUE]
  /\ pc' = [pc EXCEPT ![c] = "scan"]
  /\ arg' = [arg EXCEPT ![c] = @ + 1]
  /\ UNCHANGED <<isUsed, isRunning, state, group, sentASDUs, serverVars, lock,
                 queues, history>>

UnlockAfterActivation(c) ==
  /\ At(c, "scan")
  /\ arg[c] = N + 1
  /\ lock' = 0
  /\ Goto(c, "activate")
  /\ UNCHANGED <<conVars, serverVars, queues, history>>

MasterConnection_activate(c) ==
  /\ At(c, "activate")
  /\ state' = [state EXCEPT ![c] = "STARTED"]
  /\ Goto(c, "startdt_con")
  /\ UNCHANGED <<isUsed, isRunning, requeuedOnActivate, group, sentASDUs,
                 serverVars, lock, queues, history>>

(* Mutant: the responses of the connection that was active stay queued. *)
SendStartDTCon_noReset(c) ==
  /\ At(c, "startdt_con")
  /\ Write(c)
  /\ Goto(c, "timeouts")
  /\ UNCHANGED <<isUsed, state, requeuedOnActivate, group, sentASDUs,
                 serverVars, lock, queues, history>>

(* HighPriorityASDUQueue_resetConnectionQueue and the answer. *)
SendStartDTCon(c) ==
  /\ At(c, "startdt_con")
  /\ highPrioQueue' = [highPrioQueue EXCEPT ![group[c]] = <<>>]
  /\ Write(c)
  /\ Goto(c, "timeouts")
  /\ UNCHANGED <<isUsed, state, requeuedOnActivate, group, sentASDUs,
                 serverVars, lock, lowPrioQueue, history>>

MasterConnection_deactivate(c) ==
  state' = IF isActive(c) THEN [state EXCEPT ![c] = "UNCONFIRMED_STOPPED"] ELSE state

(* STOPDT_ACT *)
ReceiveStopDT(c) ==
  /\ At(c, "receive")
  /\ MasterConnection_deactivate(c)
  /\ Goto(c, "stopdt_con")
  /\ UNCHANGED <<isUsed, isRunning, requeuedOnActivate, group, sentASDUs,
                 serverVars, lock, queues, history>>

SendStopDTCon(c) ==
  /\ At(c, "stopdt_con")
  /\ IF hasUnconfirmedMessages(lowPrioQueue[group[c]], sentASDUs[c])
     THEN UNCHANGED <<state, isRunning>>
     ELSE state' = [state EXCEPT ![c] = "STOPPED"] /\ Write(c)
  /\ Goto(c, "timeouts")
  /\ UNCHANGED <<isUsed, requeuedOnActivate, group, sentASDUs,
                 serverVars, lock, queues, history>>

-----------------------------------------------------------------------------
(* The rest of the loop: timers and transmission *)

(* handleTimeouts: T1 of the oldest frame in the k-buffer or of TESTFR_ACT *)
(* may have run out.  Then MasterConnection_isRunning and                  *)
(* MasterConnection_isActive are tested; both may be outdated when         *)
(* sendWaitingASDUs sends.                                                 *)
HandleTimeouts(c) ==
  /\ At(c, "timeouts")
  /\ Write(c)
  /\ IF isRunning'[c] /\ isActive(c) THEN Goto(c, "send") ELSE NextIteration(c)
  /\ UNCHANGED <<isUsed, state, requeuedOnActivate, group, sentASDUs,
                 serverVars, lock, queues, history>>

(* sendNextHighPriorityASDU: a response leaves its queue for the k-buffer. *)
SendResponse(c) ==
  LET g == group[c]
  IN  /\ At(c, "send")
      /\ highPrioQueue[g] # <<>>
      /\ ~isSentBufferFull(c)
      /\ highPrioQueue' = [highPrioQueue EXCEPT ![g] = Tail(@)]
      /\ sentASDUs' = [sentASDUs EXCEPT ![c] = Append(@, 0)]
      /\ Write(c)
      /\ NextIteration(c)
      /\ UNCHANGED <<isUsed, state, requeuedOnActivate, group,
                     serverVars, lock, lowPrioQueue, history>>

(* sendNextLowPriorityASDU, first half: MessageQueue_getNextWaitingASDU    *)
(* marks the oldest waiting event as sent and releases the queue.          *)
FetchEvent(c) ==
  LET g == group[c]
  IN  /\ At(c, "send")
      /\ highPrioQueue[g] = <<>>
      /\ ~isSentBufferFull(c)
      /\ \E e \in WithState(g, "waiting") :
           /\ oldest(e, WithState(g, "waiting"))
           /\ SetEvents(g, {e}, "sent")
           /\ arg' = [arg EXCEPT ![c] = e]
      /\ pc' = [pc EXCEPT ![c] = "transmit"]
      /\ UNCHANGED <<conVars, serverVars, lock, highPrioQueue, history>>

(* Second half: sendASDU. *)
TransmitEvent(c) ==
  /\ At(c, "transmit")
  /\ sentASDUs' = [sentASDUs EXCEPT ![c] = Append(@, arg[c])]
  /\ Write(c)
  /\ NextIteration(c)
  /\ UNCHANGED <<isUsed, state, requeuedOnActivate, group,
                 serverVars, lock, queues, history>>

NothingToSend(c) ==
  /\ At(c, "send")
  /\ \/ isSentBufferFull(c)
     \/ highPrioQueue[group[c]] = <<>> /\ WithState(group[c], "waiting") = {}
  /\ UNCHANGED <<conVars, serverVars, lock, queues, history>>
  /\ NextIteration(c)

(* The events of c's frames that are marked as sent. *)
InFlight(c) == (Range(sentASDUs[c]) \ {0}) \cap WithState(group[c], "sent")

(* Mutant: the thread ends without requeueing. *)
LeaveLoop_noRequeue(c) ==
  /\ At(c, "exit")
  /\ StopRunning(c)
  /\ Goto(c, "done")
  /\ UNCHANGED <<isUsed, state, requeuedOnActivate, group, sentASDUs,
                 serverVars, lock, queues, history>>

(* The end of the thread: requeuedOnActivate is read, and after it the     *)
(* events are requeued.                                                    *)
LeaveLoop(c) ==
  /\ At(c, "exit")
  /\ StopRunning(c)
  /\ Goto(c, IF requeuedOnActivate[c] THEN "done" ELSE "requeue_own")
  /\ abandoned' = IF requeuedOnActivate[c]
                  THEN [abandoned EXCEPT ![group[c]] = @ \cup InFlight(c)]
                  ELSE abandoned
  /\ UNCHANGED <<isUsed, state, requeuedOnActivate, group, sentASDUs,
                 serverVars, lock, queues, raced>>

RequeueOnExit(c) ==
  /\ At(c, "requeue_own")
  /\ RequeueAll(group[c])
  /\ Goto(c, "done")
  /\ UNCHANGED <<conVars, serverVars, lock, highPrioQueue, raced>>

connectionHandlingThread(c) ==
  \/ ReceiveNothing(c) \/ ReceiveError(c) \/ ReceiveInvalid(c)
  \/ ReceiveS(c) \/ ReceiveI(c) \/ Respond(c) \/ EnqueueResponse(c)
  \/ ReceiveStartDT(c) \/ LockForActivation(c) \/ CloseActive(c) \/ RequeueClosed(c)
  \/ FlagClosed(c) \/ UnlockAfterActivation(c) \/ MasterConnection_activate(c)
  \/ SendStartDTCon(c) \/ ReceiveStopDT(c) \/ SendStopDTCon(c)
  \/ HandleTimeouts(c) \/ SendResponse(c) \/ FetchEvent(c)
  \/ TransmitEvent(c) \/ NothingToSend(c) \/ LeaveLoop(c) \/ RequeueOnExit(c)

-----------------------------------------------------------------------------
(* The application. *)

CS104_Slave_enqueueASDU ==
  LET new == {e \in Events : \A g \in Groups : lowPrioQueue[g][e] = "none"}
  IN  /\ \E e \in new :
           /\ oldest(e, new)
           /\ lowPrioQueue' = [g \in Groups |-> [lowPrioQueue[g] EXCEPT ![e] = "waiting"]]
      /\ UNCHANGED <<conVars, threads, serverVars, lock, highPrioQueue, history>>

(* The application closes a connection, from any thread. *)
IMasterConnection_close(c) ==
  /\ isUsed[c]
  /\ isRunning[c]
  /\ MasterConnection_close(c)
  /\ UNCHANGED <<isUsed, requeuedOnActivate, group, sentASDUs, threads,
                 serverVars, lock, queues, history>>

-----------------------------------------------------------------------------
(* CS104_Slave_stop and the start after it.  stopRunning is seen at the    *)
(* head of the server thread's loop; the thread of the caller, which waits *)
(* for that, takes its place.                                              *)
StopServer ==
  /\ server.pc = "accept"
  /\ stops < scenario.stops
  /\ stops' = stops + 1
  /\ server' = [pc |-> "stop_close", i |-> 1]
  /\ UNCHANGED <<conVars, threads, openConnections, lock, queues, history, scenario, miscount>>

NextToStop == IF server.i < N THEN [pc |-> "stop_close", i |-> server.i + 1]
                              ELSE [pc |-> "stopped", i |-> 1]

(* "Stop all connections": openConnectionsLock is released for the join.   *)
(* A slot that the last stop left in use has no thread.                    *)
StopConnection ==
  LET c == server.i
  IN  /\ server.pc = "stop_close"
      /\ lock = 0
      /\ IF isUsed[c]
           THEN /\ MasterConnection_close(c)
                /\ server' = IF At(c, "none") THEN [server EXCEPT !.pc = "stop_count"]
                                             ELSE [server EXCEPT !.pc = "stop_join"]
           ELSE /\ server' = NextToStop
                /\ UNCHANGED <<isRunning, state>>
      /\ UNCHANGED <<isUsed, requeuedOnActivate, group, sentASDUs, threads, openConnections, lock,
                     queues, history, stopVars>>

JoinStopped ==
  LET c == server.i
  IN  /\ server.pc = "stop_join"
      /\ At(c, "done")
      /\ Goto(c, "none")
      /\ server' = [server EXCEPT !.pc = "stop_count"]
      /\ UNCHANGED <<conVars, openConnections, lock, queues, history, stopVars>>

(* The slot stays in use. *)
CountStopped ==
  /\ server.pc = "stop_count"
  /\ lock = 0
  /\ MasterConnection_deinit(server.i)
  /\ openConnections' = openConnections - 1
  /\ miscount' = miscount + 1
  /\ server' = NextToStop
  /\ UNCHANGED <<isUsed, isRunning, requeuedOnActivate, group, sentASDUs, threads, lock, queues,
                 history, scenario, stops>>

(* CS104_MODE_SINGLE_REDUNDANCY_GROUP creates new queues, the other mode   *)
(* keeps those that its groups have.                                       *)
CS104_Slave_start ==
  /\ server.pc = "stopped"
  /\ server' = [pc |-> "accept", i |-> 1]
  /\ \/ UNCHANGED <<queues, history>>
     \/ /\ lowPrioQueue' = [g \in Groups |-> [e \in Events |-> "none"]]
        /\ highPrioQueue' = [g \in Groups |-> <<>>]
        /\ abandoned' = [g \in Groups |-> {}]
        /\ UNCHANGED raced
  /\ UNCHANGED <<conVars, threads, openConnections, lock, stopVars>>

CS104_Slave_stop == StopConnection \/ JoinStopped \/ CountStopped

Next ==
  \/ /\ \/ serverThread
        \/ \E c \in Conns : connectionHandlingThread(c)
        \/ CS104_Slave_enqueueASDU
        \/ \E c \in Conns : IMasterConnection_close(c)
     /\ UNCHANGED stopVars
  \/ StopServer \/ CS104_Slave_stop \/ CS104_Slave_start

(* Every thread is scheduled, and a thread that waits for                  *)
(* openConnectionsLock gets it if it is released again and again.          *)
Fairness ==
  /\ WF_vars(serverThread /\ UNCHANGED stopVars)
  /\ SF_vars(LockConnections /\ UNCHANGED stopVars)
  /\ SF_vars(FreeConnection /\ UNCHANGED stopVars)
  /\ SF_vars(CS104_Slave_stop)
  /\ \A c \in Conns : /\ WF_vars(connectionHandlingThread(c) /\ UNCHANGED stopVars)
                      /\ SF_vars(LockForActivation(c) /\ UNCHANGED stopVars)

Spec == Init /\ [][Next]_vars /\ Fairness

-----------------------------------------------------------------------------
Labels == {"none", "receive", "respond", "enqueue",
           "activate_lock", "scan", "requeue", "flag", "activate", "startdt_con",
           "stopdt_con", "timeouts", "send", "transmit",
           "exit", "requeue_own", "done"}

ConnTypes ==
  /\ isUsed \in [Conns -> BOOLEAN]
  /\ isRunning \in [Conns -> BOOLEAN]
  /\ state \in [Conns -> {"STOPPED", "STARTED", "UNCONFIRMED_STOPPED"}]
  /\ requeuedOnActivate \in [Conns -> BOOLEAN]
  /\ group \in [Conns -> Groups]

BufferTypes ==
  /\ sentASDUs \in [Conns -> Seq(Events \cup {0})]
  /\ \A c \in Conns : Len(sentASDUs[c]) <= K

ThreadTypes ==
  /\ pc \in [Conns -> Labels]
  /\ arg \in [Conns -> 0..(N + 1) \cup Events]

ServerTypes ==
  /\ server \in [pc : {"accept", "start", "lock", "reap", "join", "free",
                       "stop_close", "stop_join", "stop_count", "stopped"}, i : Conns]
  /\ openConnections \in Int /\ openConnections <= N /\ lock \in 0..Server
  /\ scenario \in Scenarios /\ stops \in 0..scenario.stops /\ miscount \in Nat

QueueTypes ==
  /\ lowPrioQueue \in [Groups -> [Events -> {"none", "waiting", "sent", "confirmed"}]]
  /\ highPrioQueue \in [Groups -> Seq([con : Conns, late : BOOLEAN])]
  /\ \A g \in Groups : Len(highPrioQueue[g]) <= scenario.responses
  /\ raced \in [Groups -> BOOLEAN]
  /\ abandoned \in [Groups -> SUBSET Events]

TypeOK == ConnTypes /\ BufferTypes /\ ThreadTypes /\ ServerTypes /\ QueueTypes

(* The connections on which data transfer goes on. *)
Active(g) == {c \in Conns : group[c] = g /\ isUsed[c] /\ isRunning[c] /\ isActive(c)}

(* As long as no two STARTDT of a group were in CS104_Slave_activate at    *)
(* the same time, at most one connection of a group is active, whatever    *)
(* else the threads do.                                                    *)
OneActiveUnlessRaced ==
  \A g \in Groups : ~raced[g] => \A c, d \in Active(g) : c = d

(* openConnections, which the server compares with maxOpenConnections, is  *)
(* the number of slots in use, although the lock is released in the middle *)
(* of the reaping loop; except that every connection open at a stop of the *)
(* server is counted down a second time by the next server thread, so that *)
(* it admits as many connections more than the maximum.  A slot in use has *)
(* a thread except right before its start, right after its join and after  *)
(* a stop, and no thread runs on a free slot.                              *)
OpenConnectionsExact ==
  /\ openConnections = Cardinality({c \in Conns : isUsed[c]}) - miscount
  /\ \A c \in Conns :
       /\ isUsed[c] /\ At(c, "none") =>
            \/ server.pc \in {"start", "free", "stop_count"} /\ server.i = c
            \/ miscount > 0 /\ ~isRunning[c]
       /\ ~At(c, "none") => isUsed[c]

(* Every event marked as sent is in the k-buffer of a connection (or about *)
(* to get there) whose thread will still confirm or requeue it, except the *)
(* ones that a thread closed by another connection's STARTDT left behind.  *)
(* So a broken connection, however it ends, loses no event.                *)
SentIsOwned ==
  \A g \in Groups : \A e \in WithState(g, "sent") \ abandoned[g] :
    \E c \in Conns :
      /\ group[c] = g
      /\ pc[c] \notin {"none", "done"}
      /\ e \in Range(sentASDUs[c]) \/ (At(c, "transmit") /\ arg[c] = e)

(* The active connection sends a queued response only if it answers a      *)
(* request of its own client, not one of the connection it took over from, *)
(* unless the response was queued after that connection was closed or two  *)
(* connections raced for the group.                                        *)
AnswerToRequester ==
  [][\A c \in Conns : SendResponse(c) /\ isRunning[c] /\ isActive(c) =>
       LET r == Head(highPrioQueue[group[c]])
       IN  r.con = c \/ r.late \/ raced[group[c]]]_vars

(* The slot of a connection that ended becomes free for a new client: the  *)
(* server thread never waits for a thread that waits for the server        *)
(* thread's lock.  (After a stop slots stay in use until the next start.)  *)
SlotFreed ==
  \A c \in Conns :
    (isUsed[c] /\ ~isRunning[c] /\ ~At(c, "none")) ~> (~isUsed[c] \/ server.pc = "stopped")
=============================================================================
