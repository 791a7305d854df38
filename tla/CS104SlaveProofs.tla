-------------------------- MODULE CS104SlaveProofs --------------------------
(***************************************************************************)
(* Proofs about the threaded server for every number of connections and    *)
(* redundancy groups and every size of the k-buffer, and without a bound   *)
(* on events, responses and stops.                                         *)
(***************************************************************************)
EXTENDS CS104Slave, FiniteSetTheorems, TLAPS

-----------------------------------------------------------------------------
(* The inductive invariant                                                 *)

(* The places of a thread that holds openConnectionsLock. *)
Locked == {"scan", "requeue", "flag"}

(* A thread's local variable is what its next step takes it for, and a     *)
(* fetched event finds room in the k-buffer.                               *)
ThreadsOK ==
  \A c \in Conns :
    /\ At(c, "scan") => arg[c] \in 1..(N + 1)
    /\ pc[c] \in {"requeue", "flag"} => arg[c] \in Conns
    /\ At(c, "transmit") => arg[c] \in Events /\ Len(sentASDUs[c]) < K

(* The slot the server thread is working on. *)
ServerOK ==
  LET c == server.i
  IN  /\ server.pc \in {"start", "join", "free", "stop_join", "stop_count"}
           => isUsed[c] /\ ~isRunning[c]
      /\ server.pc \in {"start", "free", "stop_count"} => At(c, "none")

(* A connection thread scans the others exactly while it holds the lock,   *)
(* and so does the server thread while it looks at the slots.              *)
LockOK ==
  /\ \A c \in Conns : pc[c] \in Locked <=> lock = c
  /\ server.pc = "reap" <=> lock = Server

(* c has closed d, or found it not active, on the way to become the active *)
(* connection.                                                             *)
Scanned(c, d) ==
  \/ At(c, "scan") /\ d < arg[c]
  \/ pc[c] \in {"requeue", "flag"} /\ d <= arg[c]
  \/ At(c, "activate")

(* Without a race, one connection of a group at a time becomes the active  *)
(* one, and none of those it has passed becomes active meanwhile.          *)
ActivationOK ==
  \A c \in Conns : \A d \in Conns \ {c} :
    group[d] = group[c] /\ ~raced[group[c]] =>
      /\ At(c, "activate") => pc[d] \notin Locked \cup {"activate"}
      /\ Scanned(c, d) => d \notin Active(group[c])

(* The responses of q may be sent on connection c: they are for c, or late. *)
QueueFor(c, q) == \A i \in 1..Len(q) : q[i].con = c \/ q[i].late

(* Without a race, those that wait in the queue of a group whose active    *)
(* connection has sent its STARTDT_CON may be sent on that connection.     *)
ResponsesOK ==
  \A c \in Conns :
    LET g == group[c]
    IN  c \in Active(g) /\ ~raced[g] /\ ~At(c, "startdt_con") => QueueFor(c, highPrioQueue[g])

IInv ==
  /\ TypeOK /\ ThreadsOK /\ ServerOK /\ LockOK
  /\ OpenConnectionsExact /\ OneActiveUnlessRaced /\ SentIsOwned
  /\ ActivationOK /\ ResponsesOK

(* A step that is not one of a connection's thread. *)
OtherStep ==
  \/ /\ \/ serverThread
        \/ CS104_Slave_enqueueASDU
        \/ \E c \in Conns : IMasterConnection_close(c)
     /\ UNCHANGED stopVars
  \/ StopServer \/ CS104_Slave_stop \/ CS104_Slave_start

-----------------------------------------------------------------------------
(* Type correctness                                                        *)

(* Marking events of a group changes nothing but the states of entries.    *)
LEMMA SetEventsType ==
  ASSUME QueueTypes, scenario' = scenario, NEW g \in Groups, NEW S,
         NEW s \in {"none", "waiting", "sent", "confirmed"}, SetEvents(g, S, s)
  PROVE  lowPrioQueue' \in [Groups -> [Events' -> {"none", "waiting", "sent", "confirmed"}]]
BY DEF QueueTypes, SetEvents, Events

(* What a thread appends to its k-buffer keeps its type, and its length    *)
(* when there was room.                                                    *)
LEMMA AppendFrame ==
  ASSUME BufferTypes, scenario' = scenario, NEW c \in Conns, NEW e \in Events \cup {0},
         Len(sentASDUs[c]) < K, K \in Nat,
         sentASDUs' = [sentASDUs EXCEPT ![c] = Append(@, e)]
  PROVE  BufferTypes'
<1>1. sentASDUs[c] \in Seq(Events \cup {0})
  BY DEF BufferTypes
<1>2. /\ Append(sentASDUs[c], e) \in Seq(Events \cup {0})
      /\ Len(Append(sentASDUs[c], e)) = Len(sentASDUs[c]) + 1
  BY <1>1
<1> QED
  BY <1>1, <1>2 DEF BufferTypes, Events, Conns

(* The frames that an acknowledgement leaves. *)
LEMMA AcknowledgeType ==
  ASSUME TypeOK, scenario' = scenario, NEW c \in Conns,
         NEW n \in 0..Len(sentASDUs[c]), Acknowledge(c, n)
  PROVE  BufferTypes'
<1>1. sentASDUs[c] \in Seq(Events \cup {0}) /\ Len(sentASDUs[c]) <= K
  BY DEF TypeOK, BufferTypes
<1>2. /\ SubSeq(sentASDUs[c], n + 1, Len(sentASDUs[c])) \in Seq(Events \cup {0})
      /\ Len(SubSeq(sentASDUs[c], n + 1, Len(sentASDUs[c]))) <= K
  BY <1>1, SlaveAssumption
<1> QED
  BY <1>1, <1>2 DEF TypeOK, BufferTypes, Acknowledge, Events, Conns

(* A bounded queue per group stays one when the queue of a group becomes q. *)
LEMMA QueueUpdate ==
  ASSUME NEW T, NEW G, NEW f \in [G -> Seq(T)], NEW m \in Nat,
         \A h \in G : Len(f[h]) <= m,
         NEW g \in G, NEW q \in Seq(T), Len(q) <= m
  PROVE  /\ [f EXCEPT ![g] = q] \in [G -> Seq(T)]
         /\ \A h \in G : Len([f EXCEPT ![g] = q][h]) <= m
OBVIOUS

(* A step of a connection's thread keeps every variable typed. *)
LEMMA ThreadTypeOK ==
  ASSUME TypeOK, ThreadsOK, NEW c \in Conns, connectionHandlingThread(c), UNCHANGED stopVars
  PROVE  TypeOK'
<1> USE SlaveAssumption DEF TypeOK, stopVars
<1>0. /\ c \in 1..N /\ group[c] \in Groups /\ scenario' = scenario
      /\ Len(sentASDUs[c]) \in 0..K /\ 0 \in Events \cup {0} /\ K \in Nat
      /\ scenario.responses \in Nat
  BY DEF ConnTypes, BufferTypes, ServerTypes, Conns
<1>1. ConnTypes'
  BY DEF ConnTypes, conVars, Write, StopRunning, MasterConnection_close,
    MasterConnection_deactivate, isActive, connectionHandlingThread, ReceiveNothing,
    ReceiveError, ReceiveInvalid, ReceiveS, ReceiveI, Respond, EnqueueResponse,
    ReceiveStartDT, LockForActivation, CloseActive, RequeueClosed, FlagClosed,
    UnlockAfterActivation, MasterConnection_activate, SendStartDTCon, ReceiveStopDT,
    SendStopDTCon, HandleTimeouts, SendResponse, FetchEvent, TransmitEvent,
    NothingToSend, LeaveLoop, RequeueOnExit
<1>2. ServerTypes'
  BY DEF ServerTypes, serverVars, Server, Conns, connectionHandlingThread,
    ReceiveNothing, ReceiveError, ReceiveInvalid, ReceiveS, ReceiveI, Respond,
    EnqueueResponse, ReceiveStartDT, LockForActivation, CloseActive, RequeueClosed,
    FlagClosed, UnlockAfterActivation, MasterConnection_activate, SendStartDTCon,
    ReceiveStopDT, SendStopDTCon, HandleTimeouts, SendResponse, FetchEvent,
    TransmitEvent, NothingToSend, LeaveLoop, RequeueOnExit
<1>3. BufferTypes'
  <2>1. CASE ReceiveS(c) \/ ReceiveI(c)
    BY <2>1, <1>0, AcknowledgeType DEF ReceiveS, ReceiveI
  <2>2. CASE Respond(c) /\ sentASDUs' # sentASDUs
    <3>1. /\ sentASDUs' = [sentASDUs EXCEPT ![c] = Append(@, 0)]
          /\ ~isSentBufferFull(c)
      BY <2>2 DEF Respond
    <3>2. Len(sentASDUs[c]) < K
      BY <1>0, <3>1 DEF isSentBufferFull
    <3> QED
      BY <1>0, <3>1, <3>2, AppendFrame
  <2>3. CASE SendResponse(c)
    <3>1. /\ sentASDUs' = [sentASDUs EXCEPT ![c] = Append(@, 0)]
          /\ ~isSentBufferFull(c)
      BY <2>3 DEF SendResponse
    <3>2. Len(sentASDUs[c]) < K
      BY <1>0, <3>1 DEF isSentBufferFull
    <3> QED
      BY <1>0, <3>1, <3>2, AppendFrame
  <2>4. CASE TransmitEvent(c)
    BY <1>0, <2>4, AppendFrame DEF ThreadsOK, TransmitEvent
  <2>5. CASE sentASDUs' = sentASDUs
    BY <1>0, <2>5 DEF BufferTypes, Events, Conns
  <2> QED
    BY <2>1, <2>2, <2>3, <2>4, <2>5 DEF conVars, connectionHandlingThread,
      ReceiveNothing, ReceiveError, ReceiveInvalid, ReceiveS, ReceiveI, Respond,
      EnqueueResponse, ReceiveStartDT, LockForActivation, CloseActive, RequeueClosed,
      FlagClosed, UnlockAfterActivation, MasterConnection_activate, SendStartDTCon,
      ReceiveStopDT, SendStopDTCon, HandleTimeouts, SendResponse, FetchEvent,
      TransmitEvent, NothingToSend, LeaveLoop, RequeueOnExit
<1>4. ThreadTypes'
  <2>1. CASE FetchEvent(c)
    BY <1>0, <2>1 DEF FetchEvent, WithState, ThreadTypes, Events, Conns, Labels
  <2>2. CASE FlagClosed(c)
    BY <1>0, <2>2 DEF FlagClosed, ThreadsOK, At, ThreadTypes, Events, Conns, Labels
  <2>3. CASE LockForActivation(c) \/ CloseActive(c) \/ RequeueClosed(c)
    BY <1>0, <2>3 DEF LockForActivation, CloseActive, RequeueClosed, At, ThreadTypes,
      Events, Conns, Labels
  <2>4. CASE \E l \in Labels : Goto(c, l)
    BY <1>0, <2>4 DEF Goto, ThreadTypes, Events, Conns
  <2> QED
    BY <2>1, <2>2, <2>3, <2>4 DEF NextIteration, Labels, connectionHandlingThread,
      ReceiveNothing, ReceiveError, ReceiveInvalid, ReceiveS, ReceiveI, Respond,
      EnqueueResponse, ReceiveStartDT, LockForActivation, CloseActive, RequeueClosed,
      FlagClosed, UnlockAfterActivation, MasterConnection_activate, SendStartDTCon,
      ReceiveStopDT, SendStopDTCon, HandleTimeouts, SendResponse, FetchEvent,
      TransmitEvent, NothingToSend, LeaveLoop, RequeueOnExit
<1>5. QueueTypes'
  <2> DEFINE Responses == [con : Conns, late : BOOLEAN]
             q == highPrioQueue[group[c]]
  <2>types. /\ highPrioQueue \in [Groups -> Seq(Responses)]
        /\ \A g \in Groups : Len(highPrioQueue[g]) <= scenario.responses
    BY DEF QueueTypes
  <2> HIDE DEF Responses
  <2>0. q \in Seq(Responses) /\ Len(q) \in Nat /\ Len(q) <= scenario.responses
    BY <1>0, <2>types
  <2>1. CASE highPrioQueue' = highPrioQueue
    <3>1. lowPrioQueue' \in [Groups -> [Events' -> {"none", "waiting", "sent", "confirmed"}]]
      <4>1. CASE ReceiveS(c) \/ ReceiveI(c)
        BY <1>0, <4>1, SetEventsType DEF Acknowledge, ReceiveS, ReceiveI
      <4>2. CASE RequeueClosed(c) \/ RequeueOnExit(c)
        <5>1. RequeueClosed(c) => group[arg[c]] \in Groups
          BY DEF RequeueClosed, ThreadsOK, ConnTypes, At
        <5> QED
          BY <1>0, <4>2, <5>1, SetEventsType DEF RequeueAll, RequeueClosed,
            RequeueOnExit
      <4>3. CASE FetchEvent(c)
        BY <1>0, <4>3, SetEventsType DEF FetchEvent
      <4>4. CASE lowPrioQueue' = lowPrioQueue
        BY <1>0, <4>4 DEF QueueTypes, Events
      <4> QED
        BY <4>1, <4>2, <4>3, <4>4 DEF queues, connectionHandlingThread,
          ReceiveNothing, ReceiveError, ReceiveInvalid, ReceiveS, ReceiveI, Respond,
          EnqueueResponse, ReceiveStartDT, LockForActivation, CloseActive,
          RequeueClosed, FlagClosed, UnlockAfterActivation, MasterConnection_activate,
          SendStartDTCon, ReceiveStopDT, SendStopDTCon, HandleTimeouts, SendResponse,
          FetchEvent, TransmitEvent, NothingToSend, LeaveLoop, RequeueOnExit
    <3>2. abandoned' \in [Groups -> SUBSET Events']
      <4>1. CASE ReceiveS(c) \/ ReceiveI(c)
        <5>1. \E S : abandoned' = [abandoned EXCEPT ![group[c]] = @ \ S]
          BY <4>1 DEF Acknowledge, ReceiveS, ReceiveI
        <5> QED
          BY <1>0, <5>1 DEF QueueTypes, Events
      <4>2. CASE RequeueClosed(c) \/ RequeueOnExit(c)
        BY <1>0, <4>2 DEF QueueTypes, Events, RequeueAll, RequeueClosed, RequeueOnExit
      <4>3. CASE LeaveLoop(c)
        BY <1>0, <4>3 DEF QueueTypes, Events, LeaveLoop, InFlight, WithState
      <4>4. CASE abandoned' = abandoned
        BY <1>0, <4>4 DEF QueueTypes, Events
      <4> QED
        BY <4>1, <4>2, <4>3, <4>4 DEF history, connectionHandlingThread,
          ReceiveNothing, ReceiveError, ReceiveInvalid, ReceiveS, ReceiveI, Respond,
          EnqueueResponse, ReceiveStartDT, LockForActivation, CloseActive,
          RequeueClosed, FlagClosed, UnlockAfterActivation, MasterConnection_activate,
          SendStartDTCon, ReceiveStopDT, SendStopDTCon, HandleTimeouts, SendResponse,
          FetchEvent, TransmitEvent, NothingToSend, LeaveLoop, RequeueOnExit
    <3>3. raced' \in [Groups -> BOOLEAN]
      BY <1>0 DEF QueueTypes, Acknowledge, RequeueAll, history,
        connectionHandlingThread, ReceiveNothing, ReceiveError, ReceiveInvalid,
        ReceiveS, ReceiveI, Respond, EnqueueResponse, ReceiveStartDT,
        LockForActivation, CloseActive, RequeueClosed, FlagClosed,
        UnlockAfterActivation, MasterConnection_activate, SendStartDTCon,
        ReceiveStopDT, SendStopDTCon, HandleTimeouts, SendResponse, FetchEvent,
        TransmitEvent, NothingToSend, LeaveLoop, RequeueOnExit
    <3> QED
      BY <1>0, <2>1, <3>1, <3>2, <3>3 DEF QueueTypes, Conns
  <2>2. CASE lowPrioQueue' = lowPrioQueue /\ abandoned' = abandoned /\ raced' = raced
    <3>1. /\ highPrioQueue' \in [Groups -> Seq(Responses)]
          /\ \A g \in Groups : Len(highPrioQueue'[g]) <= scenario.responses
      <4>1. CASE EnqueueResponse(c) /\ highPrioQueue' # highPrioQueue
        <5> DEFINE r == [con |-> c, late |-> ~(isRunning[c] /\ isActive(c))]
        <5>1. r \in Responses
          BY DEF Responses
        <5>2. Len(q) < scenario.responses /\ highPrioQueue' = [highPrioQueue EXCEPT ![group[c]] = Append(q, r)]
          BY <4>1 DEF EnqueueResponse
        <5>3. Append(q, r) \in Seq(Responses) /\ Len(Append(q, r)) <= scenario.responses
          BY <1>0, <2>0, <5>1, <5>2
        <5> QED
          BY <1>0, <2>types, <5>2, <5>3, QueueUpdate
      <4>2. CASE SendStartDTCon(c)
        <5>1. <<>> \in Seq(Responses) /\ Len(<<>>) <= scenario.responses
          BY <1>0
        <5> QED
          BY <1>0, <2>types, <4>2, <5>1, QueueUpdate DEF SendStartDTCon
      <4>3. CASE SendResponse(c)
        <5>1. q # <<>> /\ highPrioQueue' = [highPrioQueue EXCEPT ![group[c]] = Tail(q)]
          BY <4>3 DEF SendResponse
        <5>2. Tail(q) \in Seq(Responses) /\ Len(Tail(q)) <= scenario.responses
          BY <1>0, <2>0, <5>1
        <5> QED
          BY <1>0, <2>types, <5>1, <5>2, QueueUpdate
      <4>4. CASE highPrioQueue' = highPrioQueue
        BY <2>types, <4>4
      <4> QED
        BY <4>1, <4>2, <4>3, <4>4 DEF queues, connectionHandlingThread,
          ReceiveNothing, ReceiveError, ReceiveInvalid, ReceiveS, ReceiveI, Respond,
          EnqueueResponse, ReceiveStartDT, LockForActivation, CloseActive,
          RequeueClosed, FlagClosed, UnlockAfterActivation, MasterConnection_activate,
          SendStartDTCon, ReceiveStopDT, SendStopDTCon, HandleTimeouts, SendResponse,
          FetchEvent, TransmitEvent, NothingToSend, LeaveLoop, RequeueOnExit
    <3> QED
      BY <1>0, <2>2, <3>1 DEF Responses, QueueTypes, Conns, Events
  <2> QED
    BY <2>1, <2>2 DEF queues, history, connectionHandlingThread, ReceiveNothing,
      ReceiveError, ReceiveInvalid, ReceiveS, ReceiveI, Respond, EnqueueResponse,
      ReceiveStartDT, LockForActivation, CloseActive, RequeueClosed, FlagClosed,
      UnlockAfterActivation, MasterConnection_activate, SendStartDTCon, ReceiveStopDT,
      SendStopDTCon, HandleTimeouts, SendResponse, FetchEvent, TransmitEvent,
      NothingToSend, LeaveLoop, RequeueOnExit
<1> QED
  BY <1>1, <1>2, <1>3, <1>4, <1>5

(* The same for the server thread, the application, and a stop and a start. *)
LEMMA ServerTypeOK ==
  ASSUME TypeOK, OtherStep
  PROVE  TypeOK'
<1> USE SlaveAssumption DEF TypeOK
<1>0. scenario' = scenario
  BY DEF stopVars, serverThread, AcceptConnection, MasterConnection_start,
    LockConnections, CheckConnection, JoinThread, FreeConnection,
    CS104_Slave_enqueueASDU, IMasterConnection_close, StopServer, CS104_Slave_stop,
    StopConnection, JoinStopped, CountStopped, CS104_Slave_start, OtherStep
<1>1. ConnTypes'
  <2>1. CASE AcceptConnection
    BY <2>1 DEF ConnTypes, conVars, Conns, MasterConnection_init, AcceptConnection
  <2>2. CASE ~AcceptConnection
    BY <2>2 DEF ConnTypes, conVars, Conns, StopRunning, MasterConnection_close,
      MasterConnection_deinit, serverThread, AcceptConnection, MasterConnection_start,
      LockConnections, CheckConnection, JoinThread, FreeConnection,
      CS104_Slave_enqueueASDU, IMasterConnection_close, StopServer, CS104_Slave_stop,
      StopConnection, JoinStopped, CountStopped, CS104_Slave_start, OtherStep
  <2> QED
    BY <2>1, <2>2
<1>2. BufferTypes'
  <2>1. CASE AcceptConnection
    BY <1>0, <2>1 DEF BufferTypes, AcceptConnection, MasterConnection_init, Events,
      Conns
  <2>2. CASE UNCHANGED sentASDUs
    BY <1>0, <2>2 DEF BufferTypes, Events, Conns
  <2> QED
    BY <2>1, <2>2 DEF conVars, serverThread, AcceptConnection, MasterConnection_start,
      LockConnections, CheckConnection, JoinThread, FreeConnection,
      CS104_Slave_enqueueASDU, IMasterConnection_close, StopServer, CS104_Slave_stop,
      StopConnection, JoinStopped, CountStopped, CS104_Slave_start, OtherStep
<1>3. ThreadTypes'
  <2>1. server.i \in Conns
    BY DEF ServerTypes
  <2>2. CASE \E l \in Labels : Goto(server.i, l)
    BY <1>0, <2>1, <2>2 DEF Goto, ThreadTypes, Conns, Events
  <2>3. CASE UNCHANGED threads
    BY <1>0, <2>3 DEF threads, ThreadTypes, Conns, Events
  <2> QED
    BY <2>2, <2>3 DEF Labels, threads, serverThread, AcceptConnection,
      MasterConnection_start, LockConnections, CheckConnection, JoinThread,
      FreeConnection, CS104_Slave_enqueueASDU, IMasterConnection_close, StopServer,
      CS104_Slave_stop, StopConnection, JoinStopped, CountStopped, CS104_Slave_start,
      OtherStep
<1>4. ServerTypes'
  <2>1. CASE AcceptConnection /\ UNCHANGED stopVars
    <3>1. PICK c \in Conns : server' = [pc |-> "start", i |-> c]
      BY <2>1 DEF AcceptConnection
    <3>2. openConnections' \in Int /\ openConnections' <= N
      BY <2>1 DEF AcceptConnection, ServerTypes
    <3> QED
      BY <1>0, <2>1, <3>1, <3>2 DEF AcceptConnection, ServerTypes, stopVars, Server
  <2>2. CASE CountStopped \/ StopServer \/ StopConnection \/ JoinStopped \/ CS104_Slave_start
    BY SMTT(20), <1>0, <2>2 DEF ServerTypes, stopVars, serverVars, Conns, Server, NextToStop,
      CountStopped, StopServer, StopConnection, JoinStopped, CS104_Slave_start
  <2>3. CASE ~AcceptConnection /\ serverThread /\ UNCHANGED stopVars
    BY SMTT(20), <1>0, <2>3 DEF ServerTypes, stopVars, Conns, Server, serverThread,
      AcceptConnection, MasterConnection_start, LockConnections, CheckConnection,
      JoinThread, FreeConnection, CS104_Slave_enqueueASDU, IMasterConnection_close,
      StopServer, CS104_Slave_stop, StopConnection, JoinStopped, CountStopped,
      CS104_Slave_start, OtherStep
  <2>4. CASE UNCHANGED <<serverVars, lock, stopVars>>
    BY <1>0, <2>4 DEF ServerTypes, stopVars, serverVars, Conns, Server
  <2> QED
    BY <2>1, <2>2, <2>3, <2>4 DEF serverThread, AcceptConnection,
      MasterConnection_start, LockConnections, CheckConnection, JoinThread,
      FreeConnection, CS104_Slave_enqueueASDU, IMasterConnection_close, StopServer,
      CS104_Slave_stop, StopConnection, JoinStopped, CountStopped, CS104_Slave_start,
      OtherStep
<1>5. QueueTypes'
  <2>1. scenario.responses \in Nat
    BY DEF ServerTypes
  <2>2. CASE AcceptConnection
    <3>1. /\ highPrioQueue' \in [Groups -> Seq([con : Conns, late : BOOLEAN])]
          /\ \A g \in Groups : Len(highPrioQueue'[g]) <= scenario.responses
      <4> DEFINE T == [con : Conns, late : BOOLEAN]
      <4>1. PICK g \in Groups : highPrioQueue' = [highPrioQueue EXCEPT ![g] = <<>>]
        BY <2>2 DEF AcceptConnection, MasterConnection_init
      <4>2. highPrioQueue \in [Groups -> Seq(T)] /\ \A h \in Groups : Len(highPrioQueue[h]) <= scenario.responses
        BY DEF QueueTypes
      <4> HIDE DEF T
      <4>3. <<>> \in Seq(T) /\ Len(<<>>) <= scenario.responses
        BY <2>1
      <4>4. /\ highPrioQueue' \in [Groups -> Seq(T)]
            /\ \A h \in Groups : Len(highPrioQueue'[h]) <= scenario.responses
        BY <2>1, <4>1, <4>2, <4>3, QueueUpdate
      <4> QED
        BY <4>4 DEF T
    <3> QED
      BY <1>0, <2>2, <3>1 DEF AcceptConnection, QueueTypes, history, Conns, Events
  <2>3. CASE CS104_Slave_enqueueASDU
    <3>1. PICK e \in Events : lowPrioQueue' = [g \in Groups |-> [lowPrioQueue[g] EXCEPT ![e] = "waiting"]]
      BY <2>3 DEF CS104_Slave_enqueueASDU
    <3> QED
      BY <1>0, <2>3, <3>1 DEF CS104_Slave_enqueueASDU, QueueTypes, history, Conns,
        Events
  <2>4. CASE CS104_Slave_start /\ ~UNCHANGED <<queues, history>>
    <3>1. highPrioQueue' = [g \in Groups |-> <<>>]
      BY <2>4 DEF CS104_Slave_start
    <3>2. /\ highPrioQueue' \in [Groups -> Seq([con : Conns, late : BOOLEAN])]
          /\ \A g \in Groups : Len(highPrioQueue'[g]) <= scenario.responses
      BY <2>1, <3>1
    <3> QED
      BY <1>0, <2>4, <3>2 DEF CS104_Slave_start, QueueTypes, Conns, Events
  <2>5. CASE UNCHANGED <<queues, history>>
    BY <1>0, <2>5 DEF QueueTypes, queues, history, Conns, Events
  <2> QED
    BY <2>2, <2>3, <2>4, <2>5 DEF queues, serverThread, AcceptConnection,
      MasterConnection_start, LockConnections, CheckConnection, JoinThread,
      FreeConnection, CS104_Slave_enqueueASDU, IMasterConnection_close, StopServer,
      CS104_Slave_stop, StopConnection, JoinStopped, CountStopped, CS104_Slave_start,
      OtherStep
<1> QED
  BY <1>1, <1>2, <1>3, <1>4, <1>5

-----------------------------------------------------------------------------
(* What the steps have in common                                           *)

(* A step that is none of the server thread's.                             *)
NoServerStep ==
  /\ UNCHANGED <<isUsed, serverVars, miscount>>
  /\ \A d \in Conns : /\ isRunning'[d] => isRunning[d]
                      /\ At(d, "none")' <=> At(d, "none")

(* A step that brings no connection nearer to being the active one.        *)
CalmStep ==
  /\ raced' = raced
  /\ \A g \in Groups : Active(g)' \subseteq Active(g)
  /\ \A d \in Conns :
       /\ pc'[d] \in Locked <=> pc[d] \in Locked
       /\ At(d, "activate")' => At(d, "activate")
       /\ \A e \in Conns : Scanned(d, e)' => Scanned(d, e)
       /\ group'[d] = group[d] \/ At(d, "none")'

(* The steps in which a connection becomes the active one.                 *)
ActivationStep(c) ==
  \/ LockForActivation(c) \/ CloseActive(c)
  \/ UnlockAfterActivation(c) \/ MasterConnection_activate(c)

(* A step of a connection's thread leaves the listening thread where it    *)
(* is.                                                                     *)
LEMMA ThreadIsNoServerStep ==
  ASSUME TypeOK, NEW c \in Conns, connectionHandlingThread(c), UNCHANGED stopVars
  PROVE  NoServerStep
<1>1. \A d \in Conns : isRunning'[d] => isRunning[d]
  BY DEF TypeOK, ConnTypes, conVars, Write, StopRunning, MasterConnection_close,
    connectionHandlingThread, ReceiveNothing, ReceiveError, ReceiveInvalid, ReceiveS,
    ReceiveI, Respond, EnqueueResponse, ReceiveStartDT, LockForActivation,
    CloseActive, RequeueClosed, FlagClosed, UnlockAfterActivation,
    MasterConnection_activate, SendStartDTCon, ReceiveStopDT, SendStopDTCon,
    HandleTimeouts, SendResponse, FetchEvent, TransmitEvent, NothingToSend, LeaveLoop,
    RequeueOnExit
<1>2. ThreadTypes
  BY DEF TypeOK
<1>3. \A d \in Conns : At(d, "none")' <=> At(d, "none")
  BY <1>2 DEF ThreadTypes, At, Goto, NextIteration, connectionHandlingThread,
    ReceiveNothing, ReceiveError, ReceiveInvalid, ReceiveS, ReceiveI, Respond,
    EnqueueResponse, ReceiveStartDT, LockForActivation, CloseActive, RequeueClosed,
    FlagClosed, UnlockAfterActivation, MasterConnection_activate, SendStartDTCon,
    ReceiveStopDT, SendStopDTCon, HandleTimeouts, SendResponse, FetchEvent,
    TransmitEvent, NothingToSend, LeaveLoop, RequeueOnExit
<1> QED
  BY <1>1, <1>3 DEF NoServerStep, conVars, serverVars, stopVars,
    connectionHandlingThread, ReceiveNothing, ReceiveError, ReceiveInvalid, ReceiveS,
    ReceiveI, Respond, EnqueueResponse, ReceiveStartDT, LockForActivation,
    CloseActive, RequeueClosed, FlagClosed, UnlockAfterActivation,
    MasterConnection_activate, SendStartDTCon, ReceiveStopDT, SendStopDTCon,
    HandleTimeouts, SendResponse, FetchEvent, TransmitEvent, NothingToSend, LeaveLoop,
    RequeueOnExit

(* A step of a connection's thread that is not the handling of a STARTDT   *)
(* activates no connection.                                                *)
LEMMA ThreadIsCalm ==
  ASSUME TypeOK, ThreadsOK, NEW c \in Conns, connectionHandlingThread(c), ~ActivationStep(c)
  PROVE  CalmStep
<1>0. ThreadTypes /\ ConnTypes /\ raced' = raced /\ group' = group
  BY DEF TypeOK, ActivationStep, conVars, history, Acknowledge, RequeueAll,
    connectionHandlingThread, ReceiveNothing, ReceiveError, ReceiveInvalid, ReceiveS,
    ReceiveI, Respond, EnqueueResponse, ReceiveStartDT, LockForActivation,
    CloseActive, RequeueClosed, FlagClosed, UnlockAfterActivation,
    MasterConnection_activate, SendStartDTCon, ReceiveStopDT, SendStopDTCon,
    HandleTimeouts, SendResponse, FetchEvent, TransmitEvent, NothingToSend, LeaveLoop,
    RequeueOnExit
<1>1. \A d \in Conns : state'[d] = "STARTED" => state[d] = "STARTED"
  BY <1>0 DEF ConnTypes, conVars, MasterConnection_deactivate, isActive,
    ActivationStep, connectionHandlingThread, ReceiveNothing, ReceiveError,
    ReceiveInvalid, ReceiveS, ReceiveI, Respond, EnqueueResponse, ReceiveStartDT,
    LockForActivation, CloseActive, RequeueClosed, FlagClosed, UnlockAfterActivation,
    MasterConnection_activate, SendStartDTCon, ReceiveStopDT, SendStopDTCon,
    HandleTimeouts, SendResponse, FetchEvent, TransmitEvent, NothingToSend, LeaveLoop,
    RequeueOnExit
<1>2. \A g \in Groups : Active(g)' \subseteq Active(g)
  <2>1. isUsed' = isUsed /\ \A d \in Conns : isRunning'[d] => isRunning[d]
    BY <1>0 DEF ConnTypes, conVars, Write, StopRunning, ActivationStep,
      connectionHandlingThread, ReceiveNothing, ReceiveError, ReceiveInvalid,
      ReceiveS, ReceiveI, Respond, EnqueueResponse, ReceiveStartDT, LockForActivation,
      CloseActive, RequeueClosed, FlagClosed, UnlockAfterActivation,
      MasterConnection_activate, SendStartDTCon, ReceiveStopDT, SendStopDTCon,
      HandleTimeouts, SendResponse, FetchEvent, TransmitEvent, NothingToSend,
      LeaveLoop, RequeueOnExit
  <2> QED
    BY <1>0, <1>1, <2>1 DEF Active, isActive, Conns
<1>3. ASSUME NEW d \in Conns
      PROVE  /\ pc'[d] \in Locked <=> pc[d] \in Locked
             /\ At(d, "activate")' => At(d, "activate")
             /\ \A e \in Conns : Scanned(d, e)' => Scanned(d, e)
  <2>1. CASE d # c
    <3>1. pc'[d] = pc[d] /\ arg'[d] = arg[d]
      BY <1>0, <2>1 DEF ThreadTypes, Goto, NextIteration, ActivationStep,
        connectionHandlingThread, ReceiveNothing, ReceiveError, ReceiveInvalid,
        ReceiveS, ReceiveI, Respond, EnqueueResponse, ReceiveStartDT,
        LockForActivation, CloseActive, RequeueClosed, FlagClosed,
        UnlockAfterActivation, MasterConnection_activate, SendStartDTCon,
        ReceiveStopDT, SendStopDTCon, HandleTimeouts, SendResponse, FetchEvent,
        TransmitEvent, NothingToSend, LeaveLoop, RequeueOnExit
    <3> QED
      BY <3>1 DEF Scanned, At
  <2>2. CASE d = c /\ RequeueClosed(c)
    BY <1>0, <2>2 DEF ThreadTypes, RequeueClosed, Scanned, At, Locked
  <2>3. CASE d = c /\ FlagClosed(c)
    BY <1>0, <2>3 DEF ThreadTypes, ThreadsOK, FlagClosed, Scanned, At, Locked, Conns
  <2>4. CASE d = c /\ ~RequeueClosed(c) /\ ~FlagClosed(c)
    <3>1. pc[c] \notin Locked /\ pc'[c] \notin Locked \cup {"activate"}
      BY <1>0, <2>4 DEF ThreadTypes, Goto, NextIteration, At, Locked, ActivationStep,
        connectionHandlingThread, ReceiveNothing, ReceiveError, ReceiveInvalid,
        ReceiveS, ReceiveI, Respond, EnqueueResponse, ReceiveStartDT,
        LockForActivation, CloseActive, RequeueClosed, FlagClosed,
        UnlockAfterActivation, MasterConnection_activate, SendStartDTCon,
        ReceiveStopDT, SendStopDTCon, HandleTimeouts, SendResponse, FetchEvent,
        TransmitEvent, NothingToSend, LeaveLoop, RequeueOnExit
    <3> QED
      BY <2>4, <3>1 DEF Scanned, At, Locked
  <2> QED
    BY <2>1, <2>2, <2>3, <2>4
<1> QED
  BY <1>0, <1>2, <1>3 DEF CalmStep

(* Steps of the listening thread, the application and the clients          *)
(* activate no connection.                                                 *)
LEMMA OtherIsCalm ==
  ASSUME TypeOK, ServerOK, OpenConnectionsExact, OtherStep
  PROVE  CalmStep
<1>0. ThreadTypes /\ ConnTypes /\ server.i \in Conns /\ raced' = raced
  BY DEF TypeOK, ServerTypes, history, serverThread, AcceptConnection,
    MasterConnection_start, LockConnections, CheckConnection, JoinThread,
    FreeConnection, CS104_Slave_enqueueASDU, IMasterConnection_close, StopServer,
    CS104_Slave_stop, StopConnection, JoinStopped, CountStopped, CS104_Slave_start,
    OtherStep
<1>1. ASSUME NEW d \in Conns
      PROVE  /\ pc'[d] \in Locked <=> pc[d] \in Locked
             /\ At(d, "activate")' => At(d, "activate")
             /\ \A e \in Conns : Scanned(d, e)' => Scanned(d, e)
  <2>1. \/ pc'[d] = pc[d] /\ arg'[d] = arg[d]
        \/ pc[d] \in {"none", "done"} /\ pc'[d] \in {"none", "receive"}
    BY <1>0 DEF ThreadTypes, ServerOK, threads, At, Goto, serverThread,
      AcceptConnection, MasterConnection_start, LockConnections, CheckConnection,
      JoinThread, FreeConnection, CS104_Slave_enqueueASDU, IMasterConnection_close,
      StopServer, CS104_Slave_stop, StopConnection, JoinStopped, CountStopped,
      CS104_Slave_start, OtherStep
  <2> QED
    BY <2>1 DEF Scanned, At, Locked
<1>2. CASE AcceptConnection
  <2>1. PICK c \in Conns, g \in Groups : /\ ~isUsed[c]
                                         /\ isUsed' = [isUsed EXCEPT ![c] = TRUE]
                                         /\ MasterConnection_init(c, g)
    BY <1>2 DEF AcceptConnection, getFreeConnection
  <2>2. pc' = pc /\ state' = state
    BY <1>2 DEF AcceptConnection, threads
  <2>3. At(c, "none")
    BY <2>1 DEF OpenConnectionsExact
  <2>4. \A h \in Groups : Active(h)' \subseteq Active(h)
    BY <1>0, <2>1, <2>2 DEF ConnTypes, MasterConnection_init, Active, isActive, Conns
  <2>5. \A d \in Conns : group'[d] = group[d] \/ At(d, "none")'
    BY <1>0, <2>1, <2>2, <2>3 DEF ConnTypes, MasterConnection_init, At
  <2> QED
    BY <1>0, <1>1, <2>4, <2>5 DEF CalmStep
<1>3. CASE ~AcceptConnection
  <2>1. group' = group
    BY <1>3 DEF conVars, serverThread, AcceptConnection, MasterConnection_start,
      LockConnections, CheckConnection, JoinThread, FreeConnection,
      CS104_Slave_enqueueASDU, IMasterConnection_close, StopServer, CS104_Slave_stop,
      StopConnection, JoinStopped, CountStopped, CS104_Slave_start, OtherStep
  <2>2. \A d \in Conns : d \notin Active(group[d]) => d \notin Active(group[d])'
    BY <1>0, <1>3 DEF ConnTypes, conVars, StopRunning, MasterConnection_close,
      MasterConnection_deinit, Active, isActive, Conns, serverThread,
      AcceptConnection, MasterConnection_start, LockConnections, CheckConnection,
      JoinThread, FreeConnection, CS104_Slave_enqueueASDU, IMasterConnection_close,
      StopServer, CS104_Slave_stop, StopConnection, JoinStopped, CountStopped,
      CS104_Slave_start, OtherStep
  <2>3. \A g \in Groups : Active(g)' \subseteq Active(g)
    BY <2>1, <2>2 DEF Active, Conns
  <2> QED
    BY <1>0, <1>1, <2>1, <2>3 DEF CalmStep
<1> QED
  BY <1>2, <1>3

-----------------------------------------------------------------------------
(* One active connection of a group                                        *)

(* A calm step leaves the order of the activations as it is.               *)
LEMMA CalmActivation ==
  ASSUME TypeOK', ActivationOK, OneActiveUnlessRaced, CalmStep
  PROVE  ActivationOK' /\ OneActiveUnlessRaced'
<1> USE DEF CalmStep
<1>1. OneActiveUnlessRaced'
  BY DEF OneActiveUnlessRaced
<1>2. ASSUME NEW c \in Conns, NEW d \in Conns \ {c}, (group[d] = group[c] /\ ~raced[group[c]])'
      PROVE  /\ At(c, "activate")' => pc'[d] \notin Locked \cup {"activate"}
             /\ Scanned(c, d)' => d \notin Active(group[c])'
  <2>0. group'[c] \in Groups
    BY DEF TypeOK, ConnTypes
  <2>1. ASSUME At(c, "activate")', pc'[d] \in Locked \cup {"activate"}
        PROVE  FALSE
    <3>1. At(c, "activate") /\ pc[d] \in Locked \cup {"activate"}
      BY <2>1 DEF At
    <3>2. group'[c] = group[c] /\ group'[d] = group[d]
      BY <2>1 DEF At, Locked
    <3> QED
      BY <1>2, <3>1, <3>2 DEF ActivationOK
  <2>2. ASSUME Scanned(c, d)', d \in Active(group[c])'
        PROVE  FALSE
    <3>1. Scanned(c, d) /\ d \in Active(group'[c])
      BY <2>0, <2>2
    <3>2. group'[c] = group[c]
      BY <2>2 DEF Scanned, At
    <3>3. group[d] = group[c]
      BY <3>1, <3>2 DEF Active
    <3> QED
      BY <1>2, <3>1, <3>2, <3>3 DEF ActivationOK
  <2> QED
    BY <2>1, <2>2
<1> QED
  BY <1>1, <1>2 DEF ActivationOK

(* The steps of an activation keep the order among those that race not.    *)
LEMMA ActivationPreserved ==
  ASSUME TypeOK, ThreadsOK, LockOK, ActivationOK, OneActiveUnlessRaced,
         NEW c \in Conns, ActivationStep(c)
  PROVE  ActivationOK' /\ OneActiveUnlessRaced'
<1>0. /\ ThreadTypes /\ ConnTypes /\ raced \in [Groups -> BOOLEAN] /\ lock \in 0..Server
      /\ group' = group /\ isUsed' = isUsed /\ group[c] \in Groups
      /\ c \in 1..N /\ N \in Nat
  BY SlaveAssumption DEF TypeOK, ConnTypes, ServerTypes, QueueTypes, Conns, conVars,
    ActivationStep, LockForActivation, CloseActive, UnlockAfterActivation,
    MasterConnection_activate
<1>1. CASE LockForActivation(c)
  <2>1. /\ pc' = [pc EXCEPT ![c] = "scan"] /\ arg' = [arg EXCEPT ![c] = 1]
        /\ isRunning' = isRunning /\ state' = state /\ lock = 0
        /\ \A g \in Groups : raced[g] => raced'[g]
    BY <1>0, <1>1 DEF LockForActivation, conVars
  <2>2. \A d \in Conns \ {c} : group[d] = group[c] /\ ~raced'[group[c]] => ~At(d, "activate")
    BY <1>0, <1>1 DEF LockForActivation
  <2>3. \A g \in Groups : Active(g)' = Active(g)
    BY <1>0, <2>1 DEF Active, isActive
  <2>4. OneActiveUnlessRaced'
    BY <2>1, <2>3 DEF OneActiveUnlessRaced
  <2>5. \A a, d \in Conns : Scanned(a, d)' => Scanned(a, d) /\ a # c
    BY <1>0, <2>1 DEF ThreadTypes, Scanned, At, Conns
  <2>6. ASSUME NEW a \in Conns, NEW d \in Conns \ {a}, (group[d] = group[a] /\ ~raced[group[a]])'
        PROVE  /\ At(a, "activate")' => pc'[d] \notin Locked \cup {"activate"}
               /\ Scanned(a, d)' => d \notin Active(group[a])'
    <3>0. group[a] \in Groups /\ ~raced[group[a]] /\ group[d] = group[a]
      BY <1>0, <2>1, <2>6 DEF ConnTypes
    <3>1. Scanned(a, d)' => d \notin Active(group[a])'
      BY <1>0, <2>3, <2>5, <3>0 DEF ActivationOK
    <3>2. At(a, "activate")' => pc'[d] \notin Locked \cup {"activate"}
      BY <1>0, <2>1, <2>2, <2>6, <3>0 DEF ActivationOK, ThreadTypes, At
    <3> QED
      BY <3>1, <3>2
  <2> QED
    BY <2>4, <2>6 DEF ActivationOK
<1>2. CASE CloseActive(c)
  <2>1. /\ raced' = raced /\ At(c, "scan") /\ arg[c] \in 1..N
        /\ \A g \in Groups : Active(g)' \subseteq Active(g)
    BY <1>0, <1>2 DEF CloseActive, history, MasterConnection_close, StopRunning,
      ConnTypes, Active, isActive, Conns, ThreadsOK
  <2>2. arg[c] \in Conns \ {c} => arg[c] \notin Active(group[c])'
    BY <1>0, <1>2, <2>1 DEF CloseActive, MasterConnection_close, StopRunning,
      ConnTypes, Active, isActive, Conns
  <2>3. \A d \in Conns : At(d, "activate")' => At(d, "activate")
    BY <1>0, <1>2 DEF CloseActive, ThreadTypes, At
  <2>4. \A d \in Conns : pc'[d] \in Locked => pc[d] \in Locked
    BY <1>0, <1>2 DEF CloseActive, ThreadTypes, At, Locked
  <2>5. \A a, d \in Conns : Scanned(a, d)' => Scanned(a, d) \/ (a = c /\ d = arg[c])
    BY <1>0, <1>2, <2>1 DEF CloseActive, ThreadTypes, Scanned, At, Conns
  <2>6. OneActiveUnlessRaced'
    BY <2>1 DEF OneActiveUnlessRaced
  <2>7. ASSUME NEW a \in Conns, NEW d \in Conns \ {a}, (group[d] = group[a] /\ ~raced[group[a]])'
        PROVE  /\ At(a, "activate")' => pc'[d] \notin Locked \cup {"activate"}
               /\ Scanned(a, d)' => d \notin Active(group[a])'
    <3>0. group[a] \in Groups /\ ~raced[group[a]] /\ group[d] = group[a]
      BY <1>0, <2>1, <2>7 DEF ConnTypes
    <3>1. Scanned(a, d)' => d \notin Active(group[a])'
      BY <1>0, <2>1, <2>2, <2>5, <3>0 DEF ActivationOK
    <3>2. At(a, "activate")' => pc'[d] \notin Locked \cup {"activate"}
      BY <2>3, <2>4, <3>0 DEF ActivationOK, At
    <3> QED
      BY <3>1, <3>2
  <2> QED
    BY <2>6, <2>7 DEF ActivationOK
<1>3. CASE UnlockAfterActivation(c)
  <2>1. /\ raced' = raced /\ At(c, "scan") /\ arg[c] = N + 1 /\ lock = c
        /\ isRunning' = isRunning /\ state' = state
        /\ pc' = [pc EXCEPT ![c] = "activate"] /\ arg' = [arg EXCEPT ![c] = 0]
    BY <1>0, <1>3 DEF UnlockAfterActivation, Goto, history, conVars, LockOK, Locked, At
  <2>2. \A d \in Conns \ {c} : pc[d] \notin Locked
    BY <1>0, <2>1 DEF LockOK
  <2>3. \A g \in Groups : Active(g)' = Active(g)
    BY <1>0, <2>1 DEF Active, isActive
  <2>4. \A a, d \in Conns : Scanned(a, d)' => Scanned(a, d)
    BY <1>0, <2>1 DEF ThreadTypes, Scanned, At, Conns
  <2>5. OneActiveUnlessRaced'
    BY <2>1, <2>3 DEF OneActiveUnlessRaced
  <2>6. ASSUME NEW a \in Conns, NEW d \in Conns \ {a}, (group[d] = group[a] /\ ~raced[group[a]])'
        PROVE  /\ At(a, "activate")' => pc'[d] \notin Locked \cup {"activate"}
               /\ Scanned(a, d)' => d \notin Active(group[a])'
    <3>0. group[a] \in Groups /\ ~raced[group[a]] /\ group[d] = group[a]
      BY <1>0, <2>1, <2>6 DEF ConnTypes
    <3>1. Scanned(a, d)' => d \notin Active(group[a])'
      BY <1>0, <2>3, <2>4, <3>0 DEF ActivationOK
    <3>2. d # c /\ group[d] = group[c] => ~At(d, "activate")
      <4>1. pc[c] \in Locked
        BY <2>1 DEF At, Locked
      <4> QED
        BY <1>0, <2>6, <3>0, <4>1 DEF ActivationOK
    <3>3. a # c /\ group[a] = group[c] => ~At(a, "activate")
      <4>1. pc[c] \in Locked
        BY <2>1 DEF At, Locked
      <4> QED
        BY <1>0, <2>6, <3>0, <4>1 DEF ActivationOK
    <3>4. At(a, "activate")' => pc'[d] \notin Locked \cup {"activate"}
      BY <1>0, <2>1, <2>2, <2>6, <3>0, <3>2, <3>3 DEF ActivationOK, ThreadTypes, At,
        Locked
    <3> QED
      BY <3>1, <3>4
  <2> QED
    BY <2>5, <2>6 DEF ActivationOK
<1>4. CASE MasterConnection_activate(c)
  <2>1. /\ raced' = raced /\ At(c, "activate")
        /\ pc' = [pc EXCEPT ![c] = "startdt_con"] /\ arg' = [arg EXCEPT ![c] = 0]
        /\ \A g \in Groups : Active(g)' \subseteq Active(g) \cup {c}
        /\ \A g \in Groups \ {group[c]} : Active(g)' \subseteq Active(g)
    BY <1>0, <1>4 DEF MasterConnection_activate, Goto, history, Active, isActive,
      ConnTypes, Conns
  <2>2. \A a, d \in Conns : Scanned(a, d)' => Scanned(a, d) /\ a # c
    BY <1>0, <2>1 DEF ThreadTypes, Scanned, At, Conns
  <2>3. \A d \in Conns \ {c} : group[d] = group[c] /\ ~raced[group[c]] =>
            d \notin Active(group[c]) /\ pc[d] \notin Locked \cup {"activate"}
    BY <1>0, <2>1 DEF ActivationOK, Scanned
  <2>4. OneActiveUnlessRaced'
    <3> SUFFICES ASSUME NEW g \in Groups, ~raced[g], NEW a \in Active(g)', NEW d \in Active(g)'
                 PROVE  a = d
      BY <1>0, <2>1 DEF OneActiveUnlessRaced, Active, Conns
    <3>1. \A b \in Active(g) : b \in Conns /\ group[b] = g
      BY DEF Active
    <3>2. \A b \in Active(g)' : b \in Conns /\ group[b] = g
      BY <1>0 DEF Active, Conns
    <3> QED
      BY <2>1, <2>3, <3>1, <3>2 DEF OneActiveUnlessRaced
  <2>5. ASSUME NEW a \in Conns, NEW d \in Conns \ {a}, (group[d] = group[a] /\ ~raced[group[a]])'
        PROVE  /\ At(a, "activate")' => pc'[d] \notin Locked \cup {"activate"}
               /\ Scanned(a, d)' => d \notin Active(group[a])'
    <3>0. group[a] \in Groups /\ ~raced[group[a]] /\ group[d] = group[a]
      BY <1>0, <2>1, <2>5 DEF ConnTypes
    <3>1. d # c => (Scanned(a, d)' => d \notin Active(group[a])')
      BY <1>0, <2>1, <2>2, <3>0 DEF ActivationOK
    <3>2. d = c => ~Scanned(a, d)'
      BY <2>2, <2>3, <2>5, <3>0 DEF Scanned, At, Locked
    <3>3. At(a, "activate")' => pc'[d] \notin Locked \cup {"activate"}
      BY <1>0, <2>1, <2>5, <3>0 DEF ActivationOK, ThreadTypes, At, Locked
    <3> QED
      BY <3>1, <3>2, <3>3
  <2> QED
    BY <2>4, <2>5 DEF ActivationOK
<1> QED
  BY <1>1, <1>2, <1>3, <1>4 DEF ActivationStep

-----------------------------------------------------------------------------
(* The server thread's own invariants                                      *)

(* The steps of the connections' threads do not disturb them.              *)
LEMMA NoServerStepPreserves ==
  ASSUME ServerOK, OpenConnectionsExact, NoServerStep, TypeOK
  PROVE  ServerOK' /\ OpenConnectionsExact'
<1>0. server.i \in Conns
  BY DEF TypeOK, ServerTypes
<1>1. ServerOK'
  BY <1>0 DEF ServerOK, NoServerStep, serverVars
<1>2. {c \in Conns : isUsed[c]}' = {c \in Conns : isUsed[c]}
  BY DEF NoServerStep, Conns
<1> QED
  BY <1>1, <1>2 DEF OpenConnectionsExact, NoServerStep, serverVars

(* openConnectionsLock is taken when it is free and released by its holder. *)
LEMMA LockPreserved ==
  ASSUME TypeOK, ThreadsOK, ServerOK, LockOK, OpenConnectionsExact,
         \/ OtherStep
         \/ \E c \in Conns : connectionHandlingThread(c) /\ UNCHANGED stopVars
  PROVE  LockOK'
<1>0. /\ ThreadTypes /\ ConnTypes /\ lock \in 0..Server /\ N \in Nat
      /\ server \in [pc : {"accept", "start", "lock", "reap", "join", "free",
                           "stop_close", "stop_join", "stop_count", "stopped"}, i : Conns]
  BY SlaveAssumption DEF TypeOK, ServerTypes
<1>1. CASE OtherStep
  <2>0. CalmStep
    BY <1>1, OtherIsCalm
  <2>1. (server.pc = "reap" <=> lock = Server)'
    BY <1>0, <1>1 DEF LockOK, serverVars, NextToStop, Server, Conns, serverThread,
      AcceptConnection, MasterConnection_start, LockConnections, CheckConnection,
      JoinThread, FreeConnection, CS104_Slave_enqueueASDU, IMasterConnection_close,
      StopServer, CS104_Slave_stop, StopConnection, JoinStopped, CountStopped,
      CS104_Slave_start, OtherStep
  <2>2. lock' = lock \/ (lock \in {0, Server} /\ lock' \in {0, Server})
    BY <1>0, <1>1 DEF LockOK, serverVars, serverThread, AcceptConnection,
      MasterConnection_start, LockConnections, CheckConnection, JoinThread,
      FreeConnection, CS104_Slave_enqueueASDU, IMasterConnection_close, StopServer,
      CS104_Slave_stop, StopConnection, JoinStopped, CountStopped, CS104_Slave_start,
      OtherStep
  <2> QED
    BY <1>0, <2>0, <2>1, <2>2 DEF LockOK, CalmStep, Server, Conns
<1>2. CASE \E c \in Conns : connectionHandlingThread(c) /\ UNCHANGED stopVars
  <2>1. PICK c \in Conns : connectionHandlingThread(c) /\ UNCHANGED stopVars
    BY <1>2
  <2>2. server' = server
    BY <2>1, ThreadIsNoServerStep DEF NoServerStep, serverVars
  <2>3. CASE ~ActivationStep(c)
    <3>1. CalmStep
      BY <2>1, <2>3, ThreadIsCalm
    <3>2. lock' = lock
      BY <2>1, <2>3 DEF ActivationStep, connectionHandlingThread, ReceiveNothing,
        ReceiveError, ReceiveInvalid, ReceiveS, ReceiveI, Respond, EnqueueResponse,
        ReceiveStartDT, LockForActivation, CloseActive, RequeueClosed, FlagClosed,
        UnlockAfterActivation, MasterConnection_activate, SendStartDTCon,
        ReceiveStopDT, SendStopDTCon, HandleTimeouts, SendResponse, FetchEvent,
        TransmitEvent, NothingToSend, LeaveLoop, RequeueOnExit
    <3> QED
      BY <2>2, <3>1, <3>2 DEF LockOK, CalmStep, Server, Conns
  <2>4. CASE LockForActivation(c)
    BY <1>0, <2>2, <2>4 DEF LockForActivation, LockOK, Locked, ThreadTypes, Server,
      Conns, At
  <2>5. CASE UnlockAfterActivation(c)
    BY <1>0, <2>2, <2>5 DEF UnlockAfterActivation, Goto, LockOK, Locked, ThreadTypes,
      Server, Conns, At
  <2>6. CASE CloseActive(c) \/ MasterConnection_activate(c)
    BY <1>0, <2>2, <2>6 DEF CloseActive, MasterConnection_activate, Goto, LockOK,
      Locked, ThreadTypes, Server, Conns, At
  <2> QED
    BY <2>3, <2>4, <2>5, <2>6 DEF ActivationStep
<1> QED
  BY <1>1, <1>2

(* The slots in use are counted as the steps of the server thread say.     *)
LEMMA ServerPreserved ==
  ASSUME TypeOK, ServerOK, OpenConnectionsExact, OtherStep
  PROVE  ServerOK' /\ OpenConnectionsExact'
<1> DEFINE used == {c \in Conns : isUsed[c]}
<1>0. /\ ThreadTypes /\ ConnTypes /\ server.i \in Conns
      /\ openConnections \in Int /\ miscount \in Nat
      /\ server \in [pc : {"accept", "start", "lock", "reap", "join", "free",
                           "stop_close", "stop_join", "stop_count", "stopped"}, i : Conns]
  BY DEF TypeOK, ServerTypes
<1>1. IsFiniteSet(used) /\ Cardinality(used) \in Nat /\ openConnections = Cardinality(used) - miscount
  <2>1. IsFiniteSet(Conns)
    BY FS_Interval, SlaveAssumption DEF Conns
  <2> QED
    BY <2>1, FS_Subset, FS_CardinalityType DEF OpenConnectionsExact
<1>2. ServerOK'
  BY <1>0 DEF ServerOK, OpenConnectionsExact, ConnTypes, ThreadTypes, serverVars,
    threads, conVars, MasterConnection_init, getFreeConnection,
    MasterConnection_close, StopRunning, MasterConnection_deinit, NextToStop, Goto,
    At, serverThread, AcceptConnection, MasterConnection_start, LockConnections,
    CheckConnection, JoinThread, FreeConnection, CS104_Slave_enqueueASDU,
    IMasterConnection_close, StopServer, CS104_Slave_stop, StopConnection,
    JoinStopped, CountStopped, CS104_Slave_start, OtherStep
<1>3. ASSUME NEW c \in Conns
      PROVE  /\ (isUsed[c] /\ At(c, "none") =>
                   \/ server.pc \in {"start", "free", "stop_count"} /\ server.i = c
                   \/ miscount > 0 /\ ~isRunning[c])'
             /\ (~At(c, "none") => isUsed[c])'
  <2>1. CASE AcceptConnection /\ UNCHANGED stopVars
    BY <1>0, <1>3, <2>1 DEF stopVars, ServerOK, OpenConnectionsExact, ConnTypes,
      ThreadTypes, At, getFreeConnection, MasterConnection_init, threads, Conns,
      AcceptConnection
  <2>2. CASE MasterConnection_start /\ UNCHANGED stopVars
    BY <1>0, <1>3, <2>2 DEF ServerOK, OpenConnectionsExact, ConnTypes, ThreadTypes,
      At, Goto, stopVars, MasterConnection_start
  <2>3. CASE (LockConnections \/ CheckConnection) /\ UNCHANGED stopVars
    BY <1>0, <1>3, <2>3 DEF ServerOK, OpenConnectionsExact, ConnTypes, ThreadTypes,
      At, conVars, threads, stopVars, LockConnections, CheckConnection
  <2>4. CASE JoinThread /\ UNCHANGED stopVars
    BY <1>0, <1>3, <2>4 DEF stopVars, ServerOK, OpenConnectionsExact, ConnTypes,
      ThreadTypes, At, Goto, JoinThread
  <2>5. CASE FreeConnection /\ UNCHANGED stopVars
    BY <1>0, <1>3, <2>5 DEF ServerOK, OpenConnectionsExact, ConnTypes, ThreadTypes,
      At, threads, stopVars, FreeConnection
  <2>6. CASE StopServer \/ CS104_Slave_start
    BY <1>0, <1>3, <2>6 DEF ServerOK, OpenConnectionsExact, ConnTypes, ThreadTypes,
      At, conVars, threads, stopVars, StopServer, CS104_Slave_start
  <2>7. CASE StopConnection
    BY <1>0, <1>3, <2>7 DEF ServerOK, OpenConnectionsExact, ConnTypes, ThreadTypes,
      At, threads, stopVars, MasterConnection_close, StopRunning, NextToStop,
      StopConnection
  <2>8. CASE JoinStopped
    BY <1>0, <1>3, <2>8 DEF stopVars, ServerOK, OpenConnectionsExact, ConnTypes,
      ThreadTypes, At, conVars, Goto, JoinStopped
  <2>9. CASE CountStopped
    BY <1>0, <1>3, <2>9 DEF ServerOK, OpenConnectionsExact, ConnTypes, ThreadTypes,
      At, threads, NextToStop, CountStopped
  <2>10. CASE (CS104_Slave_enqueueASDU \/ \E d \in Conns : IMasterConnection_close(d)) /\ UNCHANGED stopVars
    BY <1>0, <1>3, <2>10 DEF ServerOK, OpenConnectionsExact, ConnTypes, ThreadTypes,
      At, conVars, threads, serverVars, stopVars, MasterConnection_close, StopRunning,
      CS104_Slave_enqueueASDU, IMasterConnection_close
  <2> QED
    BY <2>1, <2>2, <2>3, <2>4, <2>5, <2>6, <2>7, <2>8, <2>9, <2>10 DEF OtherStep,
      serverThread, CS104_Slave_stop
<1>4. openConnections' = Cardinality(used') - miscount'
  <2>1. CASE AcceptConnection /\ UNCHANGED stopVars
    <3>1. PICK c \in Conns : ~isUsed[c] /\ isUsed' = [isUsed EXCEPT ![c] = TRUE]
      BY <2>1 DEF AcceptConnection, getFreeConnection
    <3>2. used' = used \cup {c} /\ c \notin used
      BY <1>0, <3>1 DEF ConnTypes, Conns
    <3>3. Cardinality(used') = Cardinality(used) + 1
      BY <1>1, <3>2, FS_AddElement
    <3> QED
      BY <1>0, <1>1, <2>1, <3>3 DEF AcceptConnection, stopVars
  <2>2. CASE FreeConnection /\ UNCHANGED stopVars
    <3>1. used' = used \ {server.i} /\ server.i \in used
      BY <1>0, <2>2 DEF FreeConnection, ServerOK, ConnTypes, Conns
    <3>2. Cardinality(used') = Cardinality(used) - 1
      BY Zenon, <1>1, <3>1, FS_RemoveElement
    <3> QED
      BY <1>0, <1>1, <2>2, <3>2 DEF FreeConnection, stopVars
  <2>3. CASE ~AcceptConnection /\ ~FreeConnection
    <3>1. used' = used
      BY <2>3 DEF Conns, conVars, serverThread, AcceptConnection,
        MasterConnection_start, LockConnections, CheckConnection, JoinThread,
        FreeConnection, CS104_Slave_enqueueASDU, IMasterConnection_close, StopServer,
        CS104_Slave_stop, StopConnection, JoinStopped, CountStopped,
        CS104_Slave_start, OtherStep
    <3>2. \/ openConnections' = openConnections /\ miscount' = miscount
          \/ openConnections' = openConnections - 1 /\ miscount' = miscount + 1
      BY <2>3 DEF serverVars, stopVars, serverThread, AcceptConnection,
        MasterConnection_start, LockConnections, CheckConnection, JoinThread,
        FreeConnection, CS104_Slave_enqueueASDU, IMasterConnection_close, StopServer,
        CS104_Slave_stop, StopConnection, JoinStopped, CountStopped,
        CS104_Slave_start, OtherStep
    <3>3. Cardinality(used') = Cardinality(used)
      BY <3>1
    <3> QED
      BY <1>0, <1>1, <3>2, <3>3
  <2> QED
    BY <2>1, <2>2, <2>3 DEF serverThread, AcceptConnection, MasterConnection_start,
      LockConnections, CheckConnection, JoinThread, FreeConnection,
      CS104_Slave_enqueueASDU, IMasterConnection_close, StopServer, CS104_Slave_stop,
      StopConnection, JoinStopped, CountStopped, CS104_Slave_start, OtherStep
<1> QED
  BY <1>2, <1>3, <1>4 DEF OpenConnectionsExact, Conns

-----------------------------------------------------------------------------
(* The threads' local variables                                            *)

LEMMA ThreadsOKByThread ==
  ASSUME TypeOK, ThreadsOK, NEW c \in Conns, connectionHandlingThread(c), UNCHANGED stopVars
  PROVE  ThreadsOK'
<1>0. ThreadTypes /\ c \in 1..N /\ N \in Nat /\ scenario' = scenario
  BY SlaveAssumption DEF TypeOK, Conns, stopVars
<1>1. ASSUME NEW d \in Conns \ {c}
      PROVE  /\ At(d, "scan")' => arg'[d] \in 1..(N + 1)
             /\ pc'[d] \in {"requeue", "flag"} => arg'[d] \in Conns
             /\ At(d, "transmit")' => arg'[d] \in Events' /\ Len(sentASDUs'[d]) < K
  <2>1. pc'[d] = pc[d] /\ arg'[d] = arg[d]
    BY <1>0 DEF ThreadTypes, Goto, NextIteration, connectionHandlingThread,
      ReceiveNothing, ReceiveError, ReceiveInvalid, ReceiveS, ReceiveI, Respond,
      EnqueueResponse, ReceiveStartDT, LockForActivation, CloseActive, RequeueClosed,
      FlagClosed, UnlockAfterActivation, MasterConnection_activate, SendStartDTCon,
      ReceiveStopDT, SendStopDTCon, HandleTimeouts, SendResponse, FetchEvent,
      TransmitEvent, NothingToSend, LeaveLoop, RequeueOnExit
  <2>2. sentASDUs'[d] = sentASDUs[d]
    BY DEF TypeOK, BufferTypes, conVars, Acknowledge, connectionHandlingThread,
      ReceiveNothing, ReceiveError, ReceiveInvalid, ReceiveS, ReceiveI, Respond,
      EnqueueResponse, ReceiveStartDT, LockForActivation, CloseActive, RequeueClosed,
      FlagClosed, UnlockAfterActivation, MasterConnection_activate, SendStartDTCon,
      ReceiveStopDT, SendStopDTCon, HandleTimeouts, SendResponse, FetchEvent,
      TransmitEvent, NothingToSend, LeaveLoop, RequeueOnExit
  <2> QED
    BY <1>0, <2>1, <2>2 DEF ThreadsOK, At, Events
<1>2. /\ At(c, "scan")' => arg'[c] \in 1..(N + 1)
      /\ pc'[c] \in {"requeue", "flag"} => arg'[c] \in Conns
  <2>1. CASE LockForActivation(c) \/ FlagClosed(c) \/ CloseActive(c) \/ RequeueClosed(c)
    BY <1>0, <2>1 DEF LockForActivation, FlagClosed, CloseActive, RequeueClosed,
      ThreadTypes, ThreadsOK, At, Conns
  <2>2. CASE ~(LockForActivation(c) \/ FlagClosed(c) \/ CloseActive(c) \/ RequeueClosed(c))
    <3>1. pc'[c] \notin Locked
      BY <1>0, <2>2 DEF ThreadTypes, Goto, NextIteration, Locked,
        connectionHandlingThread, ReceiveNothing, ReceiveError, ReceiveInvalid,
        ReceiveS, ReceiveI, Respond, EnqueueResponse, ReceiveStartDT,
        LockForActivation, CloseActive, RequeueClosed, FlagClosed,
        UnlockAfterActivation, MasterConnection_activate, SendStartDTCon,
        ReceiveStopDT, SendStopDTCon, HandleTimeouts, SendResponse, FetchEvent,
        TransmitEvent, NothingToSend, LeaveLoop, RequeueOnExit
    <3> QED
      BY <3>1 DEF At, Locked
  <2> QED
    BY <2>1, <2>2
<1>3. At(c, "transmit")' => arg'[c] \in Events' /\ Len(sentASDUs'[c]) < K
  <2>1. CASE FetchEvent(c)
    <3>1. Len(sentASDUs[c]) \in 0..K
      BY SlaveAssumption DEF TypeOK, BufferTypes
    <3>2. PICK e \in Events : arg' = [arg EXCEPT ![c] = e]
      BY <2>1 DEF FetchEvent, WithState
    <3> QED
      BY SlaveAssumption, <1>0, <2>1, <3>1, <3>2 DEF FetchEvent, isSentBufferFull,
        ThreadTypes, Events, conVars
  <2>2. CASE ~FetchEvent(c)
    <3>1. pc'[c] # "transmit"
      BY <1>0, <2>2 DEF ThreadTypes, Goto, NextIteration, At,
        connectionHandlingThread, ReceiveNothing, ReceiveError, ReceiveInvalid,
        ReceiveS, ReceiveI, Respond, EnqueueResponse, ReceiveStartDT,
        LockForActivation, CloseActive, RequeueClosed, FlagClosed,
        UnlockAfterActivation, MasterConnection_activate, SendStartDTCon,
        ReceiveStopDT, SendStopDTCon, HandleTimeouts, SendResponse, FetchEvent,
        TransmitEvent, NothingToSend, LeaveLoop, RequeueOnExit
    <3> QED
      BY <3>1 DEF At
  <2> QED
    BY <2>1, <2>2
<1> QED
  BY <1>1, <1>2, <1>3 DEF ThreadsOK, Conns

(* The facts about the threads survive every step that is not one of a     *)
(* connection's thread.                                                    *)
LEMMA ThreadsOKByOther ==
  ASSUME TypeOK, ThreadsOK, OtherStep
  PROVE  ThreadsOK'
<1>0. ThreadTypes /\ ConnTypes /\ server.i \in Conns /\ scenario' = scenario
  BY DEF TypeOK, ServerTypes, stopVars, serverThread, AcceptConnection,
    MasterConnection_start, LockConnections, CheckConnection, JoinThread,
    FreeConnection, CS104_Slave_enqueueASDU, IMasterConnection_close, StopServer,
    CS104_Slave_stop, StopConnection, JoinStopped, CountStopped, CS104_Slave_start,
    OtherStep
<1>1. ASSUME NEW d \in Conns
      PROVE  /\ At(d, "scan")' => arg'[d] \in 1..(N + 1)
             /\ pc'[d] \in {"requeue", "flag"} => arg'[d] \in Conns
             /\ At(d, "transmit")' => arg'[d] \in Events' /\ Len(sentASDUs'[d]) < K
  <2>1. \/ pc'[d] = pc[d] /\ arg'[d] = arg[d]
        \/ pc'[d] \in {"none", "receive"}
    BY <1>0 DEF ThreadTypes, threads, Goto, serverThread, AcceptConnection,
      MasterConnection_start, LockConnections, CheckConnection, JoinThread,
      FreeConnection, CS104_Slave_enqueueASDU, IMasterConnection_close, StopServer,
      CS104_Slave_stop, StopConnection, JoinStopped, CountStopped, CS104_Slave_start,
      OtherStep
  <2>2. sentASDUs'[d] = sentASDUs[d] \/ Len(sentASDUs'[d]) < K
    BY SlaveAssumption, <1>0 DEF TypeOK, BufferTypes, conVars, MasterConnection_init,
      serverThread, AcceptConnection, MasterConnection_start, LockConnections,
      CheckConnection, JoinThread, FreeConnection, CS104_Slave_enqueueASDU,
      IMasterConnection_close, StopServer, CS104_Slave_stop, StopConnection,
      JoinStopped, CountStopped, CS104_Slave_start, OtherStep
  <2> QED
    BY <1>0, <2>1, <2>2 DEF ThreadsOK, At, Events
<1> QED
  BY <1>1 DEF ThreadsOK, Conns

-----------------------------------------------------------------------------
(* The owners of the events that are marked as sent                        *)

(* The frames of a k-buffer are those that are acknowledged and the rest.  *)
LEMMA RangeRest ==
  ASSUME NEW T, NEW q \in Seq(T), NEW n \in 0..Len(q), NEW e \in Range(q),
         e \notin {q[i] : i \in 1..n}
  PROVE  e \in Range(SubSeq(q, n + 1, Len(q)))
<1>1. PICK i \in 1..Len(q) : q[i] = e
  BY DEF Range
<1>2. i > n /\ n \in Nat /\ Len(q) \in Nat
  BY <1>1
<1> DEFINE r == SubSeq(q, n + 1, Len(q))
<1>3. DOMAIN r = 1..(Len(q) - n) /\ \A j \in 1..(Len(q) - n) : r[j] = q[n + j]
  BY <1>2
<1>4. i - n \in DOMAIN r /\ r[i - n] = e
  BY <1>1, <1>2, <1>3
<1> QED
  BY <1>4 DEF Range

(* Appending adds exactly the appended element to the range of a           *)
(* sequence.                                                               *)
LEMMA RangeAppend ==
  ASSUME NEW T, NEW q \in Seq(T), NEW x \in T
  PROVE  Range(Append(q, x)) = Range(q) \cup {x}
<1>1. /\ DOMAIN Append(q, x) = 1..(Len(q) + 1) /\ DOMAIN q = 1..Len(q) /\ Len(q) \in Nat
      /\ \A i \in 1..Len(q) : Append(q, x)[i] = q[i]
      /\ Append(q, x)[Len(q) + 1] = x
  OBVIOUS
<1> QED
  BY <1>1 DEF Range

(* The thread of c will confirm or requeue event e. *)
Owns(c, g, e) ==
  /\ group[c] = g
  /\ pc[c] \notin {"none", "done"}
  /\ e \in Range(sentASDUs[c]) \/ (At(c, "transmit") /\ arg[c] = e)

(* Every event that is marked as sent after a step was so before it, and   *)
(* who owned it still owns it, or it has a new owner.                      *)
OwnersKept ==
  \A g \in Groups : \A e \in WithState(g, "sent")' \ abandoned'[g] :
    \/ \E c \in Conns : Owns(c, g, e)'
    \/ /\ e \in WithState(g, "sent") \ abandoned[g]
       /\ \A c \in Conns : Owns(c, g, e) => Owns(c, g, e)'

(* Owned events stay owned when each keeps, or changes to, a thread that   *)
(* answers for it.                                                         *)
LEMMA OwnersKeptSuffices ==
  ASSUME SentIsOwned, OwnersKept
  PROVE  SentIsOwned'
BY DEF SentIsOwned, OwnersKept, Owns

(* A thread other than c owns what it owned. *)
LEMMA OthersKeepOwning ==
  ASSUME TypeOK, NEW c \in Conns, connectionHandlingThread(c)
  PROVE  \A d \in Conns \ {c}, g \in Groups : \A e : Owns(d, g, e) => Owns(d, g, e)'
<1>1. ThreadTypes /\ BufferTypes /\ group' = group
  BY DEF TypeOK, conVars, connectionHandlingThread, ReceiveNothing, ReceiveError,
    ReceiveInvalid, ReceiveS, ReceiveI, Respond, EnqueueResponse, ReceiveStartDT,
    LockForActivation, CloseActive, RequeueClosed, FlagClosed, UnlockAfterActivation,
    MasterConnection_activate, SendStartDTCon, ReceiveStopDT, SendStopDTCon,
    HandleTimeouts, SendResponse, FetchEvent, TransmitEvent, NothingToSend, LeaveLoop,
    RequeueOnExit
<1>2. ASSUME NEW d \in Conns \ {c} PROVE pc'[d] = pc[d] /\ arg'[d] = arg[d] /\ sentASDUs'[d] = sentASDUs[d]
  BY <1>1 DEF ThreadTypes, BufferTypes, Goto, NextIteration, Acknowledge, conVars,
    connectionHandlingThread, ReceiveNothing, ReceiveError, ReceiveInvalid, ReceiveS,
    ReceiveI, Respond, EnqueueResponse, ReceiveStartDT, LockForActivation,
    CloseActive, RequeueClosed, FlagClosed, UnlockAfterActivation,
    MasterConnection_activate, SendStartDTCon, ReceiveStopDT, SendStopDTCon,
    HandleTimeouts, SendResponse, FetchEvent, TransmitEvent, NothingToSend, LeaveLoop,
    RequeueOnExit
<1> QED
  BY <1>1, <1>2 DEF Owns, At

(* A step of a connection's thread leaves every sent event with a thread   *)
(* that answers for it.                                                    *)
LEMMA ThreadKeepsOwners ==
  ASSUME TypeOK, ThreadsOK, NEW c \in Conns, connectionHandlingThread(c), UNCHANGED stopVars
  PROVE  OwnersKept
<1>0. /\ ThreadTypes /\ ConnTypes /\ scenario' = scenario /\ group' = group
      /\ sentASDUs \in [Conns -> Seq(Events \cup {0})] /\ sentASDUs[c] \in Seq(Events \cup {0})
      /\ lowPrioQueue \in [Groups -> [Events -> {"none", "waiting", "sent", "confirmed"}]]
      /\ abandoned \in [Groups -> SUBSET Events] /\ group[c] \in Groups
  BY DEF TypeOK, ConnTypes, BufferTypes, QueueTypes, stopVars, conVars,
    connectionHandlingThread, ReceiveNothing, ReceiveError, ReceiveInvalid, ReceiveS,
    ReceiveI, Respond, EnqueueResponse, ReceiveStartDT, LockForActivation,
    CloseActive, RequeueClosed, FlagClosed, UnlockAfterActivation,
    MasterConnection_activate, SendStartDTCon, ReceiveStopDT, SendStopDTCon,
    HandleTimeouts, SendResponse, FetchEvent, TransmitEvent, NothingToSend, LeaveLoop,
    RequeueOnExit
<1>group. PICK h \in Groups : h = group[c]
  BY <1>0
<1>1. \A d \in Conns \ {c}, g \in Groups : \A e : Owns(d, g, e) => Owns(d, g, e)'
  BY OthersKeepOwning
<1>2. CASE ReceiveS(c) \/ ReceiveI(c)
  <2>1. PICK n \in 0..Len(sentASDUs[c]) : Acknowledge(c, n)
    BY <1>2 DEF ReceiveS, ReceiveI
  <2> DEFINE acked == {sentASDUs[c][i] : i \in 1..n} \ {0}
  <2>2. \A g \in Groups : g # h => WithState(g, "sent")' = WithState(g, "sent") /\ abandoned'[g] = abandoned[g]
    BY <1>0, <1>group, <2>1 DEF Acknowledge, SetEvents, WithState, Events
  <2>3. WithState(h, "sent")' \subseteq WithState(h, "sent") \ acked
    BY <1>0, <1>group, <2>1 DEF Acknowledge, SetEvents, WithState, Events
  <2>4. abandoned'[h] = abandoned[h] \ acked
    BY <1>0, <1>group, <2>1 DEF Acknowledge
  <2>5. pc[c] = "receive" /\ pc'[c] \in {"timeouts", "respond", "enqueue"}
    BY <1>0, <1>group, <1>2 DEF ThreadTypes, ReceiveS, ReceiveI, Goto, At
  <2>6. ASSUME NEW e \in Events, e \notin acked, Owns(c, h, e)
        PROVE  Owns(c, h, e)'
    <3>1. e \in Range(sentASDUs[c]) /\ e # 0
      BY <2>5, <2>6 DEF Owns, At, Events
    <3>2. e \in Range(SubSeq(sentASDUs[c], n + 1, Len(sentASDUs[c])))
      BY <1>0, <1>group, <2>6, <3>1, RangeRest
    <3>3. e \in Range(sentASDUs'[c])
      BY <1>0, <1>group, <2>1, <3>2 DEF Acknowledge
    <3> QED
      BY <1>0, <1>group, <2>5, <3>3 DEF Owns
  <2> HIDE DEF acked
  <2>7. \A g \in Groups : \A e : g # h => ~Owns(c, g, e)
    BY <1>group DEF Owns
  <2>8. \A g \in Groups : WithState(g, "sent") \subseteq Events
    BY DEF WithState
  <2>9. ASSUME NEW g \in Groups, NEW e \in WithState(g, "sent")' \ abandoned'[g]
        PROVE  /\ e \in WithState(g, "sent") \ abandoned[g]
               /\ \A d \in Conns : Owns(d, g, e) => Owns(d, g, e)'
    <3>1. CASE g = h
      <4>1. e \in WithState(g, "sent") \ abandoned[g] /\ e \in Events /\ e \notin acked
        BY <2>3, <2>4, <2>8, <3>1
      <4> QED
        BY <1>1, <2>6, <3>1, <4>1
    <3>2. CASE g # h
      BY <1>1, <2>2, <2>7, <3>2
    <3> QED
      BY <3>1, <3>2
  <2> QED
    BY <2>9 DEF OwnersKept
<1>3. CASE RequeueClosed(c) \/ RequeueOnExit(c)
  <2>1. PICK r \in Groups : RequeueAll(r) /\ (RequeueOnExit(c) => r = group[c])
    BY <1>0, <1>3 DEF RequeueClosed, RequeueOnExit, ThreadsOK, ConnTypes, At
  <2>2. WithState(r, "sent")' = {}
    BY <1>0, <2>1 DEF RequeueAll, SetEvents, WithState, Events
  <2>3. \A g \in Groups \ {r} : WithState(g, "sent")' = WithState(g, "sent") /\ abandoned'[g] = abandoned[g]
    BY <1>0, <2>1 DEF RequeueAll, SetEvents, WithState, Events
  <2>4. \A g \in Groups \ {r} : \A e : Owns(c, g, e) => Owns(c, g, e)'
    BY <1>0, <1>3, <2>1 DEF Owns, RequeueClosed, RequeueOnExit, ThreadTypes, At, conVars
  <2> QED
    BY <1>1, <2>2, <2>3, <2>4 DEF OwnersKept
<1>4. CASE FetchEvent(c)
  <2>1. PICK e \in Events : /\ SetEvents(group[c], {e}, "sent")
                            /\ arg' = [arg EXCEPT ![c] = e]
    BY <1>4 DEF FetchEvent, WithState
  <2>2. pc[c] = "send" /\ pc' = [pc EXCEPT ![c] = "transmit"] /\ sentASDUs' = sentASDUs /\ abandoned' = abandoned
    BY <1>4 DEF FetchEvent, At, conVars, history
  <2>3. Owns(c, h, e)'
    BY <1>0, <1>group, <2>1, <2>2 DEF Owns, ThreadTypes, At
  <2>4. \A g \in Groups : \A d : Owns(c, g, d) => Owns(c, g, d)'
    BY <1>0, <1>group, <2>2 DEF Owns, ThreadTypes, At
  <2>5. ASSUME NEW g \in Groups, NEW d \in WithState(g, "sent")'
        PROVE  d \in WithState(g, "sent") \/ (d = e /\ g = h)
    BY <1>0, <1>group, <2>1 DEF SetEvents, WithState, Events
  <2>6. ASSUME NEW g \in Groups, NEW d \in WithState(g, "sent")' \ abandoned'[g]
        PROVE  \/ \E b \in Conns : Owns(b, g, d)'
               \/ /\ d \in WithState(g, "sent") \ abandoned[g]
                  /\ \A b \in Conns : Owns(b, g, d) => Owns(b, g, d)'
    <3>1. CASE d = e /\ g = h
      BY <2>3, <3>1
    <3>2. CASE d \in WithState(g, "sent")
      BY <1>1, <2>2, <2>4, <3>2
    <3> QED
      BY <2>5, <3>1, <3>2
  <2> QED
    BY <2>6 DEF OwnersKept
<1>5. CASE LeaveLoop(c)
  <2>1. /\ pc[c] = "exit" /\ sentASDUs' = sentASDUs /\ lowPrioQueue' = lowPrioQueue
        /\ pc'[c] = IF requeuedOnActivate[c] THEN "done" ELSE "requeue_own"
        /\ requeuedOnActivate[c] => abandoned' = [abandoned EXCEPT ![group[c]] = @ \cup InFlight(c)]
        /\ ~requeuedOnActivate[c] => abandoned' = abandoned
    BY <1>0, <1>5 DEF LeaveLoop, Goto, At, ThreadTypes, conVars, queues
  <2>2. \A g \in Groups : WithState(g, "sent")' = WithState(g, "sent") /\ WithState(g, "sent") \subseteq Events
    BY <1>0, <2>1 DEF WithState, Events
  <2>3. CASE ~requeuedOnActivate[c]
    <3>1. \A g \in Groups : \A d : Owns(c, g, d) => Owns(c, g, d)'
      BY <1>0, <2>1, <2>3 DEF Owns, At
    <3> QED
      BY <1>1, <2>1, <2>2, <2>3, <3>1 DEF OwnersKept
  <2>4. CASE requeuedOnActivate[c]
    <3>1. \A g \in Groups : abandoned[g] \subseteq abandoned'[g]
      BY <1>0, <2>1, <2>4
    <3>2. ASSUME NEW g \in Groups, NEW e \in WithState(g, "sent"), Owns(c, g, e)
          PROVE  e \in abandoned'[g]
      <4>1. g = group[c] /\ e \in Range(sentASDUs[c]) /\ e \in Events /\ e # 0
        BY <2>1, <2>2, <3>2 DEF Owns, At, Events
      <4>2. e \in InFlight(c)
        BY <3>2, <4>1 DEF InFlight
      <4> QED
        BY <1>0, <2>1, <2>4, <4>1, <4>2
    <3> QED
      BY <1>1, <2>2, <3>1, <3>2 DEF OwnersKept
  <2> QED
    BY <2>3, <2>4
<1>6. CASE /\ lowPrioQueue' = lowPrioQueue /\ abandoned' = abandoned
           /\ \A g \in Groups : \A e : Owns(c, g, e) => Owns(c, g, e)'
  <2>1. \A g \in Groups : WithState(g, "sent")' = WithState(g, "sent")
    BY <1>0, <1>6 DEF WithState, Events
  <2> QED
    BY <1>1, <1>6, <2>1 DEF OwnersKept
<1>7. CASE ~(ReceiveS(c) \/ ReceiveI(c) \/ RequeueClosed(c) \/ RequeueOnExit(c) \/ FetchEvent(c) \/ LeaveLoop(c))
  <2>1. lowPrioQueue' = lowPrioQueue /\ abandoned' = abandoned
    BY <1>7 DEF queues, history, connectionHandlingThread, ReceiveNothing,
      ReceiveError, ReceiveInvalid, ReceiveS, ReceiveI, Respond, EnqueueResponse,
      ReceiveStartDT, LockForActivation, CloseActive, RequeueClosed, FlagClosed,
      UnlockAfterActivation, MasterConnection_activate, SendStartDTCon, ReceiveStopDT,
      SendStopDTCon, HandleTimeouts, SendResponse, FetchEvent, TransmitEvent,
      NothingToSend, LeaveLoop, RequeueOnExit
  <2>2. pc[c] \notin {"none", "done"} /\ pc'[c] \notin {"none", "done"}
    BY <1>0, <1>7 DEF ThreadTypes, Goto, NextIteration, At, connectionHandlingThread,
      ReceiveNothing, ReceiveError, ReceiveInvalid, ReceiveS, ReceiveI, Respond,
      EnqueueResponse, ReceiveStartDT, LockForActivation, CloseActive, RequeueClosed,
      FlagClosed, UnlockAfterActivation, MasterConnection_activate, SendStartDTCon,
      ReceiveStopDT, SendStopDTCon, HandleTimeouts, SendResponse, FetchEvent,
      TransmitEvent, NothingToSend, LeaveLoop, RequeueOnExit
  <2>3. CASE TransmitEvent(c)
    <3>1. arg[c] \in Events /\ sentASDUs'[c] = Append(sentASDUs[c], arg[c])
      BY <1>0, <2>3 DEF TransmitEvent, ThreadsOK
    <3>2. Range(sentASDUs'[c]) = Range(sentASDUs[c]) \cup {arg[c]}
      BY <1>0, <3>1, RangeAppend
    <3> QED
      BY <1>0, <1>6, <2>1, <2>2, <3>2 DEF Owns
  <2>4. CASE ~TransmitEvent(c)
    <3>1. ~At(c, "transmit")
      BY <1>0, <1>7, <2>4 DEF At, connectionHandlingThread, ReceiveNothing,
        ReceiveError, ReceiveInvalid, ReceiveS, ReceiveI, Respond, EnqueueResponse,
        ReceiveStartDT, LockForActivation, CloseActive, RequeueClosed, FlagClosed,
        UnlockAfterActivation, MasterConnection_activate, SendStartDTCon,
        ReceiveStopDT, SendStopDTCon, HandleTimeouts, SendResponse, FetchEvent,
        TransmitEvent, NothingToSend, LeaveLoop, RequeueOnExit
    <3>2. sentASDUs'[c] = sentASDUs[c] \/ sentASDUs'[c] = Append(sentASDUs[c], 0)
      BY <1>0, <1>7, <2>4 DEF conVars, connectionHandlingThread, ReceiveNothing,
        ReceiveError, ReceiveInvalid, ReceiveS, ReceiveI, Respond, EnqueueResponse,
        ReceiveStartDT, LockForActivation, CloseActive, RequeueClosed, FlagClosed,
        UnlockAfterActivation, MasterConnection_activate, SendStartDTCon,
        ReceiveStopDT, SendStopDTCon, HandleTimeouts, SendResponse, FetchEvent,
        TransmitEvent, NothingToSend, LeaveLoop, RequeueOnExit
    <3>3. 0 \in Events \cup {0}
      OBVIOUS
    <3>4. Range(sentASDUs[c]) \subseteq Range(sentASDUs'[c])
      <4>1. Range(Append(sentASDUs[c], 0)) = Range(sentASDUs[c]) \cup {0}
        BY <1>0, <3>3, RangeAppend
      <4> QED
        BY <3>2, <4>1
    <3> QED
      BY <1>0, <1>6, <2>1, <2>2, <3>1, <3>4 DEF Owns
  <2> QED
    BY <2>3, <2>4
<1> QED
  BY <1>2, <1>3, <1>4, <1>5, <1>7

(* The other steps leave every sent event with a thread that answers for   *)
(* it.                                                                     *)
LEMMA OtherKeepsOwners ==
  ASSUME TypeOK, ServerOK, OpenConnectionsExact, OtherStep
  PROVE  OwnersKept
<1>0. /\ ThreadTypes /\ ConnTypes /\ server.i \in Conns /\ scenario' = scenario
      /\ sentASDUs \in [Conns -> Seq(Events \cup {0})]
      /\ lowPrioQueue \in [Groups -> [Events -> {"none", "waiting", "sent", "confirmed"}]]
  BY DEF TypeOK, ServerTypes, BufferTypes, QueueTypes, stopVars, serverThread,
    AcceptConnection, MasterConnection_start, LockConnections, CheckConnection,
    JoinThread, FreeConnection, CS104_Slave_enqueueASDU, IMasterConnection_close,
    StopServer, CS104_Slave_stop, StopConnection, JoinStopped, CountStopped,
    CS104_Slave_start, OtherStep
<1>1. ASSUME NEW c \in Conns, pc[c] \notin {"none", "done"}
      PROVE  /\ group'[c] = group[c] /\ sentASDUs'[c] = sentASDUs[c]
             /\ pc'[c] = pc[c] /\ arg'[c] = arg[c]
  <2>1. isUsed[c]
    BY <1>1 DEF OpenConnectionsExact, At
  <2>2. group'[c] = group[c] /\ sentASDUs'[c] = sentASDUs[c]
    BY <1>0, <2>1 DEF ConnTypes, conVars, MasterConnection_init, getFreeConnection,
      serverThread, AcceptConnection, MasterConnection_start, LockConnections,
      CheckConnection, JoinThread, FreeConnection, CS104_Slave_enqueueASDU,
      IMasterConnection_close, StopServer, CS104_Slave_stop, StopConnection,
      JoinStopped, CountStopped, CS104_Slave_start, OtherStep
  <2>3. pc'[c] = pc[c] /\ arg'[c] = arg[c]
    BY <1>0, <1>1 DEF ThreadTypes, ServerOK, threads, Goto, At, serverThread,
      AcceptConnection, MasterConnection_start, LockConnections, CheckConnection,
      JoinThread, FreeConnection, CS104_Slave_enqueueASDU, IMasterConnection_close,
      StopServer, CS104_Slave_stop, StopConnection, JoinStopped, CountStopped,
      CS104_Slave_start, OtherStep
  <2> QED
    BY <2>2, <2>3
<1>2. \A c \in Conns, g \in Groups : \A e : Owns(c, g, e) => Owns(c, g, e)'
  BY <1>1 DEF Owns, At
<1>3. \A g \in Groups : WithState(g, "sent")' \ abandoned'[g] \subseteq WithState(g, "sent") \ abandoned[g]
  <2>1. CASE CS104_Slave_enqueueASDU
    <3>1. PICK e \in Events : /\ \A g \in Groups : lowPrioQueue[g][e] = "none"
                              /\ lowPrioQueue' = [g \in Groups |-> [lowPrioQueue[g] EXCEPT ![e] = "waiting"]]
      BY <2>1 DEF CS104_Slave_enqueueASDU
    <3>2. \A g \in Groups : WithState(g, "sent")' \subseteq WithState(g, "sent")
      BY <1>0, <3>1 DEF WithState, Events
    <3> QED
      BY <2>1, <3>2 DEF CS104_Slave_enqueueASDU, history
  <2>2. CASE lowPrioQueue' = [g \in Groups |-> [e \in Events |-> "none"]]
    <3>1. \A g \in Groups : WithState(g, "sent")' = {}
      BY <1>0, <2>2 DEF WithState, Events
    <3> QED
      BY <3>1
  <2>3. CASE lowPrioQueue' = lowPrioQueue /\ abandoned' = abandoned
    BY <1>0, <2>3 DEF WithState, Events
  <2> QED
    BY <2>1, <2>2, <2>3 DEF queues, history, serverThread, AcceptConnection,
      MasterConnection_start, LockConnections, CheckConnection, JoinThread,
      FreeConnection, CS104_Slave_enqueueASDU, IMasterConnection_close, StopServer,
      CS104_Slave_stop, StopConnection, JoinStopped, CountStopped, CS104_Slave_start,
      OtherStep
<1> QED
  BY <1>2, <1>3 DEF OwnersKept

-----------------------------------------------------------------------------
(* The responses of a group and its active connection                      *)

(* A connection that is active after a step was so before it, or has just  *)
(* become active and not sent its STARTDT_CON.                             *)
LEMMA ActiveBefore ==
  ASSUME TypeOK, NEW c \in Conns, NEW g \in Groups, c \in Active(g)', pc'[c] # "startdt_con",
         CalmStep \/ \E d \in Conns : ActivationStep(d)
  PROVE  c \in Active(g)
<1>1. CASE CalmStep
  BY <1>1 DEF CalmStep
<1>2. ASSUME NEW d \in Conns, ActivationStep(d)
      PROVE  c \in Active(g)
  <2>1. CASE LockForActivation(d) \/ UnlockAfterActivation(d)
    BY <2>1 DEF LockForActivation, UnlockAfterActivation, Active, isActive, conVars
  <2>2. CASE CloseActive(d)
    BY <2>2 DEF TypeOK, ConnTypes, CloseActive, MasterConnection_close, StopRunning,
      Active, isActive
  <2>3. CASE MasterConnection_activate(d)
    BY <2>3 DEF TypeOK, ConnTypes, ThreadTypes, MasterConnection_activate, Goto, Active,
      isActive
  <2> QED
    BY <1>2, <2>1, <2>2, <2>3 DEF ActivationStep
<1> QED
  BY <1>1, <1>2

(* A step of a connection's thread keeps the response queues for those     *)
(* who asked.                                                              *)
LEMMA ResponsesByThread ==
  ASSUME TypeOK, ThreadsOK, OpenConnectionsExact, OneActiveUnlessRaced, ResponsesOK,
         NEW b \in Conns, connectionHandlingThread(b)
  PROVE  ResponsesOK'
<1>0. /\ ThreadTypes /\ ConnTypes /\ QueueTypes /\ group' = group /\ group[b] \in Groups
      /\ CalmStep \/ \E d \in Conns : ActivationStep(d)
  BY ThreadIsCalm DEF TypeOK, ConnTypes, conVars, connectionHandlingThread,
    ReceiveNothing, ReceiveError, ReceiveInvalid, ReceiveS, ReceiveI, Respond,
    EnqueueResponse, ReceiveStartDT, LockForActivation, CloseActive, RequeueClosed,
    FlagClosed, UnlockAfterActivation, MasterConnection_activate, SendStartDTCon,
    ReceiveStopDT, SendStopDTCon, HandleTimeouts, SendResponse, FetchEvent,
    TransmitEvent, NothingToSend, LeaveLoop, RequeueOnExit
<1> SUFFICES ASSUME NEW c \in Conns, NEW g \in Groups, g = group[c],
                    c \in Active(g)', ~raced'[g], pc'[c] # "startdt_con"
             PROVE  QueueFor(c, highPrioQueue'[g])
  BY <1>0 DEF ResponsesOK, ConnTypes, At
<1> DEFINE q  == highPrioQueue[g]
           q2 == highPrioQueue'[g]
<1>1. c \in Active(g) /\ ~raced[g] /\ q \in Seq([con : Conns, late : BOOLEAN])
  <2>1. c \in Active(g)
    BY <1>0, ActiveBefore
  <2>2. ~raced[g]
    BY <1>0 DEF QueueTypes, history, Acknowledge, RequeueAll,
      connectionHandlingThread, ReceiveNothing, ReceiveError, ReceiveInvalid,
      ReceiveS, ReceiveI, Respond, EnqueueResponse, ReceiveStartDT, LockForActivation,
      CloseActive, RequeueClosed, FlagClosed, UnlockAfterActivation,
      MasterConnection_activate, SendStartDTCon, ReceiveStopDT, SendStopDTCon,
      HandleTimeouts, SendResponse, FetchEvent, TransmitEvent, NothingToSend,
      LeaveLoop, RequeueOnExit
  <2> QED
    BY <1>0, <2>1, <2>2 DEF QueueTypes
<1>2. CASE q2 = <<>>
  BY <1>2 DEF QueueFor
<1>3. CASE pc[c] = "startdt_con"
  <2>1. b = c /\ SendStartDTCon(c)
    BY <1>0, <1>3 DEF ThreadTypes, Goto, NextIteration, At, connectionHandlingThread,
      ReceiveNothing, ReceiveError, ReceiveInvalid, ReceiveS, ReceiveI, Respond,
      EnqueueResponse, ReceiveStartDT, LockForActivation, CloseActive, RequeueClosed,
      FlagClosed, UnlockAfterActivation, MasterConnection_activate, SendStartDTCon,
      ReceiveStopDT, SendStopDTCon, HandleTimeouts, SendResponse, FetchEvent,
      TransmitEvent, NothingToSend, LeaveLoop, RequeueOnExit
  <2> QED
    BY <1>0, <1>2, <2>1 DEF SendStartDTCon, QueueTypes
<1>4. CASE pc[c] # "startdt_con"
  <2>1. QueueFor(c, q)
    BY <1>1, <1>4 DEF ResponsesOK, At
  <2>2. CASE EnqueueResponse(b) /\ g = group[b] /\ q2 # q
    <3> DEFINE r == [con |-> b, late |-> ~(isRunning[b] /\ isActive(b))]
    <3>1. q2 = Append(q, r)
      BY <1>0, <2>2 DEF EnqueueResponse, QueueTypes
    <3>2. isUsed[b]
      BY <2>2 DEF EnqueueResponse, OpenConnectionsExact, At
    <3>3. isRunning[b] /\ isActive(b) => b = c
      BY <1>1, <2>2, <3>2 DEF OneActiveUnlessRaced, Active
    <3>4. r.con = c \/ r.late
      BY <3>3
    <3>5. \A i \in 1..Len(q2) : q2[i] = r \/ (i \in 1..Len(q) /\ q2[i] = q[i])
      BY <1>1, <3>1
    <3> HIDE DEF q, q2, r
    <3>6. QueueFor(c, q2)
      BY <2>1, <3>4, <3>5 DEF QueueFor
    <3> QED
      BY <3>6 DEF q2
  <2>3. CASE SendResponse(b) /\ g = group[b]
    <3>1. q # <<>> /\ q2 = Tail(q)
      BY <1>0, <2>3 DEF SendResponse, QueueTypes
    <3>2. \A i \in 1..Len(q2) : i + 1 \in 1..Len(q) /\ q2[i] = q[i + 1]
      BY <1>1, <3>1
    <3> HIDE DEF q, q2
    <3>3. QueueFor(c, q2)
      BY <2>1, <3>2 DEF QueueFor
    <3> QED
      BY <3>3 DEF q2
  <2>4. CASE SendStartDTCon(b) /\ g = group[b]
    BY <1>0, <1>2, <2>4 DEF SendStartDTCon, QueueTypes
  <2>5. CASE q2 = q
    BY <2>1, <2>5
  <2>6. g # group[b] => q2 = q
    BY <1>0 DEF QueueTypes, queues, connectionHandlingThread, ReceiveNothing,
      ReceiveError, ReceiveInvalid, ReceiveS, ReceiveI, Respond, EnqueueResponse,
      ReceiveStartDT, LockForActivation, CloseActive, RequeueClosed, FlagClosed,
      UnlockAfterActivation, MasterConnection_activate, SendStartDTCon, ReceiveStopDT,
      SendStopDTCon, HandleTimeouts, SendResponse, FetchEvent, TransmitEvent,
      NothingToSend, LeaveLoop, RequeueOnExit
  <2>7. ~(EnqueueResponse(b) \/ SendResponse(b) \/ SendStartDTCon(b)) => q2 = q
    BY <1>0 DEF QueueTypes, queues, connectionHandlingThread, ReceiveNothing,
      ReceiveError, ReceiveInvalid, ReceiveS, ReceiveI, Respond, EnqueueResponse,
      ReceiveStartDT, LockForActivation, CloseActive, RequeueClosed, FlagClosed,
      UnlockAfterActivation, MasterConnection_activate, SendStartDTCon, ReceiveStopDT,
      SendStopDTCon, HandleTimeouts, SendResponse, FetchEvent, TransmitEvent,
      NothingToSend, LeaveLoop, RequeueOnExit
  <2> QED
    BY <2>2, <2>3, <2>4, <2>5, <2>6, <2>7
<1> QED
  BY <1>3, <1>4

(* The other steps keep the response queues for those who asked. *)
LEMMA ResponsesByOther ==
  ASSUME TypeOK, TypeOK', ServerOK, OpenConnectionsExact, ResponsesOK, OtherStep
  PROVE  ResponsesOK'
<1>0. ThreadTypes /\ ConnTypes /\ QueueTypes /\ server.i \in Conns /\ raced' = raced /\ CalmStep
  BY OtherIsCalm DEF TypeOK, ServerTypes, history, serverThread, AcceptConnection,
    MasterConnection_start, LockConnections, CheckConnection, JoinThread,
    FreeConnection, CS104_Slave_enqueueASDU, IMasterConnection_close, StopServer,
    CS104_Slave_stop, StopConnection, JoinStopped, CountStopped, CS104_Slave_start,
    OtherStep
<1> SUFFICES ASSUME NEW c \in Conns, NEW g \in Groups, g = group'[c],
                    c \in Active(g)', ~raced'[g], pc'[c] # "startdt_con"
             PROVE  QueueFor(c, highPrioQueue'[g])
  BY DEF ResponsesOK, TypeOK, ConnTypes, At
<1>1. c \in Active(g) /\ group[c] = g
  BY <1>0 DEF CalmStep, Active
<1>2. pc[c] # "startdt_con"
  BY <1>0 DEF ThreadTypes, threads, ServerOK, Goto, At, serverThread,
    AcceptConnection, MasterConnection_start, LockConnections, CheckConnection,
    JoinThread, FreeConnection, CS104_Slave_enqueueASDU, IMasterConnection_close,
    StopServer, CS104_Slave_stop, StopConnection, JoinStopped, CountStopped,
    CS104_Slave_start, OtherStep
<1>3. QueueFor(c, highPrioQueue[g])
  BY <1>0, <1>1, <1>2 DEF ResponsesOK, At
<1>4. highPrioQueue'[g] = <<>> \/ highPrioQueue'[g] = highPrioQueue[g]
  BY <1>0 DEF QueueTypes, queues, MasterConnection_init, serverThread,
    AcceptConnection, MasterConnection_start, LockConnections, CheckConnection,
    JoinThread, FreeConnection, CS104_Slave_enqueueASDU, IMasterConnection_close,
    StopServer, CS104_Slave_stop, StopConnection, JoinStopped, CountStopped,
    CS104_Slave_start, OtherStep
<1> QED
  BY <1>3, <1>4 DEF QueueFor

-----------------------------------------------------------------------------
(* The inductive invariant and what follows from it                        *)

(* The server starts with free slots and empty queues.                     *)
THEOREM InitIInv == Init => IInv
<1> SUFFICES ASSUME Init PROVE IInv
  OBVIOUS
<1> USE SlaveAssumption
<1>0. /\ \A c \in Conns : pc[c] = "none" /\ isUsed[c] = FALSE /\ isRunning[c] = FALSE
      /\ \A g \in Groups : Active(g) = {}
  BY DEF Init, Active
<1>1. TypeOK
  <2>1. ConnTypes
    <3>1. (CHOOSE g \in Groups : TRUE) \in Groups
      OBVIOUS
    <3> QED
      BY <3>1 DEF Init, ConnTypes
  <2>2. BufferTypes /\ ThreadTypes
    BY DEF Init, BufferTypes, ThreadTypes, Labels, Conns, Events
  <2>3. ServerTypes
    BY DEF Init, ServerTypes, Server, Conns
  <2>4. QueueTypes
    <3>1. scenario.responses \in Nat
      BY DEF Init
    <3> QED
      BY <3>1 DEF Init, QueueTypes
  <2> QED
    BY <2>1, <2>2, <2>3, <2>4 DEF TypeOK
<1>2. ThreadsOK /\ ServerOK /\ LockOK
  BY DEF Init, ThreadsOK, ServerOK, LockOK, Locked, At, Conns, Server
<1>3. OpenConnectionsExact
  <2>1. {c \in Conns : isUsed[c]} = {}
    BY <1>0
  <2>2. Cardinality({c \in Conns : isUsed[c]}) = 0
    BY <2>1, FS_EmptySet
  <2> QED
    BY <1>0, <2>2 DEF Init, OpenConnectionsExact, At
<1>4. OneActiveUnlessRaced /\ ActivationOK /\ ResponsesOK
  BY <1>0, <1>1 DEF OneActiveUnlessRaced, ActivationOK, ResponsesOK, TypeOK,
    ConnTypes, At
<1>5. SentIsOwned
  BY DEF Init, SentIsOwned, WithState
<1> QED
  BY <1>1, <1>2, <1>3, <1>4, <1>5 DEF IInv

(* Every step of the server thread, a connection's thread or the           *)
(* application, and a stop and a start, preserve the invariant.            *)
THEOREM NextIInv == IInv /\ [Next]_vars => IInv'
<1> SUFFICES ASSUME IInv, [Next]_vars PROVE IInv'
  OBVIOUS
<1> USE DEF IInv
<1>1. CASE OtherStep
  <2>1. TypeOK'
    BY <1>1, ServerTypeOK
  <2>2. ThreadsOK'
    BY <1>1, ThreadsOKByOther
  <2>3. ServerOK' /\ OpenConnectionsExact'
    BY <1>1, ServerPreserved
  <2>4. LockOK'
    BY <1>1, LockPreserved
  <2>5. ActivationOK' /\ OneActiveUnlessRaced'
    BY <1>1, <2>1, OtherIsCalm, CalmActivation
  <2>6. SentIsOwned'
    BY <1>1, OtherKeepsOwners, OwnersKeptSuffices
  <2>7. ResponsesOK'
    BY <1>1, <2>1, ResponsesByOther
  <2> QED
    BY <2>1, <2>2, <2>3, <2>4, <2>5, <2>6, <2>7
<1>2. CASE \E c \in Conns : connectionHandlingThread(c) /\ UNCHANGED stopVars
  <2>0. PICK c \in Conns : connectionHandlingThread(c) /\ UNCHANGED stopVars
    BY <1>2
  <2>1. TypeOK'
    BY <2>0, ThreadTypeOK
  <2>2. ThreadsOK'
    BY <2>0, ThreadsOKByThread
  <2>3. ServerOK' /\ OpenConnectionsExact'
    BY <2>0, ThreadIsNoServerStep, NoServerStepPreserves
  <2>4. LockOK'
    BY <2>0, LockPreserved
  <2>5. ActivationOK' /\ OneActiveUnlessRaced'
    BY <2>0, <2>1, ThreadIsCalm, CalmActivation, ActivationPreserved
  <2>6. SentIsOwned'
    BY <2>0, ThreadKeepsOwners, OwnersKeptSuffices
  <2>7. ResponsesOK'
    BY <2>0, ResponsesByThread
  <2> QED
    BY <2>1, <2>2, <2>3, <2>4, <2>5, <2>6, <2>7
<1>3. CASE UNCHANGED vars
  <2> USE <1>3 DEF vars, conVars, threads, serverVars, queues, history, stopVars
  <2>1. TypeOK'
    <3>1. ConnTypes' /\ BufferTypes'
      BY DEF TypeOK, ConnTypes, BufferTypes, Conns, Events
    <3>2. ThreadTypes' /\ ServerTypes'
      BY DEF TypeOK, ThreadTypes, ServerTypes, Conns, Events, Server
    <3>3. QueueTypes'
      BY DEF TypeOK, QueueTypes, Conns, Events
    <3> QED
      BY <3>1, <3>2, <3>3 DEF TypeOK
  <2>2. ThreadsOK' /\ ServerOK' /\ LockOK' /\ OpenConnectionsExact'
    BY DEF ThreadsOK, ServerOK, LockOK, OpenConnectionsExact, At, Conns, Events, Server
  <2>4. OneActiveUnlessRaced' /\ ActivationOK' /\ ResponsesOK'
    BY DEF OneActiveUnlessRaced, ActivationOK, ResponsesOK, Scanned, At, Conns,
      Active, isActive
  <2>5. SentIsOwned'
    BY DEF SentIsOwned, WithState, At, Conns, Events
  <2> QED
    BY <2>1, <2>2, <2>4, <2>5
<1> QED
  BY <1>1, <1>2, <1>3 DEF Next, OtherStep

(* TypeOK, OneActiveUnlessRaced, OpenConnectionsExact and SentIsOwned hold *)
(* in every reachable state, for any number of slots and groups.           *)
THEOREM Invariance == Spec => []IInv
BY InitIInv, NextIInv, PTL DEF Spec

(* Every variable of the server keeps its type in every reachable state. *)
THEOREM TypeCorrect == Spec => []TypeOK
<1>1. IInv => TypeOK
  BY DEF IInv
<1> QED
  BY <1>1, Invariance, PTL

(* At most one connection of a redundancy group is active, as long as no   *)
(* two STARTDT of the group were handled at the same time.                 *)
THEOREM OneActive == Spec => []OneActiveUnlessRaced
<1>1. IInv => OneActiveUnlessRaced
  BY DEF IInv
<1> QED
  BY <1>1, Invariance, PTL

(* openConnections counts the slots in use, less those that a stop has     *)
(* counted as closed and left in use.                                      *)
THEOREM ConnectionsCounted == Spec => []OpenConnectionsExact
<1>1. IInv => OpenConnectionsExact
  BY DEF IInv
<1> QED
  BY <1>1, Invariance, PTL

(* Every event marked as sent has a thread that will confirm or requeue    *)
(* it, except those that a closed connection's thread left behind.         *)
THEOREM SentOwned == Spec => []SentIsOwned
<1>1. IInv => SentIsOwned
  BY DEF IInv
<1> QED
  BY <1>1, Invariance, PTL

(* An active connection sends a queued response only to the client that    *)
(* asked for it, or a late one, unless two connections raced.              *)
THEOREM ResponsesToRequester == Spec => AnswerToRequester
<1>1. ASSUME IInv, NEW c \in Conns, SendResponse(c), isRunning[c], isActive(c)
      PROVE  LET r == Head(highPrioQueue[group[c]])
             IN  r.con = c \/ r.late \/ raced[group[c]]
  <2> DEFINE q == highPrioQueue[group[c]]
  <2>1. isUsed[c] /\ ~At(c, "startdt_con") /\ c \in Active(group[c])
    BY <1>1 DEF SendResponse, IInv, OpenConnectionsExact, Active, At
  <2>2. ~raced[group[c]] => QueueFor(c, q)
    BY <1>1, <2>1 DEF IInv, ResponsesOK
  <2>3. q \in Seq([con : Conns, late : BOOLEAN]) /\ q # <<>>
    BY <1>1 DEF SendResponse, IInv, TypeOK, ConnTypes, QueueTypes
  <2>4. Head(q) = q[1] /\ 1 \in 1..Len(q)
    BY <2>3
  <2> QED
    BY <2>2, <2>4 DEF QueueFor
<1>2. IInv /\ [Next]_vars =>
        [\A c \in Conns : SendResponse(c) /\ isRunning[c] /\ isActive(c) =>
           LET r == Head(highPrioQueue[group[c]])
           IN  r.con = c \/ r.late \/ raced[group[c]]]_vars
  BY <1>1
<1> QED
  BY <1>2, Invariance, PTL DEF Spec, AnswerToRequester
=============================================================================
