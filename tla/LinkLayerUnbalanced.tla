------------------------- MODULE LinkLayerUnbalanced -------------------------
(***************************************************************************)
(* Unbalanced mode: the CS 101 master's primary link layer polls several   *)
(* slaves, one exchange at a time, over a line that every station shares.  *)
(* The master's thread calls LinkLayerPrimaryUnbalanced_run (read at most  *)
(* one frame, then run the state machine of one slave connection); each    *)
(* slave answers in LinkLayerSecondaryUnbalanced_run from its class 1 and  *)
(* class 2 queues (CS101Queue).                                            *)
(*                                                                         *)
(* Frames may be lost, answers may be late (the timer runs out while one   *)
(* is under way), slaves may restart, and a slave of another vendor may    *)
(* say that it is busy.                                                    *)
(***************************************************************************)
EXTENDS CS101Queue, FiniteSets

CONSTANTS
  N,                \* slaves, in the order of LinkLayerPrimaryUnbalanced_addSlaveConnection
  QueueSize,        \* of both queues of a slave
  Repeats,          \* repetitions until timeoutRepeat is over: timeoutRepeat \div
                    \* (timeoutForAck + 1), when run is called every millisecond
  useSingleCharACK,
  Scenarios,        \* what may happen in a behaviour: one of these sets of bounds
  MaxCount          \* bound of what the histories count

Slaves == 1..N
Classes == 1..2

Faults == {"lost", "late", "test", "restart", "foreign"}

(* asdus: slave -> class -> number of ASDUs enqueued; commands: slave ->    *)
(* number of commands sent to it; broadcasts: number of commands sent to   *)
(* all; class1: slaves from which the user requests class 1 data himself.  *)
Scenario ==
  [asdus : [Slaves -> [Classes -> Nat]], commands : [Slaves -> Nat], broadcasts : Nat,
   class1 : SUBSET Slaves, faults : [Faults -> Nat]]

ASSUME UnbalancedAssumption ==
  /\ N \in Nat \ {0} /\ QueueSize \in Nat \ {0}
  /\ Repeats \in Nat /\ useSingleCharACK \in BOOLEAN
  /\ Scenarios \subseteq Scenario
  /\ MaxCount \in Nat

VARIABLES
  (* per slave connection of the master *)
  state, primaryState, waitingForResponse, sendLinkLayerTestFunction, nextFcb,
  nextMessage,          \* the command to send, NoCommand if not hasMessageToSend
  requestClass1Data, requestClass2Data,
  repeats,              \* time since originalSendTime, in units of timeoutForAck
  (* of the master *)
  currentSlave, currentSlaveIndex,
  nextBroadcast,        \* the broadcast to send, NoCommand if not hasNextBroadcastToSend
  mustRun,              \* a frame was read, the state machine has not run since
  (* per slave *)
  expectedFcb,
  userData,             \* userDataBuffer and userDataSize
  queue,                \* slave -> class -> ring buffer
  (* the line *)
  down,                 \* slave -> frames under way to it
  up,                   \* answers under way to the master
  (* what the applications did and saw *)
  enqueued,             \* slave -> class -> number of ASDUs
  submitted,            \* slave -> number of commands given to the master
  refused,              \* slave -> commands for which there was no room
  broadcasts,           \* number of broadcasts given to the master
  received,             \* slave -> class -> the last ASDU handed to the master's application
  receivedAgain,        \* slave -> how often it was no new one
  indicated,            \* slave -> the last command handed to the slave's application
  indicatedAgain,       \* slave -> how often it was no new one
  notIndicated,         \* slave -> how often a command was acknowledged but not indicated
  resets,               \* slave -> number of link resets it answered
  faults,               \* kind -> how many there were
  scenario              \* the bounds of this behaviour

primary == <<state, primaryState, waitingForResponse, sendLinkLayerTestFunction, nextFcb,
             nextMessage, requestClass1Data, requestClass2Data, repeats>>
master == <<currentSlave, currentSlaveIndex, nextBroadcast, mustRun>>
slave == <<expectedFcb, userData, queue>>
application == <<enqueued, submitted, refused, broadcasts>>
history == <<received, receivedAgain, indicated, indicatedAgain, notIndicated, resets>>
vars == <<primary, master, slave, down, up, application, history, faults, scenario>>

NoSlave == 0
NoCommand == 0
NoAsdu == <<0, 0>>
Garbage == <<-1, 0>>            \* what a buffer that was never written holds

(* Frames of the master; the link address is the one of the slave.         *)
Request(fc, fcb, fcv) == [fc |-> fc, fcb |-> fcb, fcv |-> fcv, command |-> NoCommand]
Command(fcb, c) == [fc |-> "USER_DATA_CONFIRMED", fcb |-> fcb, fcv |-> TRUE, command |-> c]
Broadcast(c) == [fc |-> "USER_DATA_NO_REPLY", fcb |-> FALSE, fcv |-> FALSE, command |-> c]

(* Answers; a single character has no address.                             *)
Answer(s, fc, acd) == [from |-> s, fc |-> fc, acd |-> acd, dfc |-> FALSE, asdu |-> NoAsdu]
Data(s, acd, a) == [from |-> s, fc |-> "RESP_USER_DATA", acd |-> acd, dfc |-> FALSE, asdu |-> a]
Busy(s) == [from |-> s, fc |-> "ACK", acd |-> FALSE, dfc |-> TRUE, asdu |-> NoAsdu]
SingleChar == Answer(NoSlave, "ACK", FALSE)
AckOrSingleChar(s, acd) == IF useSingleCharACK /\ ~acd THEN SingleChar ELSE Answer(s, "ACK", acd)

NewConnection ==
  /\ state = [s \in Slaves |-> "IDLE"]
  /\ primaryState = [s \in Slaves |-> "IDLE"]
  /\ waitingForResponse = [s \in Slaves |-> FALSE]
  /\ sendLinkLayerTestFunction = [s \in Slaves |-> FALSE]
  /\ nextFcb = [s \in Slaves |-> TRUE]
  /\ nextMessage = [s \in Slaves |-> NoCommand]
  /\ requestClass1Data = [s \in Slaves |-> FALSE]
  /\ requestClass2Data = [s \in Slaves |-> FALSE]
  /\ repeats = [s \in Slaves |-> 0]

EmptyQueues == [c \in Classes |-> CS101_Queue_initialize(QueueSize, NoAsdu)]

Init ==
  /\ NewConnection
  /\ currentSlave = NoSlave
  /\ currentSlaveIndex = 1
  /\ nextBroadcast = NoCommand
  /\ mustRun = FALSE
  /\ expectedFcb = [s \in Slaves |-> TRUE]
  /\ userData = [s \in Slaves |-> Garbage]
  /\ queue = [s \in Slaves |-> EmptyQueues]
  /\ down = [s \in Slaves |-> <<>>]
  /\ up = <<>>
  /\ enqueued = [s \in Slaves |-> [c \in Classes |-> 0]]
  /\ submitted = [s \in Slaves |-> 0]
  /\ refused = [s \in Slaves |-> {}]
  /\ broadcasts = 0
  /\ received = [s \in Slaves |-> [c \in Classes |-> 0]]
  /\ receivedAgain = [s \in Slaves |-> 0]
  /\ indicated = [s \in Slaves |-> NoCommand]
  /\ indicatedAgain = [s \in Slaves |-> 0]
  /\ notIndicated = [s \in Slaves |-> 0]
  /\ resets = [s \in Slaves |-> 0]
  /\ faults = [k \in Faults |-> 0]
  /\ scenario \in Scenarios

(* The histories count up to a bound. *)
Counted(count, s, more) ==
  [count EXCEPT ![s] = IF more /\ @ < MaxCount THEN @ + 1 ELSE @]

---------------------------------------------------------------------------
(* The applications.                                                       *)

Fault(kind) ==
  /\ faults[kind] < scenario.faults[kind]
  /\ faults' = [faults EXCEPT ![kind] = @ + 1]
  /\ UNCHANGED scenario

(* The slave's application has new data. *)
Enqueue(s, c) ==
  /\ enqueued[s][c] < scenario.asdus[s][c]
  /\ enqueued' = [enqueued EXCEPT ![s][c] = @ + 1]
  /\ queue' = [queue EXCEPT ![s][c] = CS101_Queue_enqueue(@, QueueSize, <<c, enqueued[s][c] + 1>>)]
  /\ UNCHANGED <<primary, master, expectedFcb, userData, down, up, submitted, refused, broadcasts,
                 history, faults, scenario>>

(* CS101_Master_pollSingleSlave and CS101_Master_pollSingleSlaveClass1.    *)
Poll(s) ==
  /\ ~requestClass2Data[s]
  /\ requestClass2Data' = [requestClass2Data EXCEPT ![s] = TRUE]
  /\ UNCHANGED <<state, primaryState, waitingForResponse, sendLinkLayerTestFunction, nextFcb,
                 nextMessage, requestClass1Data, repeats, master, slave, down, up, application,
                 history, faults, scenario>>

PollClass1(s) ==
  /\ s \in scenario.class1
  /\ ~requestClass1Data[s]
  /\ requestClass1Data' = [requestClass1Data EXCEPT ![s] = TRUE]
  /\ UNCHANGED <<state, primaryState, waitingForResponse, sendLinkLayerTestFunction, nextFcb,
                 nextMessage, requestClass2Data, repeats, master, slave, down, up, application,
                 history, faults, scenario>>

(* CS101_Master_sendASDU: the only buffer is free, or the ASDU is dropped  *)
(* (the false of LinkLayerPrimaryUnbalanced_sendConfirmed is ignored).     *)
SendASDU(s) ==
  /\ submitted[s] < scenario.commands[s]
  /\ submitted' = [submitted EXCEPT ![s] = @ + 1]
  /\ IF nextMessage[s] = NoCommand
     THEN nextMessage' = [nextMessage EXCEPT ![s] = submitted'[s]] /\ UNCHANGED refused
     ELSE refused' = [refused EXCEPT ![s] = @ \cup {submitted'[s]}] /\ UNCHANGED nextMessage
  /\ UNCHANGED <<state, primaryState, waitingForResponse, sendLinkLayerTestFunction, nextFcb,
                 requestClass1Data, requestClass2Data, repeats, master, slave, down, up, enqueued,
                 broadcasts, history, faults, scenario>>

(* A broadcast is numbered below zero.                                     *)
SendBroadcast ==
  /\ broadcasts < scenario.broadcasts
  /\ broadcasts' = broadcasts + 1
  /\ nextBroadcast' = IF nextBroadcast = NoCommand THEN -broadcasts' ELSE nextBroadcast
  /\ UNCHANGED <<primary, currentSlave, currentSlaveIndex, mustRun, slave, down, up, enqueued,
                 submitted, refused, history, faults, scenario>>

sendTest(s) ==
  /\ ~sendLinkLayerTestFunction[s]
  /\ Fault("test")
  /\ sendLinkLayerTestFunction' = [sendLinkLayerTestFunction EXCEPT ![s] = TRUE]
  /\ UNCHANGED <<state, primaryState, waitingForResponse, nextFcb, nextMessage, requestClass1Data,
                 requestClass2Data, repeats, master, slave, down, up, application, history>>

(* The line loses a frame to a slave, or the first answer.                 *)
Lose ==
  /\ Fault("lost")
  /\ \/ \E s \in Slaves : /\ down[s] # <<>>
                          /\ down' = [down EXCEPT ![s] = Tail(@)]
                          /\ UNCHANGED up
     \/ up # <<>> /\ up' = Tail(up) /\ UNCHANGED down
  /\ UNCHANGED <<primary, master, slave, application, history>>

(* A slave loses its memory; the frames under way to it wait for it.       *)
RestartSlave(s) ==
  /\ Fault("restart")
  /\ expectedFcb' = [expectedFcb EXCEPT ![s] = TRUE]
  /\ userData' = [userData EXCEPT ![s] = Garbage]
  /\ queue' = [queue EXCEPT ![s] = EmptyQueues]
  /\ UNCHANGED <<primary, master, down, up, application, history>>

---------------------------------------------------------------------------
(* The secondary: LinkLayerSecondaryUnbalanced_handleMessage.              *)

Take(s) == down[s] # <<>> /\ down' = [down EXCEPT ![s] = Tail(@)]
TakeAndSend(s, fc, answer) ==
  /\ Take(s)
  /\ Head(down[s]).fc = fc
  /\ up' = Append(up, answer)

rightFCB(s, f) == f.fcv => f.fcb = expectedFcb[s]

(* Mutant: the expected FCB is not toggled. *)
checkFCB_not(s, f) == UNCHANGED expectedFcb

(* Of a frame with FCV, the FCB has to be the expected one; then the next  *)
(* one is expected.                                                        *)
checkFCB(s, f) ==
  expectedFcb' = [expectedFcb EXCEPT ![s] = IF f.fcv /\ rightFCB(s, f) THEN ~@ ELSE @]

IsClass1DataAvailable(q) == ~CS101_Queue_isEmpty(q[1])

HandleRequestLinkStatus(s) ==
  /\ TakeAndSend(s, "REQUEST_LINK_STATUS",
                 Answer(s, "STATUS_OF_LINK", IsClass1DataAvailable(queue[s])))
  /\ UNCHANGED <<primary, master, slave, application, history, faults, scenario>>

(* The application's handler may flush its queues, or not.                 *)
ResetCUReceived(s) ==
  \/ UNCHANGED queue
  \/ queue' = [queue EXCEPT ![s] = [c \in Classes |-> CS101_Queue_flush(@[c])]]

HandleResetRemoteLink(s) ==
  /\ TakeAndSend(s, "RESET_REMOTE_LINK", AckOrSingleChar(s, FALSE))
  /\ expectedFcb' = [expectedFcb EXCEPT ![s] = TRUE]
  /\ ResetCUReceived(s)
  /\ resets' = Counted(resets, s, TRUE)
  /\ UNCHANGED <<primary, master, userData, application, received, receivedAgain, indicated,
                 indicatedAgain, notIndicated, faults, scenario>>

repeatedRequest(s, f) == ~rightFCB(s, f)

NoData(s, acd) ==
  IF useSingleCharACK /\ ~acd THEN SingleChar ELSE Answer(s, "RESP_NACK_NO_DATA", acd)

(* The oldest ASDU of the class, if any, goes to userDataBuffer.           *)
GetClassData(s, c) ==
  /\ queue' = [queue EXCEPT ![s][c] = CS101_Queue_dequeue(@, QueueSize)]
  /\ userData' = [userData EXCEPT ![s] = IF CS101_Queue_isEmpty(queue[s][c])
                                         THEN NoAsdu ELSE CS101_Queue_first(queue[s][c])]

(* A repeated request gets what is in userDataBuffer, from whichever class *)
(* it came; a new one the next ASDU of the class.  The size of a buffer    *)
(* that was never written is not initialized either: it may be zero, and   *)
(* more than a frame can carry.                                            *)
HandleRequestUserData(s, c, fc) ==
  /\ Take(s)
  /\ Head(down[s]).fc = fc
  /\ checkFCB(s, Head(down[s]))
  /\ IF repeatedRequest(s, Head(down[s]))
     THEN UNCHANGED <<queue, userData>>
     ELSE GetClassData(s, c)
  /\ LET acd == IsClass1DataAvailable(queue'[s])
     IN  \/ userData'[s] # NoAsdu /\ up' = Append(up, Data(s, acd, userData'[s]))
         \/ userData'[s] \in {NoAsdu, Garbage} /\ up' = Append(up, NoData(s, acd))
         \/ userData'[s] = Garbage /\ up' = up
  /\ UNCHANGED <<primary, master, application, history, faults, scenario>>

(* The command is handed to the application. *)
HandleReceivedData(s, c) ==
  /\ indicated' = [indicated EXCEPT ![s] = c]
  /\ indicatedAgain' = Counted(indicatedAgain, s, c = indicated[s])

(* A repeated command is acknowledged and not handled again.               *)
HandleUserDataConfirmed(s) ==
  /\ TakeAndSend(s, "USER_DATA_CONFIRMED", AckOrSingleChar(s, IsClass1DataAvailable(queue[s])))
  /\ checkFCB(s, Head(down[s]))
  /\ IF rightFCB(s, Head(down[s]))
     THEN HandleReceivedData(s, Head(down[s]).command)
     ELSE UNCHANGED <<indicated, indicatedAgain>>
  /\ UNCHANGED <<primary, master, userData, queue, application, received, receivedAgain,
                 notIndicated, resets, faults, scenario>>

HandleUserDataNoReply(s) ==
  /\ Take(s)
  /\ Head(down[s]).fc = "USER_DATA_NO_REPLY"
  /\ UNCHANGED <<primary, master, slave, up, application, history, faults, scenario>>

(* The secondary has no test function.                                     *)
HandleTestFunction(s) ==
  /\ TakeAndSend(s, "TEST_FUNCTION_FOR_LINK", Answer(s, "SERVICE_NOT_IMPLEMENTED", FALSE))
  /\ UNCHANGED <<primary, master, slave, application, history, faults, scenario>>

(* A slave of another vendor is busy, and does not take the frame.         *)
ForeignAnswer(s) ==
  /\ Fault("foreign")
  /\ Take(s)
  /\ Head(down[s]).fc # "USER_DATA_NO_REPLY"
  /\ \E a \in {Busy(s), Answer(s, "NACK", FALSE)} : up' = Append(up, a)
  /\ UNCHANGED <<primary, master, slave, application, history>>

SlaveRun(s) ==
  \/ HandleRequestLinkStatus(s) \/ HandleResetRemoteLink(s)
  \/ HandleRequestUserData(s, 1, "REQUEST_USER_DATA_CLASS_1")
  \/ HandleRequestUserData(s, 2, "REQUEST_USER_DATA_CLASS_2")
  \/ HandleUserDataConfirmed(s) \/ HandleUserDataNoReply(s) \/ HandleTestFunction(s)

---------------------------------------------------------------------------
(* The primary: LinkLayerSlaveConnection_HandleMessage.  A single          *)
(* character is taken for an answer of the slave whose turn it is.         *)

answering == IF Head(up).from = NoSlave THEN currentSlave ELSE Head(up).from

Read == ~mustRun /\ up # <<>> /\ mustRun' = TRUE /\ up' = Tail(up)

ReadAnswer(s, fcs) == Read /\ answering = s /\ ~Head(up).dfc /\ Head(up).fc \in fcs

SetState(s, new) == state' = [state EXCEPT ![s] = new]
SetPrimaryState(s, new) == primaryState' = [primaryState EXCEPT ![s] = new]
Available(s) == SetPrimaryState(s, "LINK_LAYERS_AVAILABLE") /\ SetState(s, "AVAILABLE")
Illegal(s) == SetPrimaryState(s, "IDLE") /\ SetState(s, "ERROR")
Waits(s, b) == waitingForResponse' = [waitingForResponse EXCEPT ![s] = b]

(* ACD asks for a class 1 request. *)
AccessDemand(s) == requestClass1Data' = [requestClass1Data EXCEPT ![s] = @ \/ Head(up).acd]

(* DFC: nothing but the state is changed, and nobody leaves BUSY.          *)
HandleDFC(s) ==
  /\ Read
  /\ answering = s
  /\ Head(up).dfc
  /\ SetPrimaryState(s, IF primaryState[s] = "RESET_REMOTE_LINK" THEN "REQUEST_STATUS"
                         ELSE IF primaryState[s] = "SEND_CONFIRM" THEN "BUSY"
                         ELSE primaryState[s])
  /\ SetState(s, "BUSY")
  /\ UNCHANGED <<waitingForResponse, sendLinkLayerTestFunction, nextFcb, nextMessage,
                 requestClass1Data, requestClass2Data, repeats, currentSlave, currentSlaveIndex,
                 nextBroadcast, slave, down, application, history, faults, scenario>>

(* The ACK of a command, unless a test was requested in the meantime.      *)
HandleAck(s) ==
  /\ ReadAnswer(s, {"ACK"})
  /\ primaryState[s] = "SEND_CONFIRM"
  /\ IF sendLinkLayerTestFunction[s]
     THEN /\ sendLinkLayerTestFunction' = [sendLinkLayerTestFunction EXCEPT ![s] = FALSE]
          /\ UNCHANGED <<nextMessage, notIndicated>>
     ELSE /\ nextMessage' = [nextMessage EXCEPT ![s] = NoCommand]
          /\ notIndicated' = Counted(notIndicated, s, indicated[s] # nextMessage[s])
          /\ UNCHANGED sendLinkLayerTestFunction
  /\ Available(s)
  /\ Waits(s, FALSE)
  /\ AccessDemand(s)
  /\ UNCHANGED <<nextFcb, requestClass2Data, repeats, currentSlave, currentSlaveIndex,
                 nextBroadcast, slave, down, application, received, receivedAgain, indicated,
                 indicatedAgain, resets, faults, scenario>>

(* Any other ACK: it makes the link available after a reset and, as the    *)
(* single character for NO DATA, after a request.                          *)
HandleOtherAck(s) ==
  /\ ReadAnswer(s, {"ACK"})
  /\ primaryState[s] # "SEND_CONFIRM"
  /\ IF primaryState[s] \in {"RESET_REMOTE_LINK", "REQUEST_RESPOND"}
     THEN Available(s)
     ELSE UNCHANGED <<primaryState, state>>
  /\ Waits(s, FALSE)
  /\ AccessDemand(s)
  /\ UNCHANGED <<sendLinkLayerTestFunction, nextFcb, nextMessage, requestClass2Data, repeats,
                 currentSlave, currentSlaveIndex, nextBroadcast, slave, down, application, history,
                 faults, scenario>>

HandleNack(s) ==
  /\ ReadAnswer(s, {"NACK"})
  /\ IF primaryState[s] = "SEND_CONFIRM"
     THEN SetPrimaryState(s, "BUSY") /\ SetState(s, "BUSY")
     ELSE UNCHANGED <<primaryState, state>>
  /\ Waits(s, FALSE)
  /\ UNCHANGED <<sendLinkLayerTestFunction, nextFcb, nextMessage, requestClass1Data,
                 requestClass2Data, repeats, currentSlave, currentSlaveIndex, nextBroadcast, slave,
                 down, application, history, faults, scenario>>

(* The reset is sent at once; nextFcb is left alone.                       *)
HandleStatusOfLink(s) ==
  /\ ReadAnswer(s, {"STATUS_OF_LINK"})
  /\ IF primaryState[s] = "REQUEST_STATUS"
     THEN /\ down' = [down EXCEPT ![s] = Append(@, Request("RESET_REMOTE_LINK", FALSE, FALSE))]
          /\ SetPrimaryState(s, "RESET_REMOTE_LINK")
          /\ SetState(s, "BUSY")
          /\ Waits(s, TRUE)
     ELSE Illegal(s) /\ UNCHANGED <<down, waitingForResponse>>
  /\ AccessDemand(s)
  /\ UNCHANGED <<sendLinkLayerTestFunction, nextFcb, nextMessage, requestClass2Data, repeats,
                 currentSlave, currentSlaveIndex, nextBroadcast, slave, application, history,
                 faults, scenario>>

(* The ASDU is handed to the application. *)
UserData(s, a) ==
  IF a = Garbage
  THEN receivedAgain' = Counted(receivedAgain, s, TRUE) /\ UNCHANGED received
  ELSE /\ received' = [received EXCEPT ![s][a[1]] = a[2]]
       /\ receivedAgain' = Counted(receivedAgain, s, a[2] = received[s][a[1]])

(* User data that answers a request; the requests are forgotten, but for   *)
(* an access demand.                                                       *)
HandleUserData(s) ==
  /\ ReadAnswer(s, {"RESP_USER_DATA"})
  /\ primaryState[s] = "REQUEST_RESPOND"
  /\ UserData(s, Head(up).asdu)
  /\ requestClass1Data' = [requestClass1Data EXCEPT ![s] = Head(up).acd]
  /\ requestClass2Data' = [requestClass2Data EXCEPT ![s] = FALSE]
  /\ Available(s)
  /\ Waits(s, FALSE)
  /\ UNCHANGED <<sendLinkLayerTestFunction, nextFcb, nextMessage, repeats, currentSlave,
                 currentSlaveIndex, nextBroadcast, slave, down, application, indicated,
                 indicatedAgain, notIndicated, resets, faults, scenario>>

HandleNoData(s) ==
  /\ ReadAnswer(s, {"RESP_NACK_NO_DATA"})
  /\ primaryState[s] = "REQUEST_RESPOND"
  /\ Available(s)
  /\ Waits(s, FALSE)
  /\ AccessDemand(s)
  /\ UNCHANGED <<sendLinkLayerTestFunction, nextFcb, nextMessage, requestClass2Data, repeats,
                 currentSlave, currentSlaveIndex, nextBroadcast, slave, down, application, history,
                 faults, scenario>>

(* Data, or the lack of it, that nobody waits for.                         *)
HandleUnexpectedData(s) ==
  /\ ReadAnswer(s, {"RESP_USER_DATA", "RESP_NACK_NO_DATA"})
  /\ primaryState[s] # "REQUEST_RESPOND"
  /\ Illegal(s)
  /\ Waits(s, FALSE)
  /\ AccessDemand(s)
  /\ UNCHANGED <<sendLinkLayerTestFunction, nextFcb, nextMessage, requestClass2Data, repeats,
                 currentSlave, currentSlaveIndex, nextBroadcast, slave, down, application, history,
                 faults, scenario>>

(* The state machine stays in REQUEST_RESPOND, where a test has put it.    *)
HandleServiceNotImplemented(s) ==
  /\ ReadAnswer(s, {"SERVICE_NOT_IMPLEMENTED"})
  /\ IF primaryState[s] = "SEND_CONFIRM" THEN Available(s) ELSE UNCHANGED <<primaryState, state>>
  /\ Waits(s, FALSE)
  /\ UNCHANGED <<sendLinkLayerTestFunction, nextFcb, nextMessage, requestClass1Data,
                 requestClass2Data, repeats, currentSlave, currentSlaveIndex, nextBroadcast, slave,
                 down, application, history, faults, scenario>>

HandleMessage ==
  \E s \in Slaves :
       \/ HandleDFC(s) \/ HandleAck(s) \/ HandleOtherAck(s) \/ HandleNack(s)
       \/ HandleStatusOfLink(s) \/ HandleUserData(s) \/ HandleNoData(s)
       \/ HandleUnexpectedData(s) \/ HandleServiceNotImplemented(s)

---------------------------------------------------------------------------
(* The primary: LinkLayerPrimaryUnbalanced_runStateMachine, and            *)
(* LinkLayerSlaveConnection_runStateMachine of the slave whose turn it is. *)

(* The state machine runs after every frame, and when there is none.       *)
Run == (mustRun \/ up = <<>>) /\ mustRun' = FALSE

(* A broadcast goes out whatever the state of the exchange.                *)
RunBroadcast ==
  /\ Run
  /\ nextBroadcast # NoCommand
  /\ down' = [s \in Slaves |-> Append(down[s], Broadcast(nextBroadcast))]
  /\ nextBroadcast' = NoCommand
  /\ UNCHANGED <<primary, currentSlave, currentSlaveIndex, slave, up, application, history, faults,
                 scenario>>

(* Mutant: the next slave's turn comes although this one has to answer.    *)
exchangeEnds_always == TRUE

exchangeEnds == currentSlave = NoSlave \/ ~waitingForResponse[currentSlave]

(* Round robin, one slave at a time.                                       *)
Turn(s) ==
  /\ Run
  /\ nextBroadcast = NoCommand
  /\ s = IF exchangeEnds THEN currentSlaveIndex ELSE currentSlave
  /\ currentSlave' = s
  /\ currentSlaveIndex' = IF exchangeEnds THEN (currentSlaveIndex % N) + 1 ELSE currentSlaveIndex
  /\ UNCHANGED <<nextBroadcast, slave, up, application, history>>

Send(s, frame) == down' = [down EXCEPT ![s] = Append(@, frame)]

(* timeoutForAck has passed: nothing is under way, or what is is late.     *)
quiet == up = <<>> /\ \A s \in Slaves : down[s] = <<>>

Timeout == IF quiet THEN UNCHANGED <<faults, scenario>> ELSE Fault("late")

RunIdle(s) ==
  /\ Turn(s)
  /\ primaryState[s] = "IDLE"
  /\ Send(s, Request("REQUEST_LINK_STATUS", FALSE, FALSE))
  /\ sendLinkLayerTestFunction' = [sendLinkLayerTestFunction EXCEPT ![s] = FALSE]
  /\ SetPrimaryState(s, "REQUEST_STATUS")
  /\ Waits(s, TRUE)
  /\ UNCHANGED <<state, nextFcb, nextMessage, requestClass1Data, requestClass2Data, repeats, faults,
                 scenario>>

(* timeoutLinkState has passed. *)
RunTimeoutOver(s) ==
  /\ Turn(s)
  /\ primaryState[s] = "TIMEOUT"
  /\ SetPrimaryState(s, "IDLE")
  /\ UNCHANGED <<state, waitingForResponse, sendLinkLayerTestFunction, nextFcb, nextMessage,
                 requestClass1Data, requestClass2Data, repeats, down, faults, scenario>>

(* Mutant: the wait for a link status has no end. *)
hasTimeout_noStatus(s) == primaryState[s] = "RESET_REMOTE_LINK"

hasTimeout(s) == primaryState[s] \in {"REQUEST_STATUS", "RESET_REMOTE_LINK"}

RunTimeoutStatusOrReset(s) ==
  /\ Turn(s)
  /\ hasTimeout(s)
  /\ waitingForResponse[s]
  /\ Timeout
  /\ SetPrimaryState(s, "TIMEOUT")
  /\ Waits(s, FALSE)
  /\ IF primaryState[s] = "RESET_REMOTE_LINK" THEN SetState(s, "ERROR") ELSE UNCHANGED state
  /\ UNCHANGED <<sendLinkLayerTestFunction, nextFcb, nextMessage, requestClass1Data,
                 requestClass2Data, repeats, down>>

(* Something other than the answer has cleared waitingForResponse.         *)
RunResetWithoutStatus(s) ==
  /\ Turn(s)
  /\ primaryState[s] = "REQUEST_STATUS"
  /\ ~waitingForResponse[s]
  /\ Send(s, Request("RESET_REMOTE_LINK", FALSE, FALSE))
  /\ nextFcb' = [nextFcb EXCEPT ![s] = TRUE]
  /\ SetPrimaryState(s, "RESET_REMOTE_LINK")
  /\ Waits(s, TRUE)
  /\ UNCHANGED <<state, sendLinkLayerTestFunction, nextMessage, requestClass1Data,
                 requestClass2Data, repeats, faults, scenario>>

RunAvailableWithoutAck(s) ==
  /\ Turn(s)
  /\ primaryState[s] = "RESET_REMOTE_LINK"
  /\ ~waitingForResponse[s]
  /\ Available(s)
  /\ UNCHANGED <<waitingForResponse, sendLinkLayerTestFunction, nextFcb, nextMessage,
                 requestClass1Data, requestClass2Data, repeats, down, faults, scenario>>

(* A new exchange on an available link: a test before a command before a   *)
(* request for class 1 before one for class 2.                             *)
NewExchange(s, frame, new) ==
  /\ Turn(s)
  /\ primaryState[s] = "LINK_LAYERS_AVAILABLE"
  /\ Send(s, frame)
  /\ SetPrimaryState(s, new)
  /\ Waits(s, TRUE)
  /\ nextFcb' = [nextFcb EXCEPT ![s] = ~@]
  /\ repeats' = [repeats EXCEPT ![s] = 0]
  /\ UNCHANGED <<state, sendLinkLayerTestFunction, nextMessage, faults, scenario>>

RunSendTest(s) ==
  /\ NewExchange(s, Request("TEST_FUNCTION_FOR_LINK", nextFcb[s], TRUE), "REQUEST_RESPOND")
  /\ sendLinkLayerTestFunction[s]
  /\ UNCHANGED <<requestClass1Data, requestClass2Data>>

RunSendCommand(s) ==
  /\ NewExchange(s, Command(nextFcb[s], nextMessage[s]), "SEND_CONFIRM")
  /\ ~sendLinkLayerTestFunction[s]
  /\ nextMessage[s] # NoCommand
  /\ UNCHANGED <<requestClass1Data, requestClass2Data>>

RunRequestClass1(s) ==
  /\ NewExchange(s, Request("REQUEST_USER_DATA_CLASS_1", nextFcb[s], TRUE), "REQUEST_RESPOND")
  /\ ~sendLinkLayerTestFunction[s] /\ nextMessage[s] = NoCommand
  /\ requestClass1Data[s]
  /\ requestClass1Data' = [requestClass1Data EXCEPT ![s] = FALSE]
  /\ UNCHANGED requestClass2Data

RunRequestClass2(s) ==
  /\ NewExchange(s, Request("REQUEST_USER_DATA_CLASS_2", nextFcb[s], TRUE), "REQUEST_RESPOND")
  /\ ~sendLinkLayerTestFunction[s] /\ nextMessage[s] = NoCommand
  /\ ~requestClass1Data[s] /\ requestClass2Data[s]
  /\ requestClass2Data' = [requestClass2Data EXCEPT ![s] = FALSE]
  /\ UNCHANGED requestClass1Data

(* The repetition has the FCB of the original.  Of a request it need not   *)
(* have the class: the flag of class 1 was cleared when it was sent.       *)
repetition(s) ==
  IF primaryState[s] = "SEND_CONFIRM"
  THEN IF sendLinkLayerTestFunction[s]
       THEN Request("TEST_FUNCTION_FOR_LINK", ~nextFcb[s], TRUE)
       ELSE Command(~nextFcb[s], nextMessage[s])
  ELSE Request(IF requestClass1Data[s] THEN "REQUEST_USER_DATA_CLASS_1"
                                       ELSE "REQUEST_USER_DATA_CLASS_2", ~nextFcb[s], TRUE)

RunRepeat(s) ==
  /\ Turn(s)
  /\ primaryState[s] \in {"SEND_CONFIRM", "REQUEST_RESPOND"}
  /\ repeats[s] < Repeats
  /\ Timeout
  /\ Send(s, repetition(s))
  /\ repeats' = [repeats EXCEPT ![s] = @ + 1]
  /\ UNCHANGED <<state, primaryState, waitingForResponse, sendLinkLayerTestFunction, nextFcb,
                 nextMessage, requestClass1Data, requestClass2Data>>

(* The command stays in its buffer, to be sent again on the next link.     *)
RunGiveUpCommand(s) ==
  /\ Turn(s)
  /\ primaryState[s] = "SEND_CONFIRM"
  /\ repeats[s] = Repeats
  /\ Timeout
  /\ SetPrimaryState(s, "TIMEOUT")
  /\ SetState(s, "ERROR")
  /\ Waits(s, FALSE)
  /\ UNCHANGED <<sendLinkLayerTestFunction, nextFcb, nextMessage, requestClass1Data,
                 requestClass2Data, repeats, down>>

RunGiveUpRequest(s) ==
  /\ Turn(s)
  /\ primaryState[s] = "REQUEST_RESPOND"
  /\ repeats[s] = Repeats
  /\ Timeout
  /\ Illegal(s)
  /\ requestClass1Data' = [requestClass1Data EXCEPT ![s] = FALSE]
  /\ requestClass2Data' = [requestClass2Data EXCEPT ![s] = FALSE]
  /\ UNCHANGED <<waitingForResponse, sendLinkLayerTestFunction, nextFcb, nextMessage, repeats, down>>

(* Nothing to send, or no timer that has run out.                          *)
RunNothing(s) ==
  /\ Turn(s)
  /\ primaryState[s] = "LINK_LAYERS_AVAILABLE" =>
       /\ ~sendLinkLayerTestFunction[s] /\ nextMessage[s] = NoCommand
       /\ ~requestClass1Data[s] /\ ~requestClass2Data[s]
  /\ primaryState[s] # "IDLE"
  /\ primaryState[s] \in {"REQUEST_STATUS", "RESET_REMOTE_LINK"} => waitingForResponse[s]
  /\ UNCHANGED <<primary, down, faults, scenario>>

RunStateMachine ==
  \/ RunBroadcast
  \/ \E s \in Slaves :
       \/ RunIdle(s) \/ RunTimeoutOver(s) \/ RunTimeoutStatusOrReset(s)
       \/ RunResetWithoutStatus(s) \/ RunAvailableWithoutAck(s)
       \/ RunSendTest(s) \/ RunSendCommand(s) \/ RunRequestClass1(s) \/ RunRequestClass2(s)
       \/ RunRepeat(s) \/ RunGiveUpCommand(s) \/ RunGiveUpRequest(s) \/ RunNothing(s)

Next ==
  \/ HandleMessage \/ RunStateMachine
  \/ SendBroadcast \/ Lose
  \/ \E s \in Slaves :
       \/ SlaveRun(s) \/ ForeignAnswer(s) \/ RestartSlave(s)
       \/ Poll(s) \/ PollClass1(s) \/ SendASDU(s) \/ sendTest(s)
       \/ \E c \in Classes : Enqueue(s, c)

(* Both threads go on, and a timer that is started runs out in the end.    *)
Timer(s) ==
  \/ RunTimeoutOver(s) \/ RunTimeoutStatusOrReset(s) \/ RunRepeat(s)
  \/ RunGiveUpCommand(s) \/ RunGiveUpRequest(s)

Fairness ==
  /\ WF_vars(HandleMessage) /\ WF_vars(RunStateMachine)
  /\ \A s \in Slaves : WF_vars(SlaveRun(s)) /\ SF_vars(Timer(s))

Spec == Init /\ [][Next]_vars /\ Fairness

---------------------------------------------------------------------------
AsdusOf(s) == UNION {{c} \X (1..scenario.asdus[s][c]) : c \in Classes}
CommandsTo(s) == 1..scenario.commands[s]

(* After a late answer, a test or a refusal an exchange may end before its *)
(* answer has come, and master and slave may stay one answer out of step   *)
(* forever: each answer then ends an exchange that was begun after it was  *)
(* sent, and a single character is taken for the answer of whoever has the *)
(* turn.                                                                   *)
OutOfStep == faults.late + faults.test + faults.foreign > 0

(* Every variable holds a value the code can store; the master waits for   *)
(* no other slave than the one whose turn it is, and the branches of the   *)
(* state machine for a status request or a reset that nobody waits for are *)
(* not reached, unless the master is out of step.                          *)
TypeOK ==
  /\ state \in [Slaves -> {"IDLE", "ERROR", "BUSY", "AVAILABLE"}]
  /\ primaryState \in [Slaves -> {"IDLE", "TIMEOUT", "REQUEST_STATUS", "RESET_REMOTE_LINK",
                                  "LINK_LAYERS_AVAILABLE", "SEND_CONFIRM", "REQUEST_RESPOND",
                                  "BUSY"}]
  /\ waitingForResponse \in [Slaves -> BOOLEAN]
  /\ sendLinkLayerTestFunction \in [Slaves -> BOOLEAN]
  /\ nextFcb \in [Slaves -> BOOLEAN] /\ expectedFcb \in [Slaves -> BOOLEAN]
  /\ requestClass1Data \in [Slaves -> BOOLEAN] /\ requestClass2Data \in [Slaves -> BOOLEAN]
  /\ repeats \in [Slaves -> 0..Repeats]
  /\ currentSlave \in 0..N /\ currentSlaveIndex \in Slaves
  /\ nextBroadcast \in (0 - scenario.broadcasts)..0
  /\ \A s \in Slaves :
       /\ nextMessage[s] \in CommandsTo(s) \cup {NoCommand}
       /\ primaryState[s] = "SEND_CONFIRM" => nextMessage[s] # NoCommand
       /\ userData[s] \in AsdusOf(s) \cup {NoAsdu, Garbage}
       /\ waitingForResponse[s] => s = currentSlave \/ OutOfStep
       /\ primaryState[s] \in {"REQUEST_STATUS", "RESET_REMOTE_LINK"} /\ ~waitingForResponse[s]
            => OutOfStep

(* The line is not used by two stations at a time: there is never more     *)
(* than one frame under way.  Excepted are broadcasts (they do not wait    *)
(* for the answer that is due) and a master that is out of step.           *)
OneFrameAtATime ==
  LET under(s) == Len(down[s])
  IN  ~OutOfStep /\ broadcasts = 0 =>
        \A s \in Slaves : Len(up) + under(s) <= 1
                          /\ \A t \in Slaves \ {s} : under(s) = 0 \/ under(t) = 0

(* However entries are enqueued, sent and flushed, a class queue holds the *)
(* newest of them in their order: a full ring buffer loses the oldest,     *)
(* never one in between and never the new one.                             *)
QueueKeepsNewest ==
  \A s \in Slaves, c \in Classes :
    LET held == contents(queue[s][c], QueueSize)
    IN  \A i \in DOMAIN held : held[i] = <<c, enqueued[s][c] - Len(held) + i>>

(* Commands, and the data of a class, arrive in the order in which they    *)
(* were accepted, whatever is lost, late or restarted.                     *)
ArriveInOrder ==
  [][\A s \in Slaves :
       /\ indicated'[s] >= indicated[s]
       /\ \A c \in Classes : received'[s][c] >= received[s][c]]_vars

(* What can end an exchange out of step: a link reset leaves nextFcb       *)
(* alone, a restart and a test change one of the two frame count bits.     *)
Disturbances(s) ==
  resets[s] + faults.restart + faults.late + faults.test + faults.foreign

AtMostDisturbances(count) ==
  \A s \in Slaves : resets[s] < MaxCount => count[s] <= Disturbances(s)

(* Whatever frames are lost, only a link reset or a disturbance between    *)
(* the two makes a station take a repeated frame for a new one, or a new   *)
(* one for a repeated one: a command is handed to the slave's application  *)
(* twice, an ASDU comes twice, or a buffer that was never written once, at *)
(* most once for each of them.  A command is acknowledged and dropped no   *)
(* more often either, while the master is in step: out of step each ACK is *)
(* taken for that of the next command, which need not have arrived.        *)
OnceUnlessDisturbed ==
  /\ AtMostDisturbances(indicatedAgain)
  /\ AtMostDisturbances(receivedAgain)
  /\ ~OutOfStep => AtMostDisturbances(notIndicated)

(* The master gives every slave its turn, whatever is lost or restarted:   *)
(* each link becomes available again and again, and a command in the       *)
(* buffer is acknowledged in the end.                                      *)
EverySlaveServed ==
  \A s \in Slaves :
    /\ []<>(primaryState[s] = "LINK_LAYERS_AVAILABLE" \/ OutOfStep)
    /\ nextMessage[s] # NoCommand ~> nextMessage[s] = NoCommand \/ OutOfStep
=============================================================================
