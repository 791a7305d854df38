-------------------------- MODULE LinkLayerBalanced --------------------------
(***************************************************************************)
(* The FT 1.2 link layer in balanced mode: two stations on one line, each  *)
(* with a primary link layer that sends and a secondary link layer that    *)
(* answers, both inside the single thread that calls LinkLayerBalanced_run *)
(* (read at most one frame, then run the primary's state machine).         *)
(*                                                                         *)
(* The line keeps the order of the frames and may lose any of them: a      *)
(* frame with a wrong length, checksum or start character is dropped by    *)
(* HandleMessageBalancedAndPrimaryUnbalanced.  A timer runs out when both  *)
(* directions of the line are empty, or earlier, when the answer is late.  *)
(* The queues of the application (one for a master, class 1 and class 2    *)
(* for a slave) hold the numbers of ASDUs.                                 *)
(***************************************************************************)
EXTENDS Integers, Sequences, FiniteSets

CONSTANTS
  Stations,     \* the two stations
  Classes,      \* station -> the classes of its user data, 1 first
  Asdus,        \* station -> number of ASDUs enqueued per class (bound)
  Repeats,      \* repetitions until timeoutRepeat is over: timeoutRepeat \div
                \* (timeoutForAck + 1), when run is called every millisecond
  MaxFaults     \* bound: frames lost, timers that run out while an answer is
                \* under way, tests of the link, answers of another vendor's
                \* secondary, all together

ASSUME BalancedAssumption ==
  /\ IsFiniteSet(Stations) /\ Cardinality(Stations) = 2
  /\ Classes \in [Stations -> SUBSET {1, 2}] /\ Asdus \in [Stations -> Nat]
  /\ Repeats \in Nat /\ MaxFaults \in Nat

VARIABLES
  state,          \* LinkLayerState the user sees
  primaryState, waitingForResponse, sendLinkLayerTestFunction, nextFcb,
  repeats,        \* time since originalSendTime, in units of timeoutForAck
  lastSendAsdu,   \* the ASDU in userDataBuffer
  expectedFcb,    \* of the secondary
  mustRun,        \* a frame was handled and left the primary in PLL_IDLE
  line,           \* station -> frames under way to it
  queue,          \* station -> class -> ASDUs waiting
  enqueued,       \* station -> class -> ASDUs enqueued so far
  delivered,      \* history: station -> ASDUs handed to its application
  confirmed,      \* history: station -> ASDUs its primary saw acknowledged
  abandoned,      \* history: station -> ASDUs its primary gave up
  overtaken,      \* history: station -> ASDUs in hand when a test was requested
  errors,         \* history: station -> changes of the user state to ERROR
  faults          \* history: kind -> how many there were

primary   == <<state, primaryState, waitingForResponse, sendLinkLayerTestFunction,
               nextFcb, repeats, lastSendAsdu>>
appl      == <<queue, enqueued>>
history   == <<delivered, confirmed, abandoned, overtaken, errors>>
vars == <<primary, expectedFcb, mustRun, line, appl, history, faults>>

NoAsdu == <<0, 0>>
AsdusOf(s) == {<<c, n>> : c \in Classes[s], n \in 1..Asdus[s]}
Peer(s) == CHOOSE p \in Stations : p /= s

(* Frames: a primary's carry FCB and FCV, a secondary's DFC.               *)
Fixed(fc, fcb, fcv) == [prm |-> TRUE, fc |-> fc, fcb |-> fcb, fcv |-> fcv, asdu |-> NoAsdu]
UserData(fcb, a) == [prm |-> TRUE, fc |-> "USER_DATA_CONFIRMED", fcb |-> fcb, fcv |-> TRUE,
                     asdu |-> a]
Answer(fc) == [prm |-> FALSE, fc |-> fc, dfc |-> FALSE]

Init ==
  /\ state = [s \in Stations |-> "IDLE"]
  /\ primaryState = [s \in Stations |-> "IDLE"]
  /\ waitingForResponse = [s \in Stations |-> FALSE]
  /\ sendLinkLayerTestFunction = [s \in Stations |-> FALSE]
  /\ nextFcb = [s \in Stations |-> TRUE]
  /\ repeats = [s \in Stations |-> 0]
  /\ lastSendAsdu = [s \in Stations |-> NoAsdu]
  /\ expectedFcb = [s \in Stations |-> TRUE]
  /\ mustRun = [s \in Stations |-> FALSE]
  /\ line = [s \in Stations |-> <<>>]
  /\ queue = [s \in Stations |-> [c \in Classes[s] |-> <<>>]]
  /\ enqueued = [s \in Stations |-> [c \in Classes[s] |-> 0]]
  /\ delivered = [s \in Stations |-> <<>>]
  /\ confirmed = [s \in Stations |-> {}]
  /\ abandoned = [s \in Stations |-> {}]
  /\ overtaken = [s \in Stations |-> {}]
  /\ errors = [s \in Stations |-> 0]
  /\ faults = [lost |-> 0, late |-> 0, test |-> 0, foreign |-> 0]

---------------------------------------------------------------------------
(* The application and the line.                                           *)

faultsSoFar == faults.lost + faults.late + faults.test + faults.foreign

Fault(kind) == faultsSoFar < MaxFaults /\ faults' = [faults EXCEPT ![kind] = @ + 1]

Enqueue(s, c) ==
  /\ enqueued[s][c] < Asdus[s]
  /\ enqueued' = [enqueued EXCEPT ![s][c] = @ + 1]
  /\ queue' = [queue EXCEPT ![s][c] = Append(@, <<c, enqueued[s][c] + 1>>)]
  /\ UNCHANGED <<primary, expectedFcb, mustRun, line, history, faults>>

(* An ASDU in hand has been sent and neither acknowledged nor given up.    *)
InHand(s) == primaryState[s] \in {"SEND_CONFIRM", "BUSY"} /\ lastSendAsdu[s] /= NoAsdu

(* The user asks for a test frame at any time, the idle timeout only on an *)
(* available link.                                                         *)
sendTest(s) ==
  /\ ~sendLinkLayerTestFunction[s]
  /\ Fault("test")
  /\ sendLinkLayerTestFunction' = [sendLinkLayerTestFunction EXCEPT ![s] = TRUE]
  /\ overtaken' = [overtaken EXCEPT ![s] = IF InHand(s) THEN @ \cup {lastSendAsdu[s]} ELSE @]
  /\ UNCHANGED <<state, primaryState, waitingForResponse, nextFcb, repeats, lastSendAsdu,
                 expectedFcb, mustRun, line, appl, delivered, confirmed, abandoned, errors>>

Lose(s) ==
  /\ line[s] /= <<>>
  /\ Fault("lost")
  /\ line' = [line EXCEPT ![s] = Tail(@)]
  /\ UNCHANGED <<primary, expectedFcb, mustRun, appl, history>>

Send(s, frame) == line' = [line EXCEPT ![Peer(s)] = Append(@, frame)]

(* GetUserData: the first class that has data (class 1 before class 2).    *)
hasUserData(s) == \E c \in Classes[s] : queue[s][c] /= <<>>
classToSend(s) == CHOOSE c \in Classes[s] :
                    queue[s][c] /= <<>> /\ \A d \in Classes[s] : queue[s][d] /= <<>> => c <= d

(* The frame s reads is taken off the line; it may answer.  After a frame  *)
(* the state machine runs before the next one is read; that matters where  *)
(* it has something to do (the data it would send might as well have been  *)
(* enqueued after the frame was read).                                     *)
Take(s) ==
  /\ ~mustRun[s]
  /\ line[s] /= <<>>
  /\ ~(primaryState[s] = "LINK_LAYERS_AVAILABLE" /\ hasUserData(s))

TakeSilently(s) == Take(s) /\ line' = [line EXCEPT ![s] = Tail(@)]

TakeAndSend(s, frame) ==
  /\ Take(s)
  /\ line' = [line EXCEPT ![s] = Tail(@), ![Peer(s)] = Append(@, frame)]

---------------------------------------------------------------------------
(* The secondary: LinkLayerSecondaryBalanced_handleMessage.                *)

(* Mutant: a repeated frame is handled again. *)
checkFCB_off(s, f) == TRUE

(* Of a frame with FCV the FCB has to be the expected one.                 *)
checkFCB(s, f) == f.fcv => f.fcb = expectedFcb[s]

(* Mutant: a handled frame leaves the expected FCB as it is. *)
fcbToggled_not(s, f) == expectedFcb[s]

fcbToggled(s, f) == IF f.fcv THEN ~expectedFcb[s] ELSE expectedFcb[s]

(* Mutant: the frame is dropped but acknowledged.                          *)
HandleWrongFCB_acknowledged(s) ==
  /\ TakeAndSend(s, Answer("ACK"))
  /\ Head(line[s]).prm
  /\ ~checkFCB(s, Head(line[s]))
  /\ UNCHANGED <<primary, expectedFcb, appl, history, faults>>

(* A frame with the wrong FCB is dropped, without an answer.               *)
HandleWrongFCB(s) ==
  /\ TakeSilently(s)
  /\ Head(line[s]).prm
  /\ ~checkFCB(s, Head(line[s]))
  /\ UNCHANGED <<primary, expectedFcb, appl, history, faults>>

HandleResetRemoteLink(s) ==
  /\ TakeAndSend(s, Answer("ACK"))
  /\ Head(line[s]).prm
  /\ Head(line[s]).fc = "RESET_REMOTE_LINK"
  /\ expectedFcb' = [expectedFcb EXCEPT ![s] = TRUE]
  /\ UNCHANGED <<primary, appl, history, faults>>

HandleTestFunction(s) ==
  /\ TakeAndSend(s, Answer("ACK"))
  /\ Head(line[s]).prm
  /\ Head(line[s]).fc = "TEST_FUNCTION_FOR_LINK"
  /\ checkFCB(s, Head(line[s]))
  /\ expectedFcb' = [expectedFcb EXCEPT ![s] = fcbToggled(s, Head(line[s]))]
  /\ UNCHANGED <<primary, appl, history, faults>>

(* The application accepts every ASDU (HandleReceivedData returns true).   *)
HandleUserDataConfirmed(s) ==
  /\ TakeAndSend(s, Answer("ACK"))
  /\ Head(line[s]).prm
  /\ Head(line[s]).fc = "USER_DATA_CONFIRMED"
  /\ checkFCB(s, Head(line[s]))
  /\ expectedFcb' = [expectedFcb EXCEPT ![s] = fcbToggled(s, Head(line[s]))]
  /\ delivered' = [delivered EXCEPT ![s] = Append(@, Head(line[s]).asdu)]
  /\ UNCHANGED <<primary, appl, confirmed, abandoned, overtaken,
                 errors, faults>>

HandleRequestLinkStatus(s) ==
  /\ TakeAndSend(s, Answer("STATUS_OF_LINK"))
  /\ Head(line[s]).prm
  /\ Head(line[s]).fc = "REQUEST_LINK_STATUS"
  /\ UNCHANGED <<primary, expectedFcb, appl, history, faults>>

(* A secondary of another vendor may say that it is busy (DFC, NACK), has  *)
(* no such service, or answer what fits an unbalanced line.                *)
ForeignAnswers == {[prm |-> FALSE, fc |-> "ACK", dfc |-> TRUE]} \cup
  {Answer(fc) : fc \in {"NACK", "RESP_USER_DATA", "SERVICE_NOT_IMPLEMENTED"}}

ForeignAnswer(s) ==
  /\ Fault("foreign")
  /\ \E f \in ForeignAnswers : TakeAndSend(s, f)
  /\ Head(line[s]).prm
  /\ UNCHANGED <<primary, expectedFcb, appl, history>>

---------------------------------------------------------------------------
(* The primary: LinkLayerPrimaryBalanced_handleMessage.                    *)

(* llpb_setNewState: the user is told when the state changes.              *)
setNewState(s, new) ==
  /\ state' = [state EXCEPT ![s] = new]
  /\ errors' = [errors EXCEPT ![s] = IF new = "ERROR" /\ state[s] /= "ERROR" THEN @ + 1 ELSE @]

(* An ASDU in hand when the exchange ends without an ACK is lost.          *)
GiveUp(s) ==
  /\ abandoned' = [abandoned EXCEPT ![s] = IF InHand(s) THEN @ \cup {lastSendAsdu[s]} ELSE @]
  /\ lastSendAsdu' = [lastSendAsdu EXCEPT ![s] = NoAsdu]

IsAnswer(s, fcs) ==
  /\ TakeSilently(s)
  /\ ~Head(line[s]).prm
  /\ ~Head(line[s]).dfc
  /\ Head(line[s]).fc \in fcs

(* DFC: the secondary cannot take more data.                               *)
HandleDFC(s) ==
  /\ TakeSilently(s)
  /\ ~Head(line[s]).prm
  /\ Head(line[s]).dfc
  /\ primaryState' = [primaryState EXCEPT ![s] =
       IF @ \in {"REQUEST_STATUS", "RESET_REMOTE_LINK"} THEN "REQUEST_STATUS"
       ELSE IF @ \in {"SEND_CONFIRM", "BUSY"} THEN "BUSY" ELSE @]
  /\ setNewState(s, "BUSY")
  /\ UNCHANGED <<waitingForResponse, sendLinkLayerTestFunction, nextFcb, repeats, lastSendAsdu,
                 expectedFcb, appl, delivered, confirmed, abandoned, overtaken, faults>>

(* The ACK of the link reset. *)
HandleResetAck(s) ==
  /\ IsAnswer(s, {"ACK"})
  /\ primaryState[s] = "RESET_REMOTE_LINK"
  /\ primaryState' = [primaryState EXCEPT ![s] = "LINK_LAYERS_AVAILABLE"]
  /\ setNewState(s, "AVAILABLE")
  /\ waitingForResponse' = [waitingForResponse EXCEPT ![s] = FALSE]
  /\ UNCHANGED <<sendLinkLayerTestFunction, nextFcb, repeats, lastSendAsdu, expectedFcb, appl,
                 delivered, confirmed, abandoned, overtaken, faults>>

(* The ACK of a test frame or of user data. *)
HandleAck(s) ==
  /\ IsAnswer(s, {"ACK"})
  /\ primaryState[s] = "SEND_CONFIRM"
  /\ sendLinkLayerTestFunction' = [sendLinkLayerTestFunction EXCEPT ![s] = FALSE]
  /\ primaryState' = [primaryState EXCEPT ![s] = "LINK_LAYERS_AVAILABLE"]
  /\ setNewState(s, "AVAILABLE")
  /\ waitingForResponse' = [waitingForResponse EXCEPT ![s] = FALSE]
  /\ confirmed' = [confirmed EXCEPT ![s] = @ \cup ({lastSendAsdu[s]} \ {NoAsdu})]
  /\ lastSendAsdu' = [lastSendAsdu EXCEPT ![s] = NoAsdu]
  /\ UNCHANGED <<nextFcb, repeats, expectedFcb, appl, delivered, abandoned, overtaken, faults>>

(* Mutant: every ACK is taken for the response. *)
stillWaiting_anyAck(s) == FALSE

(* An ACK nobody waits for; it does not answer a status request. *)
stillWaiting(s) == waitingForResponse[s] /\ primaryState[s] = "REQUEST_STATUS"

HandleStrayAck(s) ==
  /\ IsAnswer(s, {"ACK"})
  /\ primaryState[s] \notin {"RESET_REMOTE_LINK", "SEND_CONFIRM"}
  /\ waitingForResponse' = [waitingForResponse EXCEPT ![s] = stillWaiting(s)]
  /\ UNCHANGED <<state, primaryState, sendLinkLayerTestFunction, nextFcb, repeats, lastSendAsdu,
                 expectedFcb, appl, history, faults>>

HandleNack(s) ==
  /\ IsAnswer(s, {"NACK"})
  /\ IF primaryState[s] = "SEND_CONFIRM"
     THEN primaryState' = [primaryState EXCEPT ![s] = "BUSY"] /\ setNewState(s, "BUSY")
     ELSE UNCHANGED <<primaryState, state, errors>>
  /\ UNCHANGED <<waitingForResponse, sendLinkLayerTestFunction, nextFcb, repeats, lastSendAsdu,
                 expectedFcb, appl, delivered, confirmed, abandoned, overtaken, faults>>

(* User data or NO DATA has no place in balanced mode, a link status only  *)
(* after a request for it.                                                 *)
HandleIllegal(s) ==
  /\ \/ IsAnswer(s, {"RESP_USER_DATA"})
     \/ IsAnswer(s, {"STATUS_OF_LINK"}) /\ primaryState[s] /= "REQUEST_STATUS"
  /\ GiveUp(s)
  /\ primaryState' = [primaryState EXCEPT ![s] = "IDLE"]
  /\ setNewState(s, "ERROR")
  /\ UNCHANGED <<waitingForResponse, sendLinkLayerTestFunction, nextFcb, repeats, expectedFcb,
                 appl, delivered, confirmed, overtaken, faults>>

HandleStatusOfLink(s) ==
  /\ TakeAndSend(s, Fixed("RESET_REMOTE_LINK", FALSE, FALSE))
  /\ ~Head(line[s]).prm
  /\ Head(line[s]).fc = "STATUS_OF_LINK"
  /\ primaryState[s] = "REQUEST_STATUS"
  /\ waitingForResponse' = [waitingForResponse EXCEPT ![s] = TRUE]
  /\ primaryState' = [primaryState EXCEPT ![s] = "RESET_REMOTE_LINK"]
  /\ setNewState(s, "BUSY")
  /\ UNCHANGED <<sendLinkLayerTestFunction, nextFcb, repeats, lastSendAsdu, expectedFcb, appl,
                 delivered, confirmed, abandoned, overtaken, faults>>

HandleServiceNotImplemented(s) ==
  /\ IsAnswer(s, {"SERVICE_NOT_IMPLEMENTED"})
  /\ sendLinkLayerTestFunction' = [sendLinkLayerTestFunction EXCEPT ![s] = FALSE]
  /\ IF primaryState[s] = "SEND_CONFIRM"
     THEN /\ primaryState' = [primaryState EXCEPT ![s] = "LINK_LAYERS_AVAILABLE"]
          /\ setNewState(s, "AVAILABLE")
          /\ GiveUp(s)
     ELSE UNCHANGED <<primaryState, state, errors, abandoned, lastSendAsdu>>
  /\ UNCHANGED <<waitingForResponse, nextFcb, repeats, expectedFcb, appl, delivered, confirmed,
                 overtaken, faults>>

---------------------------------------------------------------------------
(* The primary: LinkLayerPrimaryBalanced_runStateMachine.                  *)

Ran(s) == mustRun' = [mustRun EXCEPT ![s] = FALSE]

RunIdle(s) ==
  /\ primaryState[s] = "IDLE"
  /\ Ran(s)
  /\ Send(s, Fixed("REQUEST_LINK_STATUS", FALSE, FALSE))
  /\ sendLinkLayerTestFunction' = [sendLinkLayerTestFunction EXCEPT ![s] = FALSE]
  /\ waitingForResponse' = [waitingForResponse EXCEPT ![s] = TRUE]
  /\ primaryState' = [primaryState EXCEPT ![s] = "REQUEST_STATUS"]
  /\ UNCHANGED <<state, nextFcb, repeats, lastSendAsdu, expectedFcb, appl, history, faults>>

(* timeoutForAck has passed since lastSendTime: with nothing under way, or *)
(* while the answer still is.                                              *)
quiet == \A s \in Stations : line[s] = <<>>

(* Mutant: nothing limits the wait for the link status. *)
hasTimeout_noStatus(s) == primaryState[s] \in {"RESET_REMOTE_LINK", "SEND_CONFIRM"}

hasTimeout(s) == primaryState[s] \in {"REQUEST_STATUS", "RESET_REMOTE_LINK", "SEND_CONFIRM"}

TimeoutForAck(s) ==
  /\ hasTimeout(s)
  /\ Ran(s)
  /\ IF quiet
     THEN UNCHANGED faults
     ELSE Fault("late")

(* Without a timeout the reset would leave its state only on an ACK.       *)
RunTimeoutStatusOrReset(s) ==
  /\ TimeoutForAck(s)
  /\ waitingForResponse[s]
  /\ \/ /\ primaryState[s] = "REQUEST_STATUS"
        /\ UNCHANGED <<waitingForResponse, state, errors>>
     \/ /\ primaryState[s] = "RESET_REMOTE_LINK"
        /\ waitingForResponse' = [waitingForResponse EXCEPT ![s] = FALSE]
        /\ setNewState(s, "ERROR")
  /\ primaryState' = [primaryState EXCEPT ![s] = "IDLE"]
  /\ UNCHANGED <<sendLinkLayerTestFunction, nextFcb, repeats, lastSendAsdu, expectedFcb, line,
                 appl, delivered, confirmed, abandoned, overtaken>>

RunSendTestFunction(s) ==
  /\ primaryState[s] = "LINK_LAYERS_AVAILABLE"
  /\ sendLinkLayerTestFunction[s]
  /\ Ran(s)
  /\ Send(s, Fixed("TEST_FUNCTION_FOR_LINK", nextFcb[s], TRUE))
  /\ nextFcb' = [nextFcb EXCEPT ![s] = ~@]
  /\ repeats' = [repeats EXCEPT ![s] = 0]
  /\ primaryState' = [primaryState EXCEPT ![s] = "SEND_CONFIRM"]
  /\ UNCHANGED <<state, waitingForResponse, sendLinkLayerTestFunction, lastSendAsdu, expectedFcb,
                 appl, history, faults>>

RunSendUserData(s) ==
  /\ primaryState[s] = "LINK_LAYERS_AVAILABLE"
  /\ ~sendLinkLayerTestFunction[s]
  /\ hasUserData(s)
  /\ Ran(s)
  /\ LET a == Head(queue[s][classToSend(s)])
     IN  /\ Send(s, UserData(nextFcb[s], a))
         /\ lastSendAsdu' = [lastSendAsdu EXCEPT ![s] = a]
  /\ queue' = [queue EXCEPT ![s][classToSend(s)] = Tail(@)]
  /\ nextFcb' = [nextFcb EXCEPT ![s] = ~@]
  /\ repeats' = [repeats EXCEPT ![s] = 0]
  /\ waitingForResponse' = [waitingForResponse EXCEPT ![s] = TRUE]
  /\ primaryState' = [primaryState EXCEPT ![s] = "SEND_CONFIRM"]
  /\ UNCHANGED <<state, sendLinkLayerTestFunction, expectedFcb, enqueued, history, faults>>

(* No ACK: the same frame again, with the FCB it had.                      *)
repeatedFcb(s) == ~nextFcb[s]

RunRepeat(s) ==
  /\ TimeoutForAck(s)
  /\ primaryState[s] = "SEND_CONFIRM"
  /\ repeats[s] < Repeats
  /\ repeats' = [repeats EXCEPT ![s] = @ + 1]
  /\ Send(s, IF sendLinkLayerTestFunction[s]
             THEN Fixed("TEST_FUNCTION_FOR_LINK", repeatedFcb(s), TRUE)
             ELSE UserData(repeatedFcb(s), lastSendAsdu[s]))
  /\ UNCHANGED <<state, primaryState, waitingForResponse, sendLinkLayerTestFunction, nextFcb,
                 lastSendAsdu, expectedFcb, appl, history>>

RunGiveUp(s) ==
  /\ TimeoutForAck(s)
  /\ primaryState[s] = "SEND_CONFIRM"
  /\ repeats[s] >= Repeats
  /\ GiveUp(s)
  /\ primaryState' = [primaryState EXCEPT ![s] = "IDLE"]
  /\ setNewState(s, "ERROR")
  /\ UNCHANGED <<waitingForResponse, sendLinkLayerTestFunction, nextFcb, repeats, expectedFcb,
                 line, appl, delivered, confirmed, overtaken>>

(* An idle link: the thread goes on without anything to do.                *)
RunNothing(s) ==
  /\ primaryState[s] \in {"LINK_LAYERS_AVAILABLE", "BUSY"}
  /\ UNCHANGED vars

HandleFrame(s) ==
  \/ HandleWrongFCB(s) \/ HandleResetRemoteLink(s) \/ HandleTestFunction(s)
  \/ HandleUserDataConfirmed(s) \/ HandleRequestLinkStatus(s)
  \/ HandleDFC(s) \/ HandleResetAck(s) \/ HandleAck(s) \/ HandleStrayAck(s)
  \/ HandleNack(s) \/ HandleIllegal(s) \/ HandleStatusOfLink(s) \/ HandleServiceNotImplemented(s)
  \/ ForeignAnswer(s)

HandleMessage(s) ==
  /\ HandleFrame(s)
  /\ mustRun' = [mustRun EXCEPT ![s] = primaryState'[s] = "IDLE"]

RunStateMachine(s) ==
  \/ RunIdle(s) \/ RunTimeoutStatusOrReset(s) \/ RunSendTestFunction(s)
  \/ RunSendUserData(s) \/ RunRepeat(s) \/ RunGiveUp(s) \/ RunNothing(s)

Next ==
  \E s \in Stations :
    \/ HandleMessage(s) \/ RunStateMachine(s)
    \/ Lose(s) \/ sendTest(s)
    \/ \E c \in Classes[s] : Enqueue(s, c)

(* Each station's thread goes on calling LinkLayerBalanced_run, so frames  *)
(* are read and timers expire; nothing has to be enqueued, lost or tested. *)
Fairness == \A s \in Stations : WF_vars(HandleMessage(s)) /\ WF_vars(RunStateMachine(s))

Spec == Init /\ [][Next]_vars /\ Fairness

---------------------------------------------------------------------------
Frames(s) ==
  {Fixed(fc, fcb, fcv) : fc \in {"RESET_REMOTE_LINK", "TEST_FUNCTION_FOR_LINK",
                                  "REQUEST_LINK_STATUS"}, fcb \in BOOLEAN, fcv \in BOOLEAN}
  \cup {UserData(fcb, a) : fcb \in BOOLEAN, a \in AsdusOf(Peer(s))}
  \cup {Answer(fc) : fc \in {"ACK", "STATUS_OF_LINK"}} \cup ForeignAnswers

(* Every variable holds a value the code can store; and while the primary  *)
(* waits for a link status or for the ACK of its reset, waitingForResponse *)
(* is set, so that the state machine's else branches there are dead code.  *)
TypeOK ==
  /\ state \in [Stations -> {"IDLE", "ERROR", "BUSY", "AVAILABLE"}]
  /\ primaryState \in [Stations -> {"IDLE", "REQUEST_STATUS", "RESET_REMOTE_LINK",
                                    "LINK_LAYERS_AVAILABLE", "SEND_CONFIRM", "BUSY"}]
  /\ waitingForResponse \in [Stations -> BOOLEAN]
  /\ sendLinkLayerTestFunction \in [Stations -> BOOLEAN]
  /\ nextFcb \in [Stations -> BOOLEAN] /\ expectedFcb \in [Stations -> BOOLEAN]
  /\ mustRun \in [Stations -> BOOLEAN]
  /\ repeats \in [Stations -> 0..Repeats]
  /\ \A s \in Stations :
       /\ lastSendAsdu[s] \in AsdusOf(s) \cup {NoAsdu}
       /\ line[s] \in Seq(Frames(s))
       /\ delivered[s] \in Seq(AsdusOf(Peer(s)))
       /\ confirmed[s] \subseteq AsdusOf(s) /\ abandoned[s] \subseteq AsdusOf(s)
       /\ primaryState[s] \in {"REQUEST_STATUS", "RESET_REMOTE_LINK"} => waitingForResponse[s]

(* The FCB keeps a repeated frame from being handled twice, over lost      *)
(* answers, late answers and link resets: of each class the ASDUs reach    *)
(* the other station in the order they were enqueued and none of them      *)
(* twice.                                                                  *)
InOrderOnce ==
  \A s \in Stations : \A i, j \in DOMAIN delivered[s] :
    i < j /\ delivered[s][i][1] = delivered[s][j][1]
      => delivered[s][i][2] < delivered[s][j][2]

(* An ASDU that the primary saw acknowledged has reached the other         *)
(* station, unless a test of the link was requested while it was in hand   *)
(* (the repetition is then a test frame) or an answer came late.           *)
ConfirmedWasDelivered ==
  faults.late = 0 =>
    \A s \in Stations : \A a \in confirmed[s] \ overtaken[s] :
      \E i \in DOMAIN delivered[Peer(s)] : delivered[Peer(s)][i] = a

(* An ASDU the primary takes from the queue and gives up is reported to    *)
(* the user as a change to LL_STATE_ERROR; only an answer of another       *)
(* vendor's secondary can make it vanish silently.                         *)
LossReported ==
  \A s \in Stations : Cardinality(abandoned[s]) <= errors[s] + faults.foreign

undelivered(s) ==
  {a \in abandoned[s] : \A i \in DOMAIN delivered[Peer(s)] : delivered[Peer(s)][i] /= a}

(* And it is bounded what the faults cost.  As the link reset makes the    *)
(* secondary expect FCB 1 but leaves nextFcb alone, an ASDU that was given *)
(* up may cost the next one too; still, when frames are repeated, a lost   *)
(* frame or a timer that ran out early costs at most one ASDU, a test      *)
(* none, and a foreign answer in place of the handling of a frame at most  *)
(* three: the ASDU it answers, the next one, which the secondary drops,    *)
(* and one after the reset.                                                *)
LossBounded ==
  \A s \in Stations :
    Cardinality(undelivered(s)) <= faults.lost + faults.late + 3 * faults.foreign

LossAccounted == LossReported /\ LossBounded

(* The faults are finitely many, so each primary finds its link available  *)
(* again and again; except that nothing ever leaves the state that another *)
(* vendor's DFC or NACK leads to.                                          *)
LinkRecovers ==
  \A s \in Stations :
    []<>(primaryState[s] = "LINK_LAYERS_AVAILABLE") \/ <>[](primaryState[s] = "BUSY")
=============================================================================
