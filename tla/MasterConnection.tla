-------------------------- MODULE MasterConnection --------------------------
(***************************************************************************)
(* One connection of a CS104 server, seen from the protocol: how it        *)
(* answers each kind of frame, its timers, and what it sends from its two  *)
(* queues.  CS104Slave is about several connections and their locks; here  *)
(* there is one at a time (maxOpenConnections = 1), and the frames and     *)
(* their sequence numbers matter.                                          *)
(*                                                                         *)
(* Events keep their place in the event queue until they are acknowledged: *)
(* waiting are those not sent, those in state sent are in the k-buffer.    *)
(* The responses are the answers of the application to what it receives.   *)
(***************************************************************************)
EXTENDS APCI

VARIABLES
  thread,      \* where connectionHandlingThread is
  state, isRunning, waitingForTestFRcon,
  waiting,     \* events in the event queue that wait for transmission
  responses,   \* ASDUs in the response queue
  bypass,      \* an application thread is in sendASDUInternal
  raced        \* history: it sent when the connection was not STARTED any more

masterVars == <<thread, state, isRunning, waitingForTestFRcon, waiting, responses, bypass, raced>>

MasterInit ==
  /\ thread = "none" /\ state = "STOPPED"
  /\ isRunning = FALSE /\ waitingForTestFRcon = FALSE
  /\ waiting = [i \in 1..budget.events |-> i]
  /\ responses = 0
  /\ bypass = FALSE /\ raced = FALSE

-----------------------------------------------------------------------------
(* A connection is accepted: MasterConnection_init and _start.             *)
accept ==
  /\ thread = "none"
  /\ thread' = "receive"
  /\ state' = "STOPPED" /\ isRunning' = TRUE /\ waitingForTestFRcon' = FALSE
  /\ responses' = 0
  /\ ResetCounters("server")
  /\ link' = [e \in Ends |-> "up"]
  /\ wire' = [e \in Ends |-> <<>>]
  /\ UNCHANGED <<waiting, bypass, raced>>

(* maxOpenConnections is reached: the new socket is closed at once. *)
refuse ==
  /\ thread # "none"
  /\ link' = [link EXCEPT !["client"] = "closed"]
  /\ UNCHANGED <<wire, counters, masterVars>>

(* A write on a connection that is closed or lost may fail. *)
Written == UNCHANGED isRunning \/ (link["server"] # "up" /\ isRunning' = FALSE)

-----------------------------------------------------------------------------
(* handleMessage, and the confirmation when w messages are not confirmed   *)

HandleNothing ==
  /\ thread = "receive"
  /\ wire["server"] = <<>> /\ link["server"] # "closed"
  /\ thread' = "rest"
  /\ UNCHANGED <<socket, counters, got, acked, error, budget, state, isRunning, waitingForTestFRcon,
                 waiting, responses, bypass, raced>>

(* receiveMessage returns -1. *)
LeaveReceiving ==
  /\ thread = "receive"
  /\ thread' = "exit"
  /\ UNCHANGED <<socket, counters, got, acked, error, state, isRunning, waitingForTestFRcon,
                 waiting, responses, bypass, raced>>

HandleEndOfStream ==
  /\ link["server"] = "closed" /\ wire["server"] = <<>>
  /\ LeaveReceiving
  /\ UNCHANGED budget

(* An error on the lost connection, or a frame that TCP splits behind its  *)
(* first byte.                                                             *)
HandleReceiveError ==
  /\ \/ link["server"] = "lost" /\ UNCHANGED budget
     \/ wire["server"] # <<>> /\ Spend("splits")
  /\ LeaveReceiving

Rejected == isRunning' = FALSE /\ error' = TRUE

(* An I frame is accepted in state STARTED only; the application answers   *)
(* it.                                                                     *)
HandleI ==
  LET f == Head(wire["server"])
      confirm == unconfirmed["server"] + 1 >= w
  IN  /\ thread = "receive" /\ received("server", "I")
      /\ Reply("server", IF /\ state = "STARTED" /\ f.ns = receiveCount["server"]
                            /\ seqNoIsValid("server", f.nr) /\ confirm
                         THEN <<[type |-> "S", nr |-> (receiveCount["server"] + 1) % SeqMod]>>
                         ELSE <<>>)
      /\ IF state = "STARTED" /\ f.ns = receiveCount["server"] /\ seqNoIsValid("server", f.nr)
         THEN /\ Confirm("server", f.nr)
              /\ CountIMessage("server", f, confirm)
              /\ responses' = responses + 1
              /\ Written
              /\ UNCHANGED error
         ELSE /\ Rejected
              /\ UNCHANGED <<sentASDUs, acked, receiveCount, unconfirmed, got, responses>>
      /\ thread' = "rest"
      /\ UNCHANGED <<link, sendCount, budget, state, waitingForTestFRcon, waiting, bypass, raced>>

HandleTestFRAct ==
  /\ thread = "receive" /\ received("server", "TESTFR_ACT")
  /\ Reply("server", <<U("TESTFR_CON")>>)
  /\ Written
  /\ thread' = "rest"
  /\ UNCHANGED <<link, counters, got, acked, error, budget, state, waitingForTestFRcon,
                 waiting, responses, bypass, raced>>

HandleTestFRCon ==
  /\ thread = "receive" /\ received("server", "TESTFR_CON")
  /\ Reply("server", <<>>)
  /\ waitingForTestFRcon' = FALSE
  /\ thread' = "rest"
  /\ UNCHANGED <<link, counters, got, acked, error, budget, state, isRunning,
                 waiting, responses, bypass, raced>>

(* Responses of before the start are discarded. *)
HandleStartDT ==
  /\ thread = "receive" /\ received("server", "STARTDT_ACT")
  /\ state' = "STARTED"
  /\ responses' = 0
  /\ Reply("server", <<U("STARTDT_CON")>>)
  /\ Written
  /\ thread' = "rest"
  /\ UNCHANGED <<link, counters, got, acked, error, budget, waitingForTestFRcon, waiting, bypass, raced>>

(* Mutant: STOPDT is confirmed although frames are not acknowledged.       *)
hasUnconfirmedMessages_never(frames) == FALSE

(* A pending event is an event in the k-buffer. *)
hasUnconfirmedMessages(frames) == frames # <<>>

HandleStopDT ==
  LET confirm == IF unconfirmed["server"] > 0 THEN <<S("server")>> ELSE <<>>
      pending == hasUnconfirmedMessages(sentASDUs["server"])
  IN  /\ thread = "receive" /\ received("server", "STOPDT_ACT")
      /\ Reply("server", confirm \o (IF pending THEN <<>> ELSE <<U("STOPDT_CON")>>))
      /\ state' = CASE ~pending -> "STOPPED"
                    [] pending /\ state = "STARTED" -> "UNCONFIRMED_STOPPED"
                    [] OTHER -> state
      /\ unconfirmed' = [unconfirmed EXCEPT !["server"] = 0]
      /\ IF pending /\ confirm = <<>> THEN UNCHANGED isRunning ELSE Written
      /\ thread' = "rest"
      /\ UNCHANGED <<link, sendCount, receiveCount, sentASDUs, got, acked, error, budget,
                     waitingForTestFRcon, waiting, responses, bypass, raced>>

(* An S frame may complete a STOPDT; in state STOPPED it is an error.      *)
HandleS ==
  LET f == Head(wire["server"])
      valid == seqNoIsValid("server", f.nr)
      stopped == /\ state = "UNCONFIRMED_STOPPED"
                 /\ ~hasUnconfirmedMessages(sentASDUs'["server"])
  IN  /\ thread = "receive" /\ received("server", "S")
      /\ IF valid THEN Confirm("server", f.nr) ELSE UNCHANGED <<sentASDUs, acked>>
      /\ Reply("server", IF valid /\ stopped THEN <<U("STOPDT_CON")>> ELSE <<>>)
      /\ state' = IF valid /\ stopped THEN "STOPPED" ELSE state
      /\ IF ~valid \/ state = "STOPPED"
         THEN Rejected
         ELSE UNCHANGED error /\ (IF stopped THEN Written ELSE UNCHANGED isRunning)
      /\ thread' = "rest"
      /\ UNCHANGED <<link, sendCount, receiveCount, unconfirmed, got, budget,
                     waitingForTestFRcon, waiting, responses, bypass, raced>>

-----------------------------------------------------------------------------
(* handleTimeouts and sendWaitingASDUs: the rest of an iteration           *)

(* What is sent after the frames that timers asked for: a response, or an  *)
(* event when there is no response, if the k-buffer has room.              *)
SendWaitingASDU(frames) ==
  LET send == /\ isRunning /\ state = "STARTED" /\ ~isSentBufferFull("server")
              /\ responses > 0 \/ waiting # <<>>
      id == IF responses > 0 THEN 0 ELSE Head(waiting)
  IN  /\ thread = "rest"
      /\ IF send
         THEN /\ SendIMessage("server", id)
              /\ Transmit("server", Append(frames, I("server", id)))
              /\ responses' = IF responses > 0 THEN responses - 1 ELSE 0
              /\ waiting' = IF responses > 0 THEN waiting ELSE Tail(waiting)
         ELSE /\ Transmit("server", frames)
              /\ unconfirmed' = IF frames # <<>> /\ frames[1].type = "S"
                                THEN [unconfirmed EXCEPT !["server"] = 0] ELSE unconfirmed
              /\ UNCHANGED <<sendCount, sentASDUs, responses, waiting>>
      /\ IF send \/ frames # <<>> THEN Written ELSE UNCHANGED isRunning
      /\ thread' = IF isRunning' THEN "receive" ELSE "exit"
      /\ UNCHANGED <<link, receiveCount, got, acked, error, state, bypass, raced>>

HandleNoTimeout == SendWaitingASDU(<<>>) /\ UNCHANGED <<waitingForTestFRcon, budget>>

HandleT2 ==
  /\ unconfirmed["server"] > 0
  /\ SendWaitingASDU(<<S("server")>>)
  /\ UNCHANGED <<waitingForTestFRcon, budget>>

HandleT3 ==
  /\ ~waitingForTestFRcon
  /\ RunsOut("server")
  /\ SendWaitingASDU(<<U("TESTFR_ACT")>>)
  /\ waitingForTestFRcon' = TRUE

(* T1: no answer to the TESTFR_ACT, or the oldest I frame of the k-buffer  *)
(* is not acknowledged.                                                    *)
HandleT1 ==
  /\ thread = "rest"
  /\ waitingForTestFRcon \/ sentASDUs["server"] # <<>>
  /\ RunsOut("server")
  /\ isRunning' = FALSE
  /\ thread' = "exit"
  /\ UNCHANGED <<socket, counters, got, acked, error, state, waitingForTestFRcon, waiting,
                 responses, bypass, raced>>

-----------------------------------------------------------------------------
IsEvent(id) == id # 0

(* The thread ends; events that are not acknowledged wait again. *)
LeaveLoop ==
  /\ thread = "exit"
  /\ isRunning' = FALSE
  /\ waiting' = SelectSeq(sentASDUs["server"], IsEvent) \o waiting
  /\ thread' = "ended"
  /\ UNCHANGED <<socket, counters, got, acked, error, budget, state, waitingForTestFRcon,
                 responses, bypass, raced>>

(* The server thread finds the connection dead and closes its socket. *)
Reap ==
  /\ thread = "ended"
  /\ CloseSocket("server", <<>>)
  /\ state' = "STOPPED"
  /\ thread' = "none"
  /\ UNCHANGED <<counters, got, acked, error, budget, isRunning, waitingForTestFRcon, waiting,
                 responses, bypass, raced>>

serverThreads ==
  \/ HandleNothing \/ HandleEndOfStream \/ HandleI \/ HandleTestFRAct \/ HandleTestFRCon
  \/ HandleStartDT \/ HandleStopDT \/ HandleS
  \/ HandleNoTimeout \/ LeaveLoop \/ Reap

-----------------------------------------------------------------------------
(* IMasterConnection_sendASDUEx of an application thread that bypasses the *)
(* queues, when they are empty.  The connection is found active first, the *)
(* frame is sent later under the lock of the k-buffer.                     *)
BypassQueue ==
  /\ ~bypass
  /\ waiting = <<>> /\ responses = 0
  /\ thread \in {"receive", "rest"} /\ state = "STARTED"
  /\ Spend("bypass")
  /\ bypass' = TRUE
  /\ UNCHANGED <<socket, counters, got, acked, error, thread, state, isRunning, waitingForTestFRcon,
                 waiting, responses, raced>>

(* The application does not use a connection that it was told is closed.   *)
BypassSend ==
  LET send == thread \in {"receive", "rest", "exit"} /\ ~isSentBufferFull("server")
  IN  /\ bypass
      /\ bypass' = FALSE
      /\ IF send
         THEN /\ SendIMessage("server", 0)
              /\ Transmit("server", <<I("server", 0)>>)
              /\ raced' = (raced \/ state # "STARTED")
              /\ Written
         ELSE UNCHANGED <<wire, sendCount, sentASDUs, unconfirmed, raced, isRunning>>
      /\ UNCHANGED <<link, receiveCount, got, acked, error, budget, thread, state,
                     waitingForTestFRcon, waiting, responses>>
=============================================================================
