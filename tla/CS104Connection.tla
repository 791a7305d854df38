--------------------------- MODULE CS104Connection ---------------------------
(***************************************************************************)
(* The CS104 client: its connection handling thread, and the application   *)
(* thread that calls the API.  A step is a section under conStateLock, or  *)
(* what the handling thread does in one iteration between two of them that *)
(* matter to the application.                                              *)
(*                                                                         *)
(* T1 of an I frame is not here: sentTime is taken from Hal_getTimeInMs    *)
(* (milliseconds since 1970) and handleTimeouts compares it with           *)
(* Hal_getMonotonicTimeInMs (since the system was started), which is never *)
(* greater.  TLS and plugins are left out.                                 *)
(*                                                                         *)
(* In threadless mode a thread of the application calls                    *)
(* CS104_Connection_run instead, which is one iteration of the same loop;  *)
(* another one may use the rest of the API.                                *)
(***************************************************************************)
EXTENDS APCI

VARIABLES
  pc,        \* where connectionHandlingThread, or CS104_Connection_run, is
  isThreadlessMode,
  conState, running, failure, close,
  uMessageTimeout,               \* the timer is running
  outstandingTestFRConMessages,
  app,       \* the API call in progress
  hasty      \* history: the application did not wait for STARTDT_CON or
             \* STOPDT_CON before its next call

flags == <<running, failure, close>>
timers == <<uMessageTimeout, outstandingTestFRConMessages>>
modes == <<isThreadlessMode, hasty>>
clientVars == <<pc, modes, conState, flags, timers, app>>

ClientInit ==
  /\ pc = "none" /\ isThreadlessMode = FALSE /\ conState = "IDLE"
  /\ running = FALSE /\ failure = FALSE /\ close = FALSE
  /\ uMessageTimeout = FALSE /\ outstandingTestFRConMessages = 0
  /\ app = "idle" /\ hasty = FALSE

(* writeToSocket writes nothing in state IDLE. *)
ClientFrames(state, frames) == IF state = "IDLE" THEN <<>> ELSE frames

Waiting == {"WAITING_FOR_STARTDT_CON", "WAITING_FOR_STOPDT_CON"}

-----------------------------------------------------------------------------
(* handleConnection: from the start of the thread to the connection *)

(* The close that was requested since connectAsync is forgotten.           *)
resetConnection ==
  /\ pc = "reset"
  /\ pc' = "socket"
  /\ running' = FALSE /\ failure' = FALSE /\ close' = FALSE
  /\ ResetCounters("client")
  /\ uMessageTimeout' = FALSE /\ outstandingTestFRConMessages' = 0
  /\ conState' = "IDLE"
  /\ UNCHANGED <<socket, got, acked, error, budget, app, modes>>

createSocket ==
  /\ pc = "socket"
  /\ pc' = "connect"
  /\ UNCHANGED <<socket, counters, got, acked, error, budget, conState, flags, timers, app, modes>>

(* TcpSocket_create fails: the thread ends, neither running nor failed.    *)
createSocketFails ==
  /\ pc = "socket" /\ ~isThreadlessMode
  /\ Spend("sockets")
  /\ running' = FALSE
  /\ pc' = "ended"
  /\ UNCHANGED <<socket, counters, got, acked, error, conState, failure, close, timers, app, modes>>

connectFails ==
  /\ pc = "connect" /\ ~isThreadlessMode
  /\ failure' = TRUE
  /\ pc' = "exit"
  /\ UNCHANGED <<socket, counters, got, acked, error, budget, conState, running, close, timers, app, modes>>

(* The TCP connection is there; what the server does with it is up to it.  *)
connectSucceeds ==
  /\ pc = "connect"
  /\ running' = TRUE
  /\ pc' = "opened"
  /\ UNCHANGED <<counters, got, acked, error, budget, conState, failure, close, timers, app, modes>>

(* The application may have called sendStartDT before. *)
setInactive ==
  /\ pc = "opened" /\ running
  /\ conState' = "INACTIVE"
  /\ pc' = "receive"
  /\ UNCHANGED <<socket, counters, got, acked, error, budget, flags, timers, app, modes>>

(* Another connectAsync has cleared running: the thread handles nothing,   *)
(* closes the socket and tells the application nothing.                    *)
skipLoop ==
  /\ pc = "opened" /\ ~running
  /\ pc' = "exit"
  /\ UNCHANGED <<socket, counters, got, acked, error, budget, conState, flags, timers, app, modes>>

-----------------------------------------------------------------------------
(* receiveMessage and checkMessage *)

receiveNothing ==
  /\ pc = "receive"
  /\ wire["client"] = <<>> /\ link["client"] # "closed"
  /\ pc' = "rest"
  /\ UNCHANGED <<socket, counters, got, acked, error, budget, conState, flags, timers, app, modes>>

(* loopRunning = false; the iteration is finished all the same. *)
Stop == failure' = TRUE /\ pc' = "last"

(* The end of the stream, or an error when the connection is lost. *)
receiveError ==
  /\ pc = "receive"
  /\ \/ link["client"] = "lost"
     \/ link["client"] = "closed" /\ wire["client"] = <<>>
  /\ Stop
  /\ UNCHANGED <<socket, counters, got, acked, error, budget, conState, running, close, timers, app, modes>>

receiveI ==
  LET f == Head(wire["client"])
  IN  /\ pc = "receive" /\ received("client", "I")
      /\ Reply("client", <<>>)
      /\ IF f.ns = receiveCount["client"] /\ seqNoIsValid("client", f.nr)
         THEN /\ Confirm("client", f.nr)
              /\ CountIMessage("client", f, FALSE)
              /\ pc' = "rest"
              /\ UNCHANGED <<failure, error>>
         ELSE /\ Stop
              /\ error' = TRUE
              /\ UNCHANGED <<sentASDUs, acked, receiveCount, unconfirmed, got>>
      /\ UNCHANGED <<link, sendCount, budget, conState, running, close, timers, app, modes>>

receiveS ==
  LET f == Head(wire["client"])
  IN  /\ pc = "receive" /\ received("client", "S")
      /\ Reply("client", <<>>)
      /\ IF seqNoIsValid("client", f.nr)
         THEN Confirm("client", f.nr) /\ pc' = "rest" /\ UNCHANGED <<failure, error>>
         ELSE Stop /\ error' = TRUE /\ UNCHANGED <<sentASDUs, acked>>
      /\ UNCHANGED <<link, sendCount, receiveCount, unconfirmed, got, budget,
                     conState, running, close, timers, app, modes>>

(* Mutant: STOPDT_CON is not handled.                                      *)
nextConState_ignoresStop(type) ==
  CASE type \in {"STARTDT_ACT", "STARTDT_CON"} -> "ACTIVE"
    [] OTHER -> conState

nextConState(type) ==
  CASE type \in {"STARTDT_ACT", "STARTDT_CON"} -> "ACTIVE"
    [] type = "STOPDT_CON" -> "INACTIVE"
    [] OTHER -> conState

(* The client confirms a test, and a STARTDT_ACT as if it were a server.   *)
confirmationOf(type) ==
  CASE type = "TESTFR_ACT" -> <<U("TESTFR_CON")>>
    [] type = "STARTDT_ACT" -> <<U("STARTDT_CON")>>
    [] OTHER -> <<>>

(* Every U frame stops the timer, whatever was waited for. *)
receiveU ==
  LET f == Head(wire["client"])
  IN  /\ pc = "receive" /\ wire["client"] # <<>> /\ f.type \notin {"I", "S"}
      /\ Reply("client", ClientFrames(conState, confirmationOf(f.type)))
      /\ uMessageTimeout' = FALSE
      /\ outstandingTestFRConMessages' = IF f.type = "TESTFR_CON" THEN 0 ELSE outstandingTestFRConMessages
      /\ conState' = nextConState(f.type)
      /\ pc' = "rest"
      /\ UNCHANGED <<link, counters, got, acked, error, budget, flags, app, modes>>

-----------------------------------------------------------------------------
(* The rest of an iteration: confirmation, handleTimeouts, isClose.  Only  *)
(* one timer runs out in an iteration (they are seconds apart).            *)

mustConfirm ==
  \/ unconfirmed["client"] >= w
  \/ conState = "WAITING_FOR_STOPDT_CON" /\ unconfirmed["client"] > 0

Iterate(t2, frames, stop) ==
  LET confirm == IF mustConfirm \/ t2 THEN <<S("client")>> ELSE <<>>
  IN  /\ pc \in {"rest", "last"}
      /\ Transmit("client", ClientFrames(conState, confirm \o frames))
      /\ unconfirmed' = IF confirm # <<>> THEN [unconfirmed EXCEPT !["client"] = 0] ELSE unconfirmed
      /\ pc' = IF pc = "last" \/ stop \/ close THEN "exit" ELSE "receive"
      /\ UNCHANGED <<link, sendCount, receiveCount, sentASDUs, got, acked, error,
                     conState, flags, app, modes>>

noTimeout == Iterate(FALSE, <<>>, FALSE) /\ UNCHANGED <<timers, budget>>

timeoutT2 ==
  /\ unconfirmed["client"] > 0 /\ ~mustConfirm
  /\ Iterate(TRUE, <<>>, FALSE)
  /\ UNCHANGED <<timers, budget>>

(* connect() looks every millisecond whether the connection is there: no   *)
(* timer of seconds runs out before it returns.                            *)
timeoutT3 ==
  /\ app # "connecting"
  /\ outstandingTestFRConMessages <= 2
  /\ RunsOut("client")
  /\ Iterate(FALSE, <<U("TESTFR_ACT")>>, FALSE)
  /\ uMessageTimeout' = TRUE
  /\ outstandingTestFRConMessages' = outstandingTestFRConMessages + 1

(* T3 when three TESTFR_ACT have no answer, or T1 of a U frame. *)
timeoutEnds ==
  /\ app # "connecting"
  /\ outstandingTestFRConMessages > 2 \/ uMessageTimeout
  /\ RunsOut("client")
  /\ Iterate(FALSE, <<>>, TRUE)
  /\ UNCHANGED timers

(* What is received is confirmed, the socket closed; the application is    *)
(* told that the connection is closed, or that it failed.                  *)
exitThread ==
  /\ pc = "exit" /\ ~isThreadlessMode
  /\ CloseSocket("client", IF unconfirmed["client"] > 0 THEN <<S("client")>> ELSE <<>>)
  /\ unconfirmed' = [unconfirmed EXCEPT !["client"] = 0]
  /\ conState' = "IDLE"
  /\ running' = FALSE
  /\ pc' = "ended"
  /\ UNCHANGED <<sendCount, receiveCount, sentASDUs, got, acked, error, budget, failure, close,
                 timers, app, modes>>

(* The same without a thread: at the end of CS104_Connection_run, or       *)
(* called by the application between two runs.                             *)
CS104_Connection_stopThreadless ==
  /\ isThreadlessMode
  /\ \/ pc = "exit" /\ UNCHANGED budget
     \/ pc = "receive" /\ Spend("stopThreadless")
  /\ CloseSocket("client", IF unconfirmed["client"] > 0 THEN <<S("client")>> ELSE <<>>)
  /\ unconfirmed' = [unconfirmed EXCEPT !["client"] = 0]
  /\ conState' = "IDLE"
  /\ running' = FALSE /\ close' = TRUE
  /\ pc' = "none" /\ isThreadlessMode' = FALSE
  /\ UNCHANGED <<sendCount, receiveCount, sentASDUs, got, acked, error, failure, timers, app, hasty>>

connectionHandlingThread ==
  \/ resetConnection \/ createSocket \/ connectFails
  \/ setInactive \/ skipLoop \/ receiveNothing \/ receiveError \/ receiveI \/ receiveS \/ receiveU
  \/ noTimeout \/ exitThread

-----------------------------------------------------------------------------
(* The application *)

hasSocket == pc \in {"connect", "opened", "receive", "rest", "last", "exit"}

(* connectAsync; connect waits for its result.  A thread of an earlier     *)
(* connection is waited for first.                                         *)
CS104_Connection_connect ==
  /\ app = "idle" /\ ~isThreadlessMode
  /\ Spend("connects")
  /\ running' = FALSE /\ failure' = FALSE /\ close' = FALSE
  /\ IF pc = "none"
     THEN pc' = "reset" /\ app' \in {"connecting", "idle"}
     ELSE app' = "joining" /\ UNCHANGED pc
  /\ UNCHANGED <<socket, counters, got, acked, error, conState, timers, modes>>

(* CS104_Connection_startThreadless does what the thread does up to the    *)
(* loop, before it returns.                                                *)
CS104_Connection_startThreadless ==
  /\ app = "idle" /\ pc = "none"
  /\ Spend("threadless")
  /\ isThreadlessMode' = TRUE
  /\ pc' = "reset"
  /\ app' = "starting"
  /\ UNCHANGED <<socket, counters, got, acked, error, conState, flags, timers, hasty>>

startReturns ==
  /\ app = "starting" /\ pc = "receive"
  /\ app' = "idle"
  /\ UNCHANGED <<socket, counters, got, acked, error, budget, pc, conState, flags, timers, modes>>

(* No socket or no connection: there is no socket left. *)
startFails ==
  /\ app = "starting" /\ pc \in {"socket", "connect"}
  /\ app' = "idle"
  /\ pc' = "none" /\ isThreadlessMode' = FALSE
  /\ UNCHANGED <<socket, counters, got, acked, error, budget, conState, flags, timers, hasty>>

oldThreadEnds ==
  /\ app = "joining" /\ pc = "ended"
  /\ pc' = "reset"
  /\ app' \in {"connecting", "idle"}
  /\ UNCHANGED <<socket, counters, got, acked, error, budget, conState, flags, timers, modes>>

connectReturns ==
  /\ app = "connecting"
  /\ running \/ failure
  /\ app' = "idle"
  /\ UNCHANGED <<socket, counters, got, acked, error, budget, pc, conState, flags, timers, modes>>

(* The end of the thread is waited for; without a thread the next run does *)
(* what is asked for.                                                      *)
CS104_Connection_close ==
  /\ app = "idle" /\ pc # "none"
  /\ close' = TRUE
  /\ app' = IF isThreadlessMode THEN app ELSE "closing"
  /\ UNCHANGED <<socket, counters, got, acked, error, budget, pc, conState, running, failure, timers, modes>>

closeReturns ==
  /\ app = "closing" /\ pc = "ended"
  /\ pc' = "none"
  /\ app' = "idle"
  /\ UNCHANGED <<socket, counters, got, acked, error, budget, conState, flags, timers, modes>>

(* The application may still wait for STARTDT_CON when setInactive has     *)
(* overwritten the state that says so.                                     *)
sendStartDT ==
  LET startUnderWay == \/ \E i \in DOMAIN wire["server"] : wire["server"][i].type = "STARTDT_ACT"
                       \/ \E i \in DOMAIN wire["client"] : wire["client"][i].type = "STARTDT_CON"
  IN  /\ app = "idle" /\ hasSocket
      /\ Spend("starts")
      /\ conState' = "WAITING_FOR_STARTDT_CON"
      /\ uMessageTimeout' = TRUE
      /\ Transmit("client", <<U("STARTDT_ACT")>>)
      /\ hasty' = (hasty \/ conState \in Waiting \/ startUnderWay)
      /\ UNCHANGED <<link, counters, got, acked, error, pc, flags, outstandingTestFRConMessages,
                     app, isThreadlessMode>>

sendStopDT ==
  LET confirm == IF unconfirmed["client"] > 0 THEN ClientFrames(conState, <<S("client")>>) ELSE <<>>
  IN  /\ app = "idle" /\ hasSocket
      /\ Spend("stops")
      /\ conState' = "WAITING_FOR_STOPDT_CON"
      /\ uMessageTimeout' = TRUE
      /\ Transmit("client", confirm \o <<U("STOPDT_ACT")>>)
      /\ unconfirmed' = [unconfirmed EXCEPT !["client"] = 0]
      /\ hasty' = (hasty \/ conState # "ACTIVE")
      /\ UNCHANGED <<link, sendCount, receiveCount, sentASDUs, got, acked, error,
                     pc, flags, outstandingTestFRConMessages, app,
                     isThreadlessMode>>

(* sendASDUInternal: the test of isRunning, and the rest under a new lock. *)
sendASDU ==
  /\ app = "idle" /\ running
  /\ Spend("commands")
  /\ app' = "sending"
  /\ UNCHANGED <<socket, counters, got, acked, error, pc, conState, flags, timers, modes>>

sendASDULocked ==
  /\ app = "sending"
  /\ app' = "idle"
  /\ hasty' = (hasty \/ (running /\ conState # "ACTIVE"))
  /\ IF isSentBufferFull("client")
     THEN UNCHANGED <<wire, sendCount, sentASDUs, unconfirmed>>
     ELSE LET id == 1 + budget.commands
          IN  SendIMessage("client", id) /\ Transmit("client", ClientFrames(conState, <<I("client", id)>>))
  /\ UNCHANGED <<link, receiveCount, got, acked, error, budget, pc, conState, flags, timers,
                 isThreadlessMode>>

apiCallEnds == startReturns \/ oldThreadEnds \/ connectReturns \/ closeReturns \/ sendASDULocked
=============================================================================
