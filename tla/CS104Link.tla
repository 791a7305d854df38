------------------------------ MODULE CS104Link ------------------------------
(***************************************************************************)
(* A CS104 client and a CS104 server over TCP.  The client's application   *)
(* connects, starts and stops the data transfer, sends commands and        *)
(* closes, in any order and with its calls overlapping what the handling   *)
(* thread does; the server has events to send, answers commands, and may   *)
(* send past its queues; the TCP connection may break, and timers run out. *)
(***************************************************************************)
EXTENDS CS104Connection, MasterConnection

vars == <<socket, counters, got, acked, error, budget, clientVars, masterVars>>

Init == APCIInit /\ ClientInit /\ MasterInit

(* The server thread takes the connection, or closes it at once. *)
Connected == connectSucceeds /\ (accept \/ refuse)

(* What is under way is lost, and nothing tells the two ends. *)
Break ==
  /\ link["client"] = "up"
  /\ Spend("breaks")
  /\ link' = [e \in Ends |-> "lost"]
  /\ \E n \in [Ends -> 0..(2 * k)] :
       wire' = [e \in Ends |-> SubSeq(wire[e], 1, IF n[e] < Len(wire[e]) THEN n[e] ELSE Len(wire[e]))]
  /\ UNCHANGED <<counters, got, acked, error, clientVars, masterVars>>

ClientTimers == timeoutT3 \/ timeoutEnds
MasterTimers == HandleT3 \/ HandleT1

ClientStep ==
  /\ \/ connectionHandlingThread \/ CS104_Connection_stopThreadless
     \/ createSocketFails \/ timeoutT2 \/ ClientTimers
     \/ CS104_Connection_startThreadless \/ startFails
     \/ CS104_Connection_connect \/ CS104_Connection_close
     \/ sendStartDT \/ sendStopDT \/ sendASDU \/ apiCallEnds
  /\ UNCHANGED masterVars

MasterStep ==
  /\ \/ serverThreads \/ HandleReceiveError \/ HandleT2 \/ MasterTimers
     \/ BypassQueue \/ BypassSend
  /\ UNCHANGED clientVars

Next == Connected \/ Break \/ ClientStep \/ MasterStep

(* Threads run on, a call that can return does, and the end of a timer is  *)
(* seen; T3 and T1 only have to run out when the connection is lost.       *)
Fairness ==
  /\ WF_vars((connectionHandlingThread \/ CS104_Connection_stopThreadless) /\ UNCHANGED masterVars)
  /\ WF_vars(Connected)
  /\ WF_vars(apiCallEnds /\ UNCHANGED masterVars)
  /\ WF_vars((serverThreads \/ BypassSend) /\ UNCHANGED clientVars)
  /\ SF_vars(timeoutT2 /\ UNCHANGED masterVars)
  /\ SF_vars(HandleT2 /\ UNCHANGED clientVars)
  /\ SF_vars(ClientTimers /\ UNCHANGED <<budget, masterVars>>)
  /\ SF_vars(MasterTimers /\ UNCHANGED <<budget, clientVars>>)

Spec == Init /\ [][Next]_vars /\ Fairness

-----------------------------------------------------------------------------
(* Every variable has a value that the code can store, and the k-buffers   *)
(* never hold more than k frames.                                          *)
TypeOK ==
  /\ link \in [Ends -> {"none", "up", "closed", "lost"}]
  /\ sendCount \in [Ends -> 0..(SeqMod - 1)] /\ receiveCount \in [Ends -> 0..(SeqMod - 1)]
  /\ \A e \in Ends : Len(sentASDUs[e]) <= k /\ unconfirmed[e] \in 0..w
  /\ pc \in {"none", "reset", "socket", "connect", "opened", "receive", "rest", "last", "exit", "ended"}
  /\ conState \in {"IDLE", "INACTIVE", "ACTIVE"} \cup Waiting
  /\ outstandingTestFRConMessages \in 0..3
  /\ app \in {"idle", "starting", "joining", "connecting", "closing", "sending"}
  /\ thread \in {"none", "receive", "rest", "exit", "ended"}
  /\ state \in {"STOPPED", "STARTED", "UNCONFIRMED_STOPPED"}
  /\ link["client"] = "up" <=> link["server"] = "up"

(* Client and server understand each other: whatever is lost, and however  *)
(* calls, timers and frames overlap, neither ends the connection for a     *)
(* wrong sequence number or a frame that it does not expect in its state - *)
(* except when the client's application does not wait for STARTDT_CON or   *)
(* STOPDT_CON, or the server's sends past the queues while the transfer is *)
(* being stopped.                                                          *)
NoProtocolError == error => hasty \/ raced

(* A frame is taken out of the k-buffer as acknowledged, and an event out  *)
(* of the event queue, only when the other application has received it.    *)
AcknowledgedWasReceived ==
  \A e \in Ends : acked[e] \ {0} \subseteq got[peer(e)]

(* The client's calls come to an end.  connect returns, unless the socket  *)
(* could not be created: the thread ends and reports nothing.  close       *)
(* returns, unless the thread was only just started: resetConnection       *)
(* forgets the close.  (A connect while a connection is open is joining:   *)
(* it lasts as long as that connection.)  And STARTDT and STOPDT are       *)
(* confirmed or the connection ends, though any U frame stops their timer. *)
CallsReturn ==
  /\ app = "connecting" ~> app # "connecting" \/ (pc = "ended" /\ ~running /\ ~failure)
  /\ app = "closing" ~> app # "closing" \/ ~close
  /\ conState \in Waiting ~> conState \notin Waiting

(* Every frame sent is acknowledged in the end, or the connection ends,    *)
(* though the client never finds out that an I frame is not acknowledged   *)
(* for T1: the server's timers see to it.  Not so for a command that the   *)
(* application sends too early: it is counted and may not be written.      *)
FramesSettle ==
  /\ sentASDUs["client"] # <<>> ~> sentASDUs["client"] = <<>> \/ ~running \/ hasty
  /\ sentASDUs["server"] # <<>> ~> sentASDUs["server"] = <<>> \/ thread \notin {"receive", "rest"}

(* Whatever is lost, and however the calls overlap, client and server come *)
(* to rest: the calls return and the frames are settled.                   *)
Settled == CallsReturn /\ FramesSettle
=============================================================================
