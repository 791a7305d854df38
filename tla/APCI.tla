-------------------------------- MODULE APCI --------------------------------
(***************************************************************************)
(* What a CS104 client and a CS104 server have in common: a TCP connection *)
(* between them, and at each end the counters and the k-buffer of the      *)
(* transport protocol of IEC 60870-5-104.  cs104_connection.c and          *)
(* cs104_slave.c each hold a copy of the functions below.                  *)
(*                                                                         *)
(* TCP delivers what was written in its order.  A connection that breaks   *)
(* loses what is under way and says so to nobody; one that an end closes   *)
(* is read to its end by the other.  A frame that arrives in pieces is     *)
(* received when its last piece is there.                                  *)
(***************************************************************************)
EXTENDS Integers, Sequences,
        Functions   \* Range

CONSTANTS
  k,       \* parameters.k
  w,       \* parameters.w
  SeqMod,  \* 32768 in the code
  Scenarios  \* bounds: how often the API is used, and what goes wrong

ASSUME APCIAssumption == k \in Nat \ {0} /\ w \in Nat \ {0} /\ SeqMod \in Nat /\ k < SeqMod

Ends == {"client", "server"}
peer(e) == IF e = "client" THEN "server" ELSE "client"

VARIABLES
  link,          \* the socket of an end: none, up, closed by the peer, or lost
  wire,          \* end -> frames that have reached it and are not read yet
  sendCount,     \* N(S) of the next I frame
  receiveCount,  \* N(S) expected next
  sentASDUs,     \* the k-buffer: identities of the frames not acknowledged
  unconfirmed,   \* unconfirmedReceivedIMessages
  got,           \* history: frames of the peer handed to the application
  acked,         \* history: own frames that left the k-buffer acknowledged
  error,         \* history: an end gave up because of what it received
  budget         \* what is left of the scenario

socket == <<link, wire>>
counters == <<sendCount, receiveCount, sentASDUs, unconfirmed>>

APCIInit ==
  /\ link = [e \in Ends |-> "none"]
  /\ wire = [e \in Ends |-> <<>>]
  /\ sendCount = [e \in Ends |-> 0]
  /\ receiveCount = [e \in Ends |-> 0]
  /\ sentASDUs = [e \in Ends |-> <<>>]
  /\ unconfirmed = [e \in Ends |-> 0]
  /\ got = [e \in Ends |-> {}]
  /\ acked = [e \in Ends |-> {}]
  /\ error = FALSE
  /\ budget \in Scenarios

Spend(what) == budget[what] > 0 /\ budget' = [budget EXCEPT ![what] = @ - 1]

(* T1 or T3 of end e runs out.  While the connection lasts the peer is     *)
(* that slow only as often as the scenario says.                           *)
RunsOut(e) == IF link[e] = "up" THEN Spend("timers") ELSE UNCHANGED budget

ResetCounters(e) ==
  /\ sendCount' = [sendCount EXCEPT ![e] = 0]
  /\ receiveCount' = [receiveCount EXCEPT ![e] = 0]
  /\ sentASDUs' = [sentASDUs EXCEPT ![e] = <<>>]
  /\ unconfirmed' = [unconfirmed EXCEPT ![e] = 0]

-----------------------------------------------------------------------------
(* Frames, written with the counters of the end that sends them. *)

U(type) == [type |-> type]
S(e) == [type |-> "S", nr |-> receiveCount[e]]
I(e, id) == [type |-> "I", ns |-> sendCount[e], nr |-> receiveCount[e], id |-> id]

received(e, type) == wire[e] # <<>> /\ Head(wire[e]).type = type

(* The oldest frame that has reached e is read; answers are written. *)
Reply(e, frames) ==
  wire' = [wire EXCEPT ![e] = Tail(@),
                       ![peer(e)] = IF link[e] = "up" THEN @ \o frames ELSE @]

Transmit(e, frames) ==
  wire' = IF link[e] = "up" THEN [wire EXCEPT ![peer(e)] = @ \o frames] ELSE wire

(* The other end reads what was sent before it reads the end of the stream *)
(* - unless this end left something unread, when the connection is reset.  *)
CloseSocket(e, frames) ==
  LET p == peer(e)
  IN  /\ link' = [link EXCEPT ![e] = "none", ![p] = IF link[e] = "up" THEN "closed" ELSE @]
      /\ \/ wire' = [wire EXCEPT ![e] = <<>>, ![p] = IF link[e] = "up" THEN @ \o frames ELSE @]
         \/ /\ wire[e] # <<>> /\ link[e] = "up"
            /\ wire' = [x \in Ends |-> <<>>]

(* Mutant: one frame too many. *)
isSentBufferFull_offByOne(e) == Len(sentASDUs[e]) > k

isSentBufferFull(e) == Len(sentASDUs[e]) = k

(* How many frames of the k-buffer an N(R) acknowledges.  N(R) may name    *)
(* the oldest frame of the buffer - nothing new is acknowledged - up to    *)
(* the frame that will be sent next.                                       *)
acknowledges(e, nr) == (nr - sendCount[e] + Len(sentASDUs[e])) % SeqMod

seqNoIsValid(e, nr) == acknowledges(e, nr) <= Len(sentASDUs[e])

(* Mutant: the frame that N(R) expects next is taken for acknowledged.     *)
Confirm_oneMore(e, nr) ==
  LET n == acknowledges(e, nr)
      last == IF n < Len(sentASDUs[e]) THEN n + 1 ELSE n
  IN  /\ sentASDUs' = [sentASDUs EXCEPT ![e] = SubSeq(@, last + 1, Len(@))]
      /\ acked' = [acked EXCEPT ![e] = @ \cup Range(SubSeq(sentASDUs[e], 1, last))]

(* checkSequenceNumber, for a valid N(R). *)
Confirm(e, nr) ==
  LET n == acknowledges(e, nr)
  IN  /\ sentASDUs' = [sentASDUs EXCEPT ![e] = SubSeq(@, n + 1, Len(@))]
      /\ acked' = [acked EXCEPT ![e] = @ \cup Range(SubSeq(sentASDUs[e], 1, n))]

(* An I frame is put into the k-buffer and sent; it also acknowledges. *)
SendIMessage(e, id) ==
  /\ sendCount' = [sendCount EXCEPT ![e] = (@ + 1) % SeqMod]
  /\ sentASDUs' = [sentASDUs EXCEPT ![e] = Append(@, id)]
  /\ unconfirmed' = [unconfirmed EXCEPT ![e] = 0]

(* The I frame f is accepted: the counters of the end that reads it. *)
CountIMessage(e, f, confirm) ==
  /\ receiveCount' = [receiveCount EXCEPT ![e] = (@ + 1) % SeqMod]
  /\ unconfirmed' = [unconfirmed EXCEPT ![e] = IF confirm THEN 0 ELSE @ + 1]
  /\ got' = [got EXCEPT ![e] = @ \cup {f.id}]
=============================================================================
