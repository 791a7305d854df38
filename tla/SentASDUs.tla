----------------------------- MODULE SentASDUs ------------------------------
(***************************************************************************)
(* The k-buffer of one CS104 server connection: the ring sentASDUs with    *)
(* its indices oldestSentASDU and newestSentASDU, the send counter, and    *)
(* the acknowledgement procedure checkSequenceNumber.  cs104_connection.c  *)
(* holds a second copy of the same algorithm for the client.               *)
(*                                                                         *)
(* All accesses to the ring are made with sentASDUsLock held.  A call of   *)
(* checkSequenceNumber is split into its entry (the plausibility test) and *)
(* the iterations of its do/while loop; check is the call in progress, and *)
(* check # NoCheck means that the lock is taken.                           *)
(*                                                                         *)
(* A slot remembers the counter value AFTER the frame was sent, i.e. the   *)
(* N(R) that acknowledges it.                                              *)
(***************************************************************************)
EXTENDS Integers

CONSTANTS
  K,        \* conParameters.k: number of slots, maxSentASDUs
  SeqMod    \* 32768 in the code: sequence numbers have 15 bits

ASSUME KAssumption == K \in Nat \ {0}
ASSUME SeqModAssumption == SeqMod \in Nat \ {0} /\ K < SeqMod

VARIABLES
  sendCount,       \* N(S) of the next I frame
  oldestSentASDU,  \* index of the oldest slot in use, -1 if the ring is empty
  newestSentASDU,  \* index of the newest slot in use
  sentASDUs,       \* slot -> seqNo (the payload of a slot is left out)
  isRunning,       \* FALSE once the connection is to be torn down
  check            \* the call of checkSequenceNumber in progress

vars == <<sendCount, oldestSentASDU, newestSentASDU, sentASDUs, isRunning, check>>

SeqNos == 0..(SeqMod - 1)
Slots  == 0..(K - 1)

(* The locals of checkSequenceNumber that its loop reads. *)
Checks  == [seqNo : SeqNos, counterOverflowDetected : BOOLEAN,
            oldestValidSeqNo : SeqNos]
NoCheck == [seqNo |-> -1, counterOverflowDetected |-> FALSE, oldestValidSeqNo |-> -1]

Init ==
  /\ sendCount = 0
  /\ oldestSentASDU = -1
  /\ newestSentASDU = -1
  /\ sentASDUs = [i \in Slots |-> 0]
  /\ isRunning = TRUE
  /\ check = NoCheck

(* Mutant: the k limit is not enforced. *)
isSentBufferFull_never == FALSE

isSentBufferFull ==
  /\ oldestSentASDU # -1
  /\ (newestSentASDU + 1) % K = oldestSentASDU

-----------------------------------------------------------------------------
(* Mutant: the send counter is not reduced to 15 bits. *)
sendASDU_noWrap(ok) ==
  LET currentIndex == IF oldestSentASDU = -1 THEN 0
                                             ELSE (newestSentASDU + 1) % K
  IN  /\ check = NoCheck
      /\ ~isSentBufferFull
      /\ oldestSentASDU' = IF oldestSentASDU = -1 THEN 0 ELSE oldestSentASDU
      /\ newestSentASDU' = currentIndex
      /\ sendCount' = IF ok THEN sendCount + 1 ELSE sendCount
      /\ sentASDUs' = [sentASDUs EXCEPT ![currentIndex] = sendCount']
      /\ isRunning' = (isRunning /\ ok)
      /\ UNCHANGED check

(* sendASDU together with the sendIMessage it calls.  ok tells whether     *)
(* writeToSocket succeeded: if not, the counter keeps its value, and the   *)
(* slot is occupied all the same.                                          *)
sendASDU(ok) ==
  LET currentIndex == IF oldestSentASDU = -1 THEN 0
                                             ELSE (newestSentASDU + 1) % K
  IN  /\ check = NoCheck
      /\ ~isSentBufferFull
      /\ oldestSentASDU' = IF oldestSentASDU = -1 THEN 0 ELSE oldestSentASDU
      /\ newestSentASDU' = currentIndex
      /\ sendCount' = IF ok THEN (sendCount + 1) % SeqMod ELSE sendCount
      /\ sentASDUs' = [sentASDUs EXCEPT ![currentIndex] = sendCount']
      /\ isRunning' = (isRunning /\ ok)
      /\ UNCHANGED check

oldestAsduSeqNo == sentASDUs[oldestSentASDU]
newestAsduSeqNo == sentASDUs[newestSentASDU]

overflow == oldestAsduSeqNo > newestAsduSeqNo

(* Mutant: one before sequence number 0 is not the highest number. *)
oldestValid_noWrap == oldestAsduSeqNo - 1

oldestValid == IF oldestAsduSeqNo = 0 THEN SeqMod - 1 ELSE (oldestAsduSeqNo - 1) % SeqMod

(* The plausibility test at the beginning of checkSequenceNumber. *)
seqNoIsValid(seqNo) ==
  IF oldestSentASDU = -1
  THEN seqNo = sendCount
  ELSE \/ IF overflow
          THEN seqNo >= oldestAsduSeqNo \/ seqNo <= newestAsduSeqNo
          ELSE seqNo >= oldestAsduSeqNo /\ seqNo <= newestAsduSeqNo
       \/ seqNo = oldestValid

(* An I or S frame with N(R) = seqNo arrives.  handleMessage closes the    *)
(* connection when checkSequenceNumber returns false.                      *)
checkSequenceNumber(seqNo) ==
  /\ check = NoCheck
  /\ isRunning' = (isRunning /\ seqNoIsValid(seqNo))
  /\ check' = IF seqNoIsValid(seqNo) /\ oldestSentASDU # -1
              THEN [seqNo |-> seqNo, counterOverflowDetected |-> overflow,
                    oldestValidSeqNo |-> oldestValid]
              ELSE NoCheck
  /\ UNCHANGED <<sendCount, oldestSentASDU, newestSentASDU, sentASDUs>>

(* The two breaks at the head of the loop: nothing more is confirmed. *)
stopConfirming ==
  \/ ~check.counterOverflowDetected /\ check.seqNo < oldestAsduSeqNo
  \/ check.seqNo = check.oldestValidSeqNo

(* Mutant: the loop is continued instead of left. *)
confirmDone_continue ==
  /\ check # NoCheck
  /\ stopConfirming
  /\ UNCHANGED vars

confirmDone ==
  /\ check # NoCheck
  /\ stopConfirming
  /\ check' = NoCheck
  /\ UNCHANGED <<sendCount, oldestSentASDU, newestSentASDU, sentASDUs, isRunning>>

(* Mutant: the loop is left after the first slot. *)
confirmOldest_once ==
  LET next == (oldestSentASDU + 1) % K
      last == oldestSentASDU = newestSentASDU
  IN  /\ check # NoCheck
      /\ ~stopConfirming
      /\ sentASDUs' = [sentASDUs EXCEPT ![oldestSentASDU] = -1]
      /\ oldestSentASDU' = IF last THEN -1 ELSE next
      /\ check' = NoCheck
      /\ UNCHANGED <<sendCount, newestSentASDU, isRunning>>

(* One iteration that frees the oldest slot. *)
confirmOldest ==
  LET next == (oldestSentASDU + 1) % K
      last == IF oldestAsduSeqNo = check.seqNo
              THEN oldestSentASDU = newestSentASDU
              ELSE next = (newestSentASDU + 1) % K
  IN  /\ check # NoCheck
      /\ ~stopConfirming
      /\ sentASDUs' = [sentASDUs EXCEPT ![oldestSentASDU] = -1]
      /\ oldestSentASDU' = IF last THEN -1 ELSE next
      /\ check' = IF last \/ oldestAsduSeqNo = check.seqNo THEN NoCheck ELSE check
      /\ UNCHANGED <<sendCount, newestSentASDU, isRunning>>

(* Mutant: the k-buffer is not emptied for the new client. *)
MasterConnection_init_keep ==
  /\ check = NoCheck
  /\ ~isRunning
  /\ sendCount' = 0
  /\ isRunning' = TRUE
  /\ UNCHANGED <<oldestSentASDU, newestSentASDU, sentASDUs, check>>

(* MasterConnection_init: the connection slot is used for a new client.    *)
(* The ring itself is kept when k did not change.                          *)
MasterConnection_init ==
  /\ check = NoCheck
  /\ ~isRunning
  /\ sendCount' = 0
  /\ oldestSentASDU' = -1
  /\ newestSentASDU' = -1
  /\ isRunning' = TRUE
  /\ UNCHANGED <<sentASDUs, check>>

(* MasterConnection_close, called by another thread: it takes stateLock,   *)
(* not sentASDUsLock, so it may come in the middle of a check.             *)
MasterConnection_close ==
  /\ isRunning
  /\ isRunning' = FALSE
  /\ UNCHANGED <<sendCount, oldestSentASDU, newestSentASDU, sentASDUs, check>>

Next ==
  \/ \E ok \in BOOLEAN : sendASDU(ok)
  \/ \E seqNo \in SeqNos : checkSequenceNumber(seqNo)
  \/ confirmDone
  \/ confirmOldest
  \/ MasterConnection_init
  \/ MasterConnection_close

Fairness == WF_vars(confirmDone) /\ WF_vars(confirmOldest)

Spec == Init /\ [][Next]_vars /\ Fairness

-----------------------------------------------------------------------------
TypeOK ==
  /\ sendCount \in SeqNos
  /\ oldestSentASDU \in Slots \cup {-1}
  /\ newestSentASDU \in Slots \cup {-1}
  /\ sentASDUs \in [Slots -> SeqNos \cup {-1}]
  /\ isRunning \in BOOLEAN
  /\ check \in Checks \cup {NoCheck}

(* The lower edge of the window, as the ring represents it. *)
una == IF oldestSentASDU = -1 THEN sendCount
       ELSE IF oldestAsduSeqNo = 0 THEN SeqMod - 1 ELSE oldestAsduSeqNo - 1

Window == INSTANCE SendWindow WITH
            una  <- IF isRunning THEN una ELSE 0,
            nxt  <- IF isRunning THEN sendCount ELSE 0,
            open <- isRunning

(* The ring implements the two-number window: it never holds more than K   *)
(* frames, acknowledgements only move the lower edge forward inside the    *)
(* window, also across the wrap of the sequence numbers.                   *)
ImplementsWindow == Window!WSpec

(* checkSequenceNumber accepts an N(R) exactly when it lies in the window  *)
(* una .. sendCount: the comparisons with and without counter overflow and *)
(* the special case of the already removed frame miss no legal number and  *)
(* let no other pass.                                                      *)
PlausibilityExact ==
  isRunning /\ check = NoCheck =>
    \A n \in SeqNos : seqNoIsValid(n) <=> Window!InWindow(n)

(* When the loop of checkSequenceNumber ends, exactly the frames before    *)
(* N(R) have left the ring: none is confirmed too early, none is kept.     *)
ConfirmedUpToSeqNo ==
  [][check # NoCheck /\ check' = NoCheck /\ isRunning => una' = check.seqNo]_vars

(* The do/while loop of checkSequenceNumber ends.                          *)
CheckTerminates == check # NoCheck ~> check = NoCheck

-----------------------------------------------------------------------------
(* The inductive strengthening.                                            *)

Offset(i) == IF i >= oldestSentASDU THEN i - oldestSentASDU
                                    ELSE i - oldestSentASDU + K

Count == IF oldestSentASDU = -1 THEN 0 ELSE Offset(newestSentASDU) + 1

SeqAdd(s, n) == IF s + n >= SeqMod THEN s + n - SeqMod ELSE s + n

SeqDist(a, b) == IF b >= a THEN b - a ELSE b - a + SeqMod

(* Slots in use hold sequence numbers, also after a failed write. *)
SlotsInUse ==
  oldestSentASDU # -1 =>
    /\ newestSentASDU # -1
    /\ \A i \in Slots : Offset(i) < Count => sentASDUs[i] \in SeqNos

(* On a running connection the slots in use hold consecutive numbers that  *)
(* end with the current value of the send counter.                         *)
Consecutive ==
  isRunning =>
    /\ SeqAdd(una, Count) = sendCount
    /\ oldestSentASDU # -1 =>
         \A i \in Slots : Offset(i) < Count => sentASDUs[i] = SeqAdd(una, Offset(i) + 1)

(* The locals of a check in progress agree with the ring. *)
CheckConsistent ==
  check # NoCheck =>
    /\ oldestSentASDU # -1
    /\ isRunning =>
         /\ SeqDist(una, check.seqNo) <= Count
         /\ check.seqNo = una <=> check.seqNo = check.oldestValidSeqNo
         /\ ~check.counterOverflowDetected => oldestAsduSeqNo <= newestAsduSeqNo

KBufferInv == SlotsInUse /\ Consecutive /\ CheckConsistent

=============================================================================
