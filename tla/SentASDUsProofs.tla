--------------------------- MODULE SentASDUsProofs --------------------------
(***************************************************************************)
(* Proofs about the k-buffer for every k and every size of the sequence    *)
(* number space above k.                                                   *)
(***************************************************************************)
EXTENDS SentASDUs, TLAPS

-----------------------------------------------------------------------------
(* Ring indices and sequence numbers advance by one and wrap to zero.      *)
LEMMA ModSucc ==
  ASSUME NEW m \in Nat \ {0}, NEW a \in 0..(m - 1)
  PROVE  (a + 1) % m = IF a + 1 = m THEN 0 ELSE a + 1
<1>1. CASE a + 1 < m
  BY <1>1
<1>2. CASE a + 1 = m
  BY <1>2
<1> QED
  BY <1>1, <1>2

(* A number of the space is its own remainder. *)
LEMMA ModSmall ==
  ASSUME NEW m \in Nat \ {0}, NEW a \in 0..(m - 1)
  PROVE  a % m = a
OBVIOUS

(* The value of oldestValidSeqNo is the lower edge of the window. *)
LEMMA OldestValidIsUna ==
  ASSUME TypeOK, SlotsInUse, oldestSentASDU # -1
  PROVE  /\ oldestAsduSeqNo \in SeqNos
         /\ newestAsduSeqNo \in SeqNos
         /\ oldestValid = una
         /\ una \in SeqNos
<1>1. Offset(oldestSentASDU) = 0 /\ Offset(newestSentASDU) < Count /\ 0 < Count
  BY KAssumption DEF TypeOK, SlotsInUse, Offset, Count, Slots
<1>2. oldestAsduSeqNo \in SeqNos /\ newestAsduSeqNo \in SeqNos
  BY <1>1 DEF TypeOK, SlotsInUse, oldestAsduSeqNo, newestAsduSeqNo, Slots
<1>3. CASE oldestAsduSeqNo = 0
  BY <1>2, <1>3, SeqModAssumption DEF oldestValid, una, SeqNos
<1>4. CASE oldestAsduSeqNo # 0
  <2>1. (oldestAsduSeqNo - 1) % SeqMod = oldestAsduSeqNo - 1
    BY <1>2, <1>4, ModSmall, SeqModAssumption DEF SeqNos
  <2> QED
    BY <1>2, <1>4, <2>1, SeqModAssumption DEF oldestValid, una, SeqNos
<1> QED
  BY <1>2, <1>3, <1>4

-----------------------------------------------------------------------------
(* The inductive invariant. *)
IInv == TypeOK /\ KBufferInv

(* A new connection has an empty ring, which satisfies the invariant.      *)
THEOREM InitIInv == Init => IInv
<1> SUFFICES ASSUME Init PROVE IInv
  OBVIOUS
<1>1. TypeOK
  BY KAssumption, SeqModAssumption DEF Init, TypeOK, SeqNos, Slots, NoCheck
<1>2. KBufferInv
  BY KAssumption, SeqModAssumption
  DEF Init, KBufferInv, SlotsInUse, Consecutive, CheckConsistent, una, Count, SeqAdd
<1> QED
  BY <1>1, <1>2 DEF IInv

-----------------------------------------------------------------------------
(* One step per action. *)

(* sendASDU appends the next number, or occupies a slot of a connection    *)
(* that is being torn down.                                                *)
LEMMA SendPreserves ==
  ASSUME IInv, NEW ok \in BOOLEAN, sendASDU(ok)
  PROVE  IInv'
<1> USE KAssumption, SeqModAssumption DEF IInv, KBufferInv
<1> DEFINE cur == IF oldestSentASDU = -1 THEN 0 ELSE (newestSentASDU + 1) % K
<1>0. /\ check = NoCheck /\ check' = NoCheck
      /\ ~isSentBufferFull
      /\ oldestSentASDU' = IF oldestSentASDU = -1 THEN 0 ELSE oldestSentASDU
      /\ newestSentASDU' = cur
      /\ sendCount' = IF ok THEN (sendCount + 1) % SeqMod ELSE sendCount
      /\ sentASDUs' = [sentASDUs EXCEPT ![cur] = sendCount']
      /\ isRunning' = (isRunning /\ ok)
  BY DEF sendASDU
<1>1. sendCount' \in SeqNos /\ (ok => sendCount' = SeqAdd(sendCount, 1))
  BY <1>0, ModSucc DEF TypeOK, SeqNos, SeqAdd
<1>2. cur = IF oldestSentASDU = -1 \/ newestSentASDU + 1 = K THEN 0 ELSE newestSentASDU + 1
  BY ModSucc DEF TypeOK, SlotsInUse, Slots
<1>3. cur \in Slots
  BY <1>2 DEF TypeOK, SlotsInUse, Slots
<1>4. TypeOK'
  BY <1>0, <1>1, <1>3 DEF TypeOK, Slots
<1>5. Count' = Count + 1 /\ cur \in Slots /\ (oldestSentASDU # -1 => Offset(cur) = Count)
  BY <1>0, <1>2 DEF TypeOK, SlotsInUse, isSentBufferFull, Count, Offset, Slots
<1>6. \A i \in Slots : i # cur => /\ sentASDUs'[i] = sentASDUs[i]
                                  /\ Offset(i)' < Count' => /\ oldestSentASDU # -1
                                                            /\ Offset(i)' = Offset(i)
                                                            /\ Offset(i) < Count
  <2> SUFFICES ASSUME NEW i \in Slots, i # cur
               PROVE  /\ sentASDUs'[i] = sentASDUs[i]
                      /\ Offset(i)' < Count' => /\ oldestSentASDU # -1
                                                /\ Offset(i)' = Offset(i)
                                                /\ Offset(i) < Count
    OBVIOUS
  <2>1. sentASDUs'[i] = sentASDUs[i]
    BY <1>0 DEF TypeOK
  <2>2. CASE oldestSentASDU = -1
    BY <1>0, <2>1, <2>2 DEF Offset, Count, Slots
  <2>3. CASE oldestSentASDU # -1
    <3>1. Offset(i)' = Offset(i)
      BY <1>0, <2>3 DEF Offset
    <3>2. Offset(i) # Offset(cur)
      BY <1>3, <2>3 DEF Offset, TypeOK, Slots
    <3> QED
      BY <1>5, <2>1, <2>3, <3>1, <3>2 DEF Offset, Count, TypeOK, SlotsInUse, Slots
  <2> QED
    BY <2>2, <2>3
<1>7. sentASDUs'[cur] = sendCount'
  BY <1>0, <1>3 DEF TypeOK
<1>8. SlotsInUse'
  <2>1. newestSentASDU' # -1
    BY <1>0, <1>3 DEF Slots
  <2>2. ASSUME NEW i \in Slots, Offset(i)' < Count'
        PROVE  sentASDUs'[i] \in SeqNos
    BY <1>1, <1>6, <1>7, <2>2 DEF SlotsInUse
  <2> QED
    BY <2>1, <2>2 DEF SlotsInUse, Slots, SeqNos
<1>9. Consecutive'
  <2>0. isRunning' => isRunning /\ ok
    BY <1>0 DEF TypeOK
  <2> SUFFICES ASSUME isRunning, ok
               PROVE  /\ SeqAdd(una', Count') = sendCount'
                      /\ \A i \in Slots : Offset(i)' < Count' =>
                           sentASDUs'[i] = SeqAdd(una', Offset(i)' + 1)
    BY <2>0 DEF Consecutive, SeqAdd
  <2>1. una' = una
    <3>1. CASE oldestSentASDU = -1
      <4>1. sentASDUs'[oldestSentASDU'] = sendCount' /\ una = sendCount
        BY <1>0, <1>7, <3>1 DEF una
      <4> QED
        BY <1>0, <1>1, <3>1, <4>1 DEF una, oldestAsduSeqNo, SeqAdd, TypeOK, SeqNos
    <3>2. CASE oldestSentASDU # -1
      <4>1. oldestSentASDU # cur
        BY <1>0, <3>2 DEF isSentBufferFull
      <4>2. sentASDUs'[oldestSentASDU'] = sentASDUs[oldestSentASDU]
        BY <1>0, <1>6, <3>2, <4>1 DEF TypeOK
      <4> QED
        BY <1>0, <3>2, <4>2 DEF una, oldestAsduSeqNo
    <3> QED
      BY <3>1, <3>2
  <2>2. una \in SeqNos /\ Count \in 0..(K - 1)
    <3>1. una \in SeqNos
      BY OldestValidIsUna DEF TypeOK, una
    <3>2. Count \in 0..(K - 1)
      BY <1>0, <1>2 DEF TypeOK, SlotsInUse, isSentBufferFull, Count, Offset, Slots
    <3> QED
      BY <3>1, <3>2
  <2>3. SeqAdd(una, Count + 1) = sendCount'
    BY <1>1, <2>2 DEF Consecutive, SeqAdd, SeqNos, TypeOK
  <2>4. ASSUME NEW i \in Slots, Offset(i)' < Count'
        PROVE  sentASDUs'[i] = SeqAdd(una, Offset(i)' + 1)
    <3>1. CASE i = cur
      <4>1. Offset(i)' = Count
        <5>1. CASE oldestSentASDU = -1
          BY <1>0, <3>1, <5>1 DEF Offset, Count, Slots
        <5>2. CASE oldestSentASDU # -1
          BY <1>0, <1>5, <3>1, <5>2 DEF Offset
        <5> QED
          BY <5>1, <5>2
      <4> QED
        BY <1>7, <2>3, <3>1, <4>1
    <3>2. CASE i # cur
      BY <1>6, <2>4, <3>2 DEF Consecutive
    <3> QED
      BY <3>1, <3>2
  <2> QED
    BY <1>5, <2>1, <2>3, <2>4
<1>10. CheckConsistent'
  BY <1>0 DEF CheckConsistent
<1> QED
  BY <1>4, <1>8, <1>9, <1>10

(* The ring in use is never larger than k, and the window is exactly the   *)
(* Count numbers after una.                                                *)
LEMMA WindowBounds ==
  ASSUME IInv
  PROVE  /\ una \in SeqNos
         /\ Count \in 0..K
         /\ isRunning => SeqDist(una, sendCount) = Count
<1> USE KAssumption, SeqModAssumption DEF IInv, KBufferInv
<1>1. una \in SeqNos
  BY OldestValidIsUna DEF TypeOK, una
<1>2. Count \in 0..K
  BY DEF TypeOK, SlotsInUse, Count, Offset, Slots
<1>3. isRunning => SeqDist(una, sendCount) = Count
  BY <1>1, <1>2 DEF Consecutive, SeqAdd, SeqDist, SeqNos, TypeOK
<1> QED
  BY <1>1, <1>2, <1>3

(* On a running connection the oldest slot holds una + 1, the newest slot  *)
(* the value of the send counter.                                          *)
LEMMA WindowEnds ==
  ASSUME IInv, isRunning, oldestSentASDU # -1
  PROVE  /\ oldestAsduSeqNo = SeqAdd(una, 1)
         /\ newestAsduSeqNo = sendCount
         /\ oldestAsduSeqNo \in SeqNos
         /\ Count >= 1
<1> USE KAssumption, SeqModAssumption DEF IInv, KBufferInv
<1>1. /\ Offset(oldestSentASDU) = 0 /\ Offset(newestSentASDU) = Count - 1
      /\ 1 <= Count /\ Count \in Int
      /\ oldestSentASDU \in Slots /\ newestSentASDU \in Slots
  BY DEF TypeOK, SlotsInUse, Offset, Count, Slots
<1>2. oldestAsduSeqNo = SeqAdd(una, 0 + 1) /\ newestAsduSeqNo = SeqAdd(una, (Count - 1) + 1)
  BY <1>1 DEF Consecutive, oldestAsduSeqNo, newestAsduSeqNo
<1>3. SeqAdd(una, Count) = sendCount
  BY DEF Consecutive
<1> QED
  BY <1>1, <1>2, <1>3, OldestValidIsUna

(* The plausibility test accepts the window and nothing else. *)
LEMMA ValidIsInWindow ==
  ASSUME IInv, isRunning, NEW n \in SeqNos
  PROVE  seqNoIsValid(n) <=> SeqDist(una, n) <= Count
<1> USE KAssumption, SeqModAssumption DEF IInv, KBufferInv
<1>1. CASE oldestSentASDU = -1
  BY <1>1, WindowBounds DEF seqNoIsValid, SeqDist, Count, una, SeqNos, TypeOK
<1>2. CASE oldestSentASDU # -1
  <2>1. oldestValid = una
    BY <1>2, OldestValidIsUna
  <2> QED
    BY <1>2, <2>1, WindowEnds, WindowBounds
    DEF seqNoIsValid, SeqDist, SeqAdd, SeqNos, TypeOK, overflow
<1> QED
  BY <1>1, <1>2

(* Entering checkSequenceNumber only sets the locals of the call.          *)
LEMMA CheckPreserves ==
  ASSUME IInv, NEW seqNo \in SeqNos, checkSequenceNumber(seqNo)
  PROVE  IInv'
<1> USE KAssumption, SeqModAssumption DEF IInv, KBufferInv
<1>0. UNCHANGED <<sendCount, oldestSentASDU, newestSentASDU, sentASDUs>>
  BY DEF checkSequenceNumber
<1>a. /\ una' = una /\ Count' = Count /\ oldestAsduSeqNo' = oldestAsduSeqNo
      /\ newestAsduSeqNo' = newestAsduSeqNo /\ (\A i \in Slots : Offset(i)' = Offset(i))
      /\ (isRunning' => isRunning)
  BY <1>0 DEF una, Count, Offset, oldestAsduSeqNo, newestAsduSeqNo, checkSequenceNumber, TypeOK
<1>1. SlotsInUse'
  BY <1>0, <1>a DEF SlotsInUse
<1>2. Consecutive'
  BY <1>0, <1>a DEF Consecutive, SeqAdd
<1>3. CASE ~(seqNoIsValid(seqNo) /\ oldestSentASDU # -1)
  <2>1. check' = NoCheck /\ isRunning' \in BOOLEAN
    BY <1>3 DEF checkSequenceNumber, TypeOK
  <2>2. TypeOK'
    BY <1>0, <2>1 DEF TypeOK
  <2>3. CheckConsistent'
    BY <2>1 DEF CheckConsistent
  <2> QED
    BY <1>1, <1>2, <2>2, <2>3
<1>4. CASE seqNoIsValid(seqNo) /\ oldestSentASDU # -1
  <2>1. check' = [seqNo |-> seqNo, counterOverflowDetected |-> overflow,
                  oldestValidSeqNo |-> oldestValid]
    BY <1>4 DEF checkSequenceNumber
  <2>2. overflow \in BOOLEAN /\ oldestValid \in SeqNos /\ oldestValid = una
    BY <1>4, OldestValidIsUna DEF overflow
  <2>3. isRunning' \in BOOLEAN
    BY DEF checkSequenceNumber, TypeOK
  <2>4. TypeOK'
    BY <1>0, <2>1, <2>2, <2>3 DEF TypeOK, Checks
  <2>5. isRunning => SeqDist(una, seqNo) <= Count
    BY <1>4, ValidIsInWindow
  <2>6. ~overflow => oldestAsduSeqNo <= newestAsduSeqNo
    BY <1>4, OldestValidIsUna DEF overflow, SeqNos
  <2>7. CheckConsistent'
    BY <1>0, <1>a, <1>4, <2>1, <2>2, <2>5, <2>6 DEF CheckConsistent, SeqDist
  <2> QED
    BY <1>1, <1>2, <2>4, <2>7
<1> QED
  BY <1>3, <1>4

(* Leaving the loop of checkSequenceNumber forgets the locals.             *)
LEMMA DonePreserves ==
  ASSUME IInv, confirmDone
  PROVE  IInv'
<1> USE DEF IInv, KBufferInv
<1>0. UNCHANGED <<sendCount, oldestSentASDU, newestSentASDU, sentASDUs, isRunning>>
      /\ check' = NoCheck
  BY DEF confirmDone
<1>1. TypeOK'
  BY <1>0 DEF TypeOK
<1>2. SlotsInUse'
  BY <1>0 DEF SlotsInUse, Offset, Count
<1>3. Consecutive'
  BY <1>0 DEF Consecutive, Offset, Count, una, oldestAsduSeqNo, SeqAdd
<1>4. CheckConsistent'
  BY <1>0 DEF CheckConsistent
<1> QED
  BY <1>1, <1>2, <1>3, <1>4

(* Both exits of the loop recognise the last slot in use. *)
LEMMA LastSlot ==
  ASSUME IInv, oldestSentASDU # -1
  PROVE  /\ (oldestSentASDU + 1) % K \in Slots
         /\ (oldestSentASDU + 1) % K = IF oldestSentASDU + 1 = K THEN 0 ELSE oldestSentASDU + 1
         /\ (oldestSentASDU + 1) % K = (newestSentASDU + 1) % K
              <=> oldestSentASDU = newestSentASDU
         /\ oldestSentASDU = newestSentASDU <=> Count = 1
<1> USE KAssumption DEF IInv, KBufferInv, TypeOK, SlotsInUse, Slots
<1>1. /\ (oldestSentASDU + 1) % K = IF oldestSentASDU + 1 = K THEN 0 ELSE oldestSentASDU + 1
      /\ (newestSentASDU + 1) % K = IF newestSentASDU + 1 = K THEN 0 ELSE newestSentASDU + 1
  BY ModSucc
<1> QED
  BY <1>1 DEF Count, Offset

(* Freeing one slot that is not the last moves the lower edge up by one. *)
LEMMA AdvanceOne ==
  ASSUME IInv, confirmOldest, oldestSentASDU # -1, oldestSentASDU # newestSentASDU, isRunning
  PROVE  /\ una' = oldestAsduSeqNo
         /\ una' = SeqAdd(una, 1)
         /\ oldestAsduSeqNo' = SeqAdd(una, 2)
<1> USE KAssumption, SeqModAssumption DEF IInv, KBufferInv
<1>1. PICK n \in Slots : /\ n = IF oldestSentASDU + 1 = K THEN 0 ELSE oldestSentASDU + 1
                         /\ oldestSentASDU' = n
                         /\ sentASDUs'[n] = sentASDUs[n]
  BY LastSlot DEF confirmOldest, TypeOK, Slots
<1>2. Offset(n) = 1 /\ 1 < Count
  BY <1>1 DEF Offset, Count, TypeOK, SlotsInUse, Slots
<1>3. sentASDUs[n] = SeqAdd(una, 1 + 1)
  BY <1>2 DEF Consecutive
<1>4. oldestAsduSeqNo' = SeqAdd(una, 2)
  BY <1>1, <1>3 DEF oldestAsduSeqNo
<1>5. oldestAsduSeqNo = SeqAdd(una, 1) /\ una \in SeqNos
  BY WindowEnds, WindowBounds
<1>6. una' = IF oldestAsduSeqNo' = 0 THEN SeqMod - 1 ELSE oldestAsduSeqNo' - 1
  BY <1>1 DEF una, Slots
<1> QED
  BY <1>4, <1>5, <1>6 DEF SeqAdd, SeqNos

(* An iteration of checkSequenceNumber frees the oldest slot; the rest of  *)
(* the ring stays consecutive and the call stays inside the window.        *)
LEMMA ConfirmPreserves ==
  ASSUME IInv, confirmOldest
  PROVE  IInv'
<1> USE KAssumption, SeqModAssumption DEF IInv, KBufferInv
<1> DEFINE next == (oldestSentASDU + 1) % K
<1>0. /\ check # NoCheck
      /\ ~stopConfirming
      /\ oldestSentASDU # -1
      /\ UNCHANGED <<sendCount, newestSentASDU, isRunning>>
      /\ sentASDUs' = [sentASDUs EXCEPT ![oldestSentASDU] = -1]
  BY DEF confirmOldest, CheckConsistent
<1>1. next \in Slots /\ next = IF oldestSentASDU + 1 = K THEN 0 ELSE oldestSentASDU + 1
  BY <1>0, LastSlot
<1>2. /\ oldestSentASDU' = IF oldestSentASDU = newestSentASDU THEN -1 ELSE next
      /\ check' = IF oldestSentASDU = newestSentASDU \/ oldestAsduSeqNo = check.seqNo
                  THEN NoCheck ELSE check
  <2>1. next = (newestSentASDU + 1) % K <=> oldestSentASDU = newestSentASDU
    BY <1>0, LastSlot
  <2> QED
    BY <2>1 DEF confirmOldest
<1>3. TypeOK'
  BY <1>0, <1>1, <1>2 DEF TypeOK, Slots
<1>4. CASE oldestSentASDU = newestSentASDU
  <2>1. oldestSentASDU' = -1 /\ check' = NoCheck
    BY <1>2, <1>4
  <2>2. una' = sendCount' /\ Count' = 0
    BY <2>1 DEF una, Count
  <2>3. SlotsInUse' /\ CheckConsistent'
    BY <2>1 DEF SlotsInUse, CheckConsistent
  <2>a. sendCount' \in 0..(SeqMod - 1)
    BY <1>3 DEF TypeOK, SeqNos
  <2>b. SeqAdd(una', Count') = sendCount'
    <3>1. ASSUME NEW c \in 0..(SeqMod - 1) PROVE SeqAdd(c, 0) = c
      BY DEF SeqAdd
    <3> QED
      BY <2>2, <2>a, <3>1
  <2>4. Consecutive'
    BY <2>1, <2>b DEF Consecutive, SeqAdd
  <2> QED
    BY <1>3, <2>3, <2>4
<1>5. CASE oldestSentASDU # newestSentASDU
  <2>1. oldestSentASDU' = next /\ next # -1
    BY <1>1, <1>2, <1>5 DEF Slots
  <2>2. Count' = Count - 1 /\ Count' \in Nat /\ Count \in 2..K
    BY <1>0, <1>1, <1>5, <2>1 DEF Count, Offset, TypeOK, SlotsInUse, Slots
  <2>3. \A i \in Slots : Offset(i)' < Count' =>
           /\ Offset(i) = Offset(i)' + 1
           /\ Offset(i) < Count
           /\ sentASDUs'[i] = sentASDUs[i]
    <3> SUFFICES ASSUME NEW i \in Slots, Offset(i)' < Count'
                 PROVE  /\ Offset(i) = Offset(i)' + 1
                        /\ Offset(i) < Count
                        /\ sentASDUs'[i] = sentASDUs[i]
      OBVIOUS
    <3>1. i # oldestSentASDU
      BY <1>0, <1>1, <2>1, <2>2 DEF Count, Offset, TypeOK, SlotsInUse, Slots
    <3>2. Offset(i) = Offset(i)' + 1
      BY SMTT(20), <1>0, <1>1, <2>1, <3>1 DEF Offset, TypeOK, Slots
    <3>3. Offset(i) < Count
      <4>1. Offset(i)' \in Int
        BY <1>1, <2>1 DEF Offset, Slots
      <4> QED
        BY <2>2, <3>2, <4>1
    <3>4. sentASDUs'[i] = sentASDUs[i]
      BY <1>0, <3>1 DEF TypeOK
    <3> QED
      BY <3>2, <3>3, <3>4
  <2>4. SlotsInUse'
    BY <1>0, <2>1, <2>3 DEF SlotsInUse
  <2>5. ASSUME isRunning
        PROVE  /\ una' = oldestAsduSeqNo
               /\ una' = SeqAdd(una, 1)
               /\ oldestAsduSeqNo' = SeqAdd(una, 2)
    BY <1>0, <1>5, <2>5, AdvanceOne
  <2>6. Consecutive'
    <3> SUFFICES ASSUME isRunning
                 PROVE  /\ SeqAdd(una', Count') = sendCount
                        /\ \A i \in Slots : Offset(i)' < Count' =>
                             sentASDUs'[i] = SeqAdd(una', Offset(i)' + 1)
      BY <1>0 DEF Consecutive, SeqAdd
    <3>1. una \in SeqNos /\ SeqAdd(una, Count) = sendCount /\ una' = SeqAdd(una, 1)
      BY <2>5, WindowBounds DEF Consecutive
    <3>2. SeqAdd(una', Count') = sendCount
      BY <2>2, <3>1 DEF SeqAdd, SeqNos
    <3>3. ASSUME NEW i \in Slots, Offset(i)' < Count'
          PROVE  sentASDUs'[i] = SeqAdd(una', Offset(i)' + 1)
      <4>1. sentASDUs'[i] = SeqAdd(una, Offset(i) + 1) /\ Offset(i) = Offset(i)' + 1
            /\ Offset(i) \in 0..K
        BY <1>0, <2>2, <2>3, <3>3 DEF Consecutive, Offset, TypeOK, Slots
      <4>2. Offset(i)' \in Int /\ Offset(i)' >= 0
        BY <2>1, <1>1 DEF Offset, Slots
      <4> QED
        BY <2>2, <3>1, <3>3, <4>1, <4>2 DEF SeqAdd, SeqNos
    <3> QED
      BY <3>2, <3>3
  <2>7. CheckConsistent'
    <3> SUFFICES ASSUME check' # NoCheck
                 PROVE  CheckConsistent'
      BY DEF CheckConsistent
    <3>1. check' = check /\ oldestAsduSeqNo # check.seqNo /\ check \in Checks
      BY <1>0, <1>2 DEF TypeOK
    <3>2. SUFFICES ASSUME isRunning
                   PROVE  /\ SeqDist(una', check.seqNo) <= Count'
                          /\ check.seqNo = una' <=> check.seqNo = check.oldestValidSeqNo
                          /\ ~check.counterOverflowDetected =>
                                oldestAsduSeqNo' <= newestAsduSeqNo'
      BY <1>0, <2>1, <3>1 DEF CheckConsistent, SeqDist
    <3>3. /\ una \in SeqNos /\ check.seqNo \in SeqNos /\ sendCount \in SeqNos
          /\ SeqDist(una, check.seqNo) <= Count
          /\ check.seqNo # una
          /\ check.seqNo # check.oldestValidSeqNo
      BY <1>0, <3>1, <3>2, WindowBounds DEF CheckConsistent, stopConfirming, Checks, TypeOK
    <3>4. /\ una' = SeqAdd(una, 1) /\ una' = oldestAsduSeqNo
          /\ oldestAsduSeqNo' = SeqAdd(una, 2)
      BY <2>5, <3>2
    <3>5. SeqDist(una', check.seqNo) <= Count'
      BY <2>2, <3>3, <3>4 DEF SeqDist, SeqAdd, SeqNos
    <3>6. newestAsduSeqNo' = sendCount /\ newestAsduSeqNo = sendCount
      <4>1. newestSentASDU \in Slots
        BY <1>0 DEF TypeOK, SlotsInUse
      <4>2. sentASDUs'[newestSentASDU] = sentASDUs[newestSentASDU]
        BY <1>0, <1>5, <4>1 DEF TypeOK
      <4> QED
        BY <1>0, <3>2, <4>2, WindowEnds DEF newestAsduSeqNo
    <3>7. ~check.counterOverflowDetected => oldestAsduSeqNo' <= newestAsduSeqNo'
      <4>1. ~check.counterOverflowDetected => SeqAdd(una, 1) <= sendCount
        BY <1>0, <3>2, <3>4, <3>6 DEF CheckConsistent
      <4>2. SeqAdd(una, Count) = sendCount
        BY <3>2 DEF Consecutive
      <4> QED
        BY <2>2, <3>3, <3>4, <3>6, <4>1, <4>2 DEF SeqAdd, SeqNos
    <3> QED
      BY <3>1, <3>3, <3>4, <3>5, <3>7
  <2> QED
    BY <1>3, <2>4, <2>6, <2>7
<1> QED
  BY <1>4, <1>5

(* MasterConnection_init empties the ring for the next client.             *)
LEMMA InitConnPreserves ==
  ASSUME IInv, MasterConnection_init
  PROVE  IInv'
<1> USE KAssumption, SeqModAssumption DEF IInv, KBufferInv
<1>0. /\ check' = NoCheck /\ sendCount' = 0 /\ oldestSentASDU' = -1 /\ newestSentASDU' = -1
      /\ isRunning' = TRUE /\ sentASDUs' = sentASDUs
  BY DEF MasterConnection_init
<1>1. TypeOK'
  BY <1>0 DEF TypeOK, SeqNos
<1>2. una' = 0 /\ Count' = 0
  BY <1>0 DEF una, Count
<1> QED
  BY <1>0, <1>1, <1>2 DEF SlotsInUse, Consecutive, CheckConsistent, SeqAdd

(* MasterConnection_close may come in the middle of a check.               *)
LEMMA ClosePreserves ==
  ASSUME IInv, MasterConnection_close
  PROVE  IInv'
<1> USE DEF IInv, KBufferInv
<1>0. UNCHANGED <<sendCount, oldestSentASDU, newestSentASDU, sentASDUs, check>>
      /\ isRunning' = FALSE
  BY DEF MasterConnection_close
<1>1. TypeOK'
  BY <1>0 DEF TypeOK
<1>2. SlotsInUse' /\ Consecutive' /\ CheckConsistent'
  BY <1>0 DEF SlotsInUse, Consecutive, CheckConsistent, Offset, Count
<1> QED
  BY <1>1, <1>2

(* The invariant only depends on the variables of the k-buffer.            *)
LEMMA StutterPreserves ==
  ASSUME IInv, UNCHANGED vars
  PROVE  IInv'
<1> USE DEF IInv, KBufferInv, vars
<1>1. TypeOK' /\ SlotsInUse'
  BY DEF TypeOK, SlotsInUse, Offset, Count
<1>2. Consecutive' /\ CheckConsistent'
  BY DEF Consecutive, CheckConsistent, Offset, Count, una, oldestAsduSeqNo, newestAsduSeqNo,
         SeqAdd, SeqDist
<1> QED
  BY <1>1, <1>2

(* Every operation on the k-buffer preserves the invariant.                *)
LEMMA NextIInv == IInv /\ [Next]_vars => IInv'
BY SendPreserves, CheckPreserves, DonePreserves, ConfirmPreserves,
   InitConnPreserves, ClosePreserves, StutterPreserves DEF Next

(* The inductive invariant holds in every state of a server connection.    *)
THEOREM IInvInvariant == Spec => []IInv
BY InitIInv, NextIInv, PTL DEF Spec

-----------------------------------------------------------------------------
(* The variables of the k-buffer keep their types: the indices stay inside *)
(* the ring, a slot holds a sequence number or -1.                         *)
THEOREM TypeCorrect == Spec => []TypeOK
<1>1. IInv => TypeOK
  BY DEF IInv
<1> QED
  BY <1>1, IInvInvariant, PTL

(* The slots in use of a running connection hold the consecutive numbers   *)
(* una + 1 .. sendCount, and a check in progress agrees with them.         *)
THEOREM KBufferCorrect == Spec => []KBufferInv
<1>1. IInv => KBufferInv
  BY DEF IInv
<1> QED
  BY <1>1, IInvInvariant, PTL

(* checkSequenceNumber accepts an acknowledgement exactly when it lies in  *)
(* the window, whatever k and wherever the sequence numbers wrap.          *)
THEOREM PlausibilityCorrect == Spec => []PlausibilityExact
<1>1. IInv => PlausibilityExact
  <2> SUFFICES ASSUME IInv, isRunning, NEW n \in SeqNos
               PROVE  seqNoIsValid(n) <=> Window!InWindow(n)
    BY DEF PlausibilityExact
  <2>1. seqNoIsValid(n) <=> SeqDist(una, n) <= Count
    BY ValidIsInWindow
  <2>2. SeqDist(una, sendCount) = Count
    BY WindowBounds
  <2> QED
    BY <2>1, <2>2 DEF Window!InWindow, Window!Outstanding, Window!Dist, SeqDist
<1> QED
  BY <1>1, IInvInvariant, PTL

(* When the loop of checkSequenceNumber ends on a running connection, the  *)
(* frames before N(R), and no others, have left the ring.                  *)
THEOREM ConfirmationCorrect == Spec => ConfirmedUpToSeqNo
<1> DEFINE A == check # NoCheck /\ check' = NoCheck /\ isRunning => una' = check.seqNo
<1>1. IInv /\ [Next]_vars => [A]_vars
  <2> SUFFICES ASSUME IInv, Next, check # NoCheck, check' = NoCheck, isRunning
               PROVE  una' = check.seqNo
    BY DEF vars
  <2> USE DEF IInv, KBufferInv
  <2>1. CASE confirmDone
    <3>1. una' = una
      BY <2>1 DEF confirmDone, una, oldestAsduSeqNo
    <3>2. una \in SeqNos /\ check \in Checks /\ oldestSentASDU # -1
      BY WindowBounds DEF TypeOK, CheckConsistent
    <3>3. check.seqNo # una => check.seqNo >= oldestAsduSeqNo \/ check.counterOverflowDetected
      <4>1. SeqDist(una, check.seqNo) <= Count /\ SeqAdd(una, Count) = sendCount
            /\ (~check.counterOverflowDetected => oldestAsduSeqNo <= newestAsduSeqNo)
        BY DEF CheckConsistent, Consecutive
      <4>2. oldestAsduSeqNo = SeqAdd(una, 1) /\ newestAsduSeqNo = sendCount /\ Count \in 1..K
        BY <3>2, WindowEnds, WindowBounds, KAssumption
      <4> QED
        BY <3>2, <4>1, <4>2, KAssumption, SeqModAssumption
        DEF SeqDist, SeqAdd, SeqNos, Checks, TypeOK
    <3>4. oldestAsduSeqNo \in SeqNos /\ check.seqNo \in SeqNos
      BY <3>2, WindowEnds DEF Checks
    <3>5. stopConfirming /\ (check.seqNo = una <=> check.seqNo = check.oldestValidSeqNo)
      BY <2>1 DEF confirmDone, CheckConsistent
    <3> QED
      BY <3>1, <3>3, <3>4, <3>5, SeqModAssumption DEF stopConfirming, SeqNos
  <2>2. CASE confirmOldest
    <3>1. oldestSentASDU # -1 /\ check \in Checks /\ ~stopConfirming
      BY <2>2 DEF confirmOldest, CheckConsistent, TypeOK
    <3>2. oldestAsduSeqNo = SeqAdd(una, 1) /\ una \in SeqNos /\ Count \in 1..K
      BY <3>1, WindowEnds, WindowBounds, KAssumption
    <3>3. check.seqNo # una /\ SeqDist(una, check.seqNo) <= Count
      BY <3>1 DEF stopConfirming, CheckConsistent
    <3>4. IInv' /\ isRunning' /\ sendCount' = sendCount
      BY <2>2, ConfirmPreserves DEF confirmOldest
    <3>5. CASE oldestSentASDU = newestSentASDU
      <4>1. oldestSentASDU' = -1 /\ Count = 1
        BY <2>2, <3>1, <3>5, LastSlot DEF confirmOldest
      <4>2. una' = sendCount /\ SeqAdd(una, 1) = sendCount
        BY <3>4, <4>1 DEF una, Consecutive
      <4> QED
        BY <3>1, <3>2, <3>3, <4>1, <4>2, KAssumption, SeqModAssumption
        DEF SeqDist, SeqAdd, SeqNos, Checks
    <3>6. CASE oldestSentASDU # newestSentASDU
      <4>1. /\ oldestSentASDU' = (oldestSentASDU + 1) % K /\ oldestSentASDU' # -1
            /\ oldestAsduSeqNo = check.seqNo
        BY <2>2, <3>1, <3>6, LastSlot, KAssumption DEF confirmOldest, Slots
      <4>2. una' = SeqAdd(una, 1)
        BY <2>2, <3>1, <3>6, AdvanceOne
      <4> QED
        BY <3>2, <4>1, <4>2
    <3> QED
      BY <3>5, <3>6
  <2>3. CASE ~(confirmDone \/ confirmOldest)
    BY <2>3 DEF Next, sendASDU, checkSequenceNumber, MasterConnection_init, MasterConnection_close
  <2> QED
    BY <2>1, <2>2, <2>3
<1> QED
  BY <1>1, IInvInvariant, PTL DEF Spec, ConfirmedUpToSeqNo

-----------------------------------------------------------------------------
(* Sending leaves the lower edge of the window alone. *)
LEMMA SendKeepsUna ==
  ASSUME IInv, isRunning, sendASDU(TRUE)
  PROVE  una' = una /\ Count < K
<1> USE KAssumption, SeqModAssumption DEF IInv, KBufferInv
<1>1. Count < K
  <2>1. oldestSentASDU # -1 =>
          (newestSentASDU + 1) % K = IF newestSentASDU + 1 = K THEN 0 ELSE newestSentASDU + 1
    BY ModSucc DEF TypeOK, SlotsInUse, Slots
  <2> QED
    BY <2>1 DEF sendASDU, isSentBufferFull, TypeOK, SlotsInUse, Count, Offset, Slots
<1>2. CASE oldestSentASDU = -1
  <2>1. oldestSentASDU' = 0 /\ sentASDUs'[0] = (sendCount + 1) % SeqMod /\ una = sendCount
    BY <1>2 DEF sendASDU, TypeOK, Slots, una
  <2>2. (sendCount + 1) % SeqMod = IF sendCount + 1 = SeqMod THEN 0 ELSE sendCount + 1
    BY ModSucc DEF TypeOK, SeqNos
  <2> QED
    BY <1>1, <2>1, <2>2 DEF una, oldestAsduSeqNo, TypeOK, SeqNos
<1>3. CASE oldestSentASDU # -1
  <2>1. oldestSentASDU' = oldestSentASDU /\ sentASDUs'[oldestSentASDU] = sentASDUs[oldestSentASDU]
    BY <1>3 DEF sendASDU, isSentBufferFull, TypeOK
  <2> QED
    BY <1>1, <1>3, <2>1 DEF una, oldestAsduSeqNo
<1> QED
  BY <1>2, <1>3

(* Every step of the ring is a step of the window or leaves it alone. *)
LEMMA StepRefines ==
  ASSUME IInv, Next
  PROVE  Window!WNext \/ UNCHANGED Window!wvars
<1> USE KAssumption, SeqModAssumption DEF IInv, KBufferInv
<1>0. una \in SeqNos /\ Count \in 0..K /\ (isRunning => Window!Dist(una, sendCount) = Count)
      /\ isRunning \in BOOLEAN
  BY WindowBounds DEF Window!Dist, SeqDist, TypeOK
<1>1. ASSUME NEW ok \in BOOLEAN, sendASDU(ok)
      PROVE  Window!WNext \/ UNCHANGED Window!wvars
  <2>1. CASE isRunning /\ ok
    <3>1. una' = una /\ Count < K
      BY <1>1, <2>1, SendKeepsUna
    <3>2. isRunning' /\ sendCount' = (sendCount + 1) % SeqMod
      BY <1>1, <2>1 DEF sendASDU
    <3> QED
      BY <1>0, <2>1, <3>1, <3>2 DEF Window!WNext, Window!Transmit, Window!Outstanding
  <2>2. CASE isRunning /\ ~ok
    BY <1>0, <1>1, <2>2 DEF sendASDU, Window!WNext, Window!Abort
  <2>3. CASE ~isRunning
    BY <1>0, <1>1, <2>3 DEF sendASDU, Window!wvars
  <2> QED
    BY <1>0, <2>1, <2>2, <2>3
<1>2. ASSUME NEW seqNo \in SeqNos, checkSequenceNumber(seqNo)
      PROVE  Window!WNext \/ UNCHANGED Window!wvars
  <2>0. una' = una /\ sendCount' = sendCount
    BY <1>2 DEF checkSequenceNumber, una, oldestAsduSeqNo
  <2>1. CASE isRunning /\ ~seqNoIsValid(seqNo)
    BY <1>0, <1>2, <2>1 DEF checkSequenceNumber, Window!WNext, Window!Abort
  <2>2. CASE ~isRunning \/ seqNoIsValid(seqNo)
    <3>1. isRunning' = isRunning
      BY <1>0, <1>2, <2>2 DEF checkSequenceNumber
    <3> QED
      BY <2>0, <3>1 DEF Window!wvars
  <2> QED
    BY <2>1, <2>2
<1>3. CASE confirmDone
  BY <1>3 DEF confirmDone, una, oldestAsduSeqNo, Window!wvars
<1>4. CASE confirmOldest
  <2>0. isRunning' = isRunning /\ sendCount' = sendCount /\ oldestSentASDU # -1
    BY <1>4 DEF confirmOldest, CheckConsistent
  <2>1. CASE ~isRunning
    BY <2>0, <2>1 DEF Window!wvars
  <2>2. CASE isRunning
    <3>1. una' = SeqAdd(una, 1)
      <4>1. CASE oldestSentASDU = newestSentASDU
        <5>1. oldestSentASDU' = -1 /\ Count = 1
          BY <1>4, <2>0, <4>1, LastSlot DEF confirmOldest
        <5> QED
          BY <2>0, <2>2, <5>1 DEF una, Consecutive
      <4>2. CASE oldestSentASDU # newestSentASDU
        BY <1>4, <2>0, <2>2, <4>2, AdvanceOne
      <4> QED
        BY <4>1, <4>2
    <3>2. Count >= 1
      BY <2>0, <2>2, WindowEnds
    <3>3. SeqAdd(una, 1) \in 0..(SeqMod - 1) /\ Window!Dist(una, SeqAdd(una, 1)) = 1
      BY <1>0 DEF SeqAdd, Window!Dist, SeqNos
    <3>4. PICK n \in 0..(SeqMod - 1) : n = SeqAdd(una, 1)
      BY <3>3
    <3> QED
      BY <1>0, <2>0, <2>2, <3>1, <3>2, <3>3, <3>4
      DEF Window!WNext, Window!Acknowledge, Window!InWindow, Window!Outstanding
  <2> QED
    BY <1>0, <2>1, <2>2
<1>5. CASE MasterConnection_init
  <2>1. ~isRunning /\ isRunning' = TRUE /\ sendCount' = 0 /\ una' = 0
    BY <1>5 DEF MasterConnection_init, una
  <2> QED
    BY <2>1 DEF Window!WNext, Window!Reopen
<1>6. CASE MasterConnection_close
  BY <1>6 DEF MasterConnection_close, Window!WNext, Window!Abort
<1> QED
  BY <1>1, <1>2, <1>3, <1>4, <1>5, <1>6 DEF Next

(* The k-buffer implements the two-number window: a ring operation is a    *)
(* transmission, an acknowledgement inside the window, the end or the      *)
(* start of a connection, or it leaves both numbers alone.                 *)
THEOREM WindowRefined == Spec => ImplementsWindow
<1>1. Init => Window!WInit
  BY DEF Init, Window!WInit, una
<1>2. IInv /\ [Next]_vars => [Window!WNext]_(Window!wvars)
  <2>1. ASSUME UNCHANGED vars PROVE UNCHANGED Window!wvars
    BY <2>1 DEF vars, Window!wvars, una, oldestAsduSeqNo
  <2> QED
    BY <2>1, StepRefines
<1> QED
  BY <1>1, <1>2, IInvInvariant, PTL DEF Spec, ImplementsWindow, Window!WSpec

=============================================================================
