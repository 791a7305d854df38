-------------------------- MODULE FileServerProofs --------------------------
(***************************************************************************)
(* Proofs about the file service of a slave, for every set of clients and  *)
(* of files, sections of any number and length, and every size of segment. *)
(***************************************************************************)
EXTENDS FileServer, FiniteSetTheorems, SequenceTheorems, TLAPS

-----------------------------------------------------------------------------
(* Checksums                                                               *)

(* A set of natural numbers that has an element has a least one. *)
LEMMA LeastNatural ==
  ASSUME NEW T \in SUBSET Nat, T # {}
  PROVE  \E x \in T : \A y \in T : x <= y
<1> DEFINE R == StrictSubsetOrdering(Nat)
           S == FiniteSubsetsOf(Nat)
           U == {1..k : k \in T}
<1>1. IsWellFoundedOn(R, S)
  BY FS_StrictSubsetOrderingWellFounded
<1>2. U \subseteq S /\ U # {}
  <2>1. \A k \in T : 1..k \subseteq Nat /\ IsFiniteSet(1..k)
    BY FS_Interval
  <2> QED
    BY <2>1 DEF FiniteSubsetsOf
<1>3. PICK u \in U : \A v \in U : ~ (<<v, u>> \in R)
  <2> HIDE DEF R, S, U
  <2> QED
    BY <1>1, <1>2, WFMin
<1>4. PICK x \in T : u = 1..x
  OBVIOUS
<1>5. ASSUME NEW y \in T, ~ x <= y PROVE FALSE
  <2>1. 1..y \subseteq 1..x /\ 1..y # 1..x
    <3>1. x \in Nat /\ y \in Nat /\ x \in 1..x /\ x \notin 1..y
      BY <1>5
    <3> QED
      BY <3>1
  <2>2. <<1..y, 1..x>> \in R
    BY <2>1 DEF StrictSubsetOrdering
  <2> QED
    BY <2>2, <1>3, <1>4
<1> QED
  BY <1>5

(* The addition of bytes wraps around at most once. *)
LEMMA ByteSum ==
  ASSUME NEW x \in Bytes, NEW y \in Bytes
  PROVE  /\ (x + y) % ChecksumMod = IF x + y < ChecksumMod THEN x + y ELSE x + y - ChecksumMod
         /\ (x + y) % ChecksumMod \in Bytes
<1>1. ASSUME NEW m \in Nat \ {0}, NEW z \in Nat, z < m + m
      PROVE  z % m = IF z < m THEN z ELSE z - m
  <2>1. PICK q \in Int, r \in Int : q = z \div m /\ r = z % m
    BY <1>1
  <2>2. 0 <= r /\ r < m /\ z = m * q + r
    BY <2>1, <1>1
  <2>3. q >= 0 /\ q < 2
    BY <2>2, <1>1
  <2>4. m * 0 = 0 /\ m * 1 = m
    BY <1>1
  <2>5. (q = 0 /\ z = r) \/ (q = 1 /\ z = m + r)
    BY <2>2, <2>3, <2>4
  <2> QED
    BY <2>1, <2>2, <2>5
<1>2. ChecksumMod \in Nat \ {0} /\ x \in Nat /\ y \in Nat /\ x + y < ChecksumMod + ChecksumMod
  BY FileServerAssumption DEF Bytes
<1>3. (x + y) % ChecksumMod = IF x + y < ChecksumMod THEN x + y ELSE x + y - ChecksumMod
  <2>1. PICK z : z = x + y
    OBVIOUS
  <2>2. z \in Nat /\ z < ChecksumMod + ChecksumMod
    BY <2>1, <1>2
  <2>3. z % ChecksumMod = IF z < ChecksumMod THEN z ELSE z - ChecksumMod
    BY <1>1, <1>2, <2>2
  <2> QED
    BY <1>2, <2>1, <2>3
<1> QED
  BY <1>2, <1>3 DEF Bytes

(* f sums up the first m of the bytes b. *)
IsSum(f, b, m) == f = [n \in 0..m |-> IF n = 0 THEN 0 ELSE (f[n - 1] + b[n]) % ChecksumMod]

(* There is such a function, so the recursive one of Sum is one. *)
LEMMA SumExists ==
  ASSUME NEW b, NEW M \in Nat
  PROVE  \E f : IsSum(f, b, M)
<1> DEFINE Def(m, f) == IsSum(f, b, m)
           T == {m \in Nat : ~\E f : Def(m, f)}
<1> SUFFICES ASSUME M \in T PROVE FALSE
  OBVIOUS
<1>1. PICK m \in T : \A j \in T : m <= j
  <2> HIDE DEF Def
  <2> QED BY LeastNatural
<1>2. m # 0
  <2> DEFINE e == [n \in 0..0 |-> 0]
  <2>1. Def(0, e)
    BY DEF IsSum
  <2> QED BY <2>1
<1>3. m - 1 \in Nat /\ m - 1 \notin T
  <2> HIDE DEF Def
  <2> QED BY <1>1, <1>2
<1>4. PICK f : Def(m - 1, f)
  <2> HIDE DEF Def
  <2> QED BY <1>3
<1> DEFINE h == [n \in 0..m |-> IF n = 0 THEN 0 ELSE (f[n - 1] + b[n]) % ChecksumMod]
<1>5. \A n \in 0..(m - 1) : h[n] = f[n]
  BY <1>4, <1>3 DEF IsSum
<1>6. Def(m, h)
  <2>1. \A n \in 0..m : n # 0 => n - 1 \in 0..(m - 1)
    BY <1>3
  <2>2. \A n \in 0..m : h[n] = IF n = 0 THEN 0 ELSE (h[n - 1] + b[n]) % ChecksumMod
    BY <1>5, <2>1
  <2> QED BY <2>2 DEF IsSum
<1> QED
  BY <1>6, <1>1

(* The sums of all beginnings of a sequence, the last of which is Sum. *)
LEMMA SumSteps ==
  ASSUME NEW b \in Seq(Bytes)
  PROVE  \E f : /\ f[0] = 0 /\ f[Len(b)] = Sum(b)
                /\ \A n \in 1..Len(b) : f[n] = (f[n - 1] + b[n]) % ChecksumMod
                /\ \A n \in 0..Len(b) : f[n] \in Bytes
<1> DEFINE f == CHOOSE g : IsSum(g, b, Len(b))
<1>1. IsSum(f, b, Len(b))
  BY SumExists
<1>2. f[Len(b)] = Sum(b)
  BY DEF Sum, IsSum
<1> HIDE DEF f
<1>3. f[0] = 0 /\ \A n \in 1..Len(b) : f[n] = (f[n - 1] + b[n]) % ChecksumMod
  BY <1>1 DEF IsSum
<1>4. \A n \in 0..Len(b) : f[n] \in Bytes
  <2> DEFINE T == {n \in 0..Len(b) : f[n] \notin Bytes}
  <2> SUFFICES ASSUME T # {} PROVE FALSE
    OBVIOUS
  <2>0. T \in SUBSET Nat
    OBVIOUS
  <2>1. PICK n \in T : \A j \in T : n <= j
    <3> HIDE DEF T
    <3> QED BY <2>0, LeastNatural
  <2>2. n # 0
    BY <1>3, FileServerAssumption DEF Bytes
  <2>3. n \in 1..Len(b) /\ n - 1 \in 0..Len(b) /\ n - 1 \notin T
    BY <2>1, <2>2
  <2>4. f[n - 1] \in Bytes /\ b[n] \in Bytes
    BY <2>3
  <2> QED
    BY <2>3, <2>4, <1>3, ByteSum
<1> QED
  BY <1>2, <1>3, <1>4

(* A checksum is a byte, and that of no data is zero. *)
LEMMA SumIsByte ==
  ASSUME NEW b \in Seq(Bytes)
  PROVE  Sum(b) \in Bytes
BY SumSteps

LEMMA SumOfNothing == Sum(<<>>) = 0
<1>1. <<>> \in Seq(Bytes) /\ Len(<<>>) = 0
  OBVIOUS
<1> QED
  BY <1>1, SumSteps

(* The checksum of two parts is the sum of the checksums of the parts:     *)
(* sendSegment may add up segment by segment.                              *)
LEMMA SumAppend ==
  ASSUME NEW a \in Seq(Bytes), NEW b \in Seq(Bytes)
  PROVE  Sum(a \o b) = (Sum(a) + Sum(b)) % ChecksumMod
<1> DEFINE ab == a \o b
<1>1. ab \in Seq(Bytes) /\ Len(ab) = Len(a) + Len(b)
  OBVIOUS
<1>2. /\ \A n \in 1..Len(a) : ab[n] = a[n]
      /\ \A n \in 1..Len(b) : ab[Len(a) + n] = b[n]
  OBVIOUS
<1> HIDE DEF ab
<1>3. PICK f : /\ f[0] = 0 /\ f[Len(a)] = Sum(a)
               /\ \A n \in 1..Len(a) : f[n] = (f[n - 1] + a[n]) % ChecksumMod
               /\ \A n \in 0..Len(a) : f[n] \in Bytes
  BY SumSteps
<1>4. PICK g : /\ g[0] = 0 /\ g[Len(b)] = Sum(b)
               /\ \A n \in 1..Len(b) : g[n] = (g[n - 1] + b[n]) % ChecksumMod
               /\ \A n \in 0..Len(b) : g[n] \in Bytes
  BY SumSteps
<1>5. PICK h : /\ h[0] = 0 /\ h[Len(ab)] = Sum(ab)
               /\ \A n \in 1..Len(ab) : h[n] = (h[n - 1] + ab[n]) % ChecksumMod
               /\ \A n \in 0..Len(ab) : h[n] \in Bytes
  BY <1>1, SumSteps
<1>6. h[Len(a)] = Sum(a)
  <2> DEFINE T == {n \in 0..Len(a) : h[n] # f[n]}
  <2>1. ASSUME T # {} PROVE FALSE
    <3>0. T \in SUBSET Nat
      OBVIOUS
    <3>1. PICK n \in T : \A j \in T : n <= j
      <4> HIDE DEF T
      <4> QED BY <2>1, <3>0, LeastNatural
    <3>2. n # 0
      BY <1>3, <1>5
    <3>3. n \in 1..Len(a) /\ n - 1 \in 0..Len(a) /\ n - 1 \notin T /\ n \in 1..Len(ab)
      BY <3>1, <3>2, <1>1
    <3>4. h[n - 1] = f[n - 1] /\ ab[n] = a[n]
      BY <3>3, <1>2
    <3> QED
      BY <3>3, <3>4, <1>3, <1>5
  <2> QED
    BY <2>1, <1>3
<1>7. \A n \in 0..Len(b) : h[Len(a) + n] = (Sum(a) + g[n]) % ChecksumMod
  <2> DEFINE T == {n \in 0..Len(b) : h[Len(a) + n] # (Sum(a) + g[n]) % ChecksumMod}
  <2> SUFFICES ASSUME T # {} PROVE FALSE
    OBVIOUS
  <2>0. Sum(a) \in Bytes
    BY SumIsByte
  <2>1. PICK n \in T : \A j \in T : n <= j
    <3>1. T \in SUBSET Nat
      OBVIOUS
    <3> HIDE DEF T
    <3> QED BY <3>1, LeastNatural
  <2>2. n # 0
    <3>1. ASSUME n = 0 PROVE FALSE
      <4>1. Sum(a) \in Nat /\ Sum(a) < ChecksumMod /\ ChecksumMod \in Nat \ {0} /\ 0 \in Bytes
        BY <2>0, FileServerAssumption DEF Bytes
      <4>2. (Sum(a) + 0) % ChecksumMod = Sum(a)
        BY <4>1, <2>0, ByteSum
      <4>3. h[Len(a) + 0] = h[Len(a)]
        OBVIOUS
      <4> QED
        BY <3>1, <4>2, <4>3, <1>6, <1>4, <2>1
    <3> QED
      BY <3>1
  <2>3. n \in 1..Len(b) /\ n - 1 \in 0..Len(b) /\ n - 1 \notin T
    BY <2>1, <2>2
  <2>4. PICK p : p = Len(a) + n
    OBVIOUS
  <2>5. p \in 1..Len(ab) /\ p - 1 = Len(a) + (n - 1)
    BY <2>3, <2>4, <1>1
  <2>6. h[p - 1] = (Sum(a) + g[n - 1]) % ChecksumMod
    BY <2>3, <2>5
  <2>7. h[p] = (h[p - 1] + ab[p]) % ChecksumMod /\ ab[p] = b[n]
    BY <2>3, <2>4, <2>5, <1>2, <1>5
  <2>8. PICK x, y, z : x = Sum(a) /\ y = g[n - 1] /\ z = b[n]
    OBVIOUS
  <2>9. x \in Bytes /\ y \in Bytes /\ z \in Bytes
    BY <2>0, <2>3, <2>8, <1>4
  <2>10. (((x + y) % ChecksumMod) + z) % ChecksumMod = (x + ((y + z) % ChecksumMod)) % ChecksumMod
    <3>1. PICK xy, yz : xy = (x + y) % ChecksumMod /\ yz = (y + z) % ChecksumMod
      OBVIOUS
    <3>2. /\ xy = (IF x + y < ChecksumMod THEN x + y ELSE x + y - ChecksumMod) /\ xy \in Bytes
          /\ yz = (IF y + z < ChecksumMod THEN y + z ELSE y + z - ChecksumMod) /\ yz \in Bytes
      BY <2>9, <3>1, ByteSum
    <3>3. /\ (xy + z) % ChecksumMod = IF xy + z < ChecksumMod THEN xy + z ELSE xy + z - ChecksumMod
          /\ (x + yz) % ChecksumMod = IF x + yz < ChecksumMod THEN x + yz ELSE x + yz - ChecksumMod
      BY <2>9, <3>2, ByteSum
    <3>4. /\ x \in Int /\ y \in Int /\ z \in Int /\ ChecksumMod \in Int
          /\ 0 <= x /\ x < ChecksumMod /\ 0 <= y /\ y < ChecksumMod /\ 0 <= z /\ z < ChecksumMod
      BY <2>9, FileServerAssumption DEF Bytes
    <3>5. (xy + z) % ChecksumMod = (x + yz) % ChecksumMod
      BY <3>2, <3>3, <3>4
    <3> QED
      BY <3>1, <3>5
  <2>11. g[n] = (y + z) % ChecksumMod
    BY <2>3, <2>8, <1>4
  <2>12. h[p] = (Sum(a) + g[n]) % ChecksumMod
    BY <2>6, <2>7, <2>8, <2>10, <2>11
  <2> QED
    BY <2>12, <2>4, <2>1
<1> QED
  BY <1>1, <1>4, <1>5, <1>7 DEF ab

-----------------------------------------------------------------------------
(* The inductive invariant                                                 *)

HistoryTypes ==
  /\ heard \in Seq(Bytes) /\ total \in Bytes
  /\ leftover \in BOOLEAN /\ miscounted \in BOOLEAN /\ renamed \in BOOLEAN

(* In the states of the monitor direction the name is that of the file     *)
(* selected, but for the announcement of another file that was refused.    *)
NameKept ==
  state \in {"WAITING_FOR_FILE_CALL", "WAITING_FOR_SECTION_CALL", "TRANSMIT_SECTION",
             "WAITING_FOR_SECTION_ACK", "WAITING_FOR_FILE_ACK"}
    => name = selectedFile \/ renamed

(* What was sent of the section called is its beginning up to the offset.  *)
SectionHeard ==
  state \in {"TRANSMIT_SECTION", "WAITING_FOR_SECTION_ACK"} =>
    LET data == Sections[selectedFile][currentSectionNumber]
    IN  /\ currentSectionNumber \in DOMAIN Sections[selectedFile]
        /\ currentSectionSize = Len(data) /\ currentSectionOffset <= Len(data)
        /\ heard = SubSeq(data, 1, currentSectionOffset)
        /\ state = "WAITING_FOR_SECTION_ACK" => currentSectionOffset = Len(data)

(* sectionChecksum is zero but for the time in which a section is sent, or *)
(* something of an earlier section has been left in it.                    *)
SectionCounted ==
  leftover \/ sectionChecksum = IF state = "TRANSMIT_SECTION" THEN Sum(heard) ELSE 0

(* fileChecksum has counted the section that waits for its ACK already.    *)
FileCounted ==
  \/ miscounted
  \/ /\ state \in {"WAITING_FOR_SECTION_CALL", "TRANSMIT_SECTION"} => fileChecksum = total
     /\ state = "WAITING_FOR_SECTION_ACK" => fileChecksum = (total + Sum(heard)) % ChecksumMod

(* The checksums in the ASDUs that wait for an ACK. *)
LastSegmentCounted ==
  lastSent.type = "lastSegment" /\ state = "WAITING_FOR_SECTION_ACK"
    => lastSent.chs = Sum(heard) \/ leftover

LastSectionCounted ==
  lastSent.type = "lastSection" /\ state = "WAITING_FOR_FILE_ACK"
    => lastSent.chs = total \/ miscounted

IInv ==
  /\ TypeOK /\ HistoryTypes /\ NameKept /\ SectionHeard /\ SectionCounted /\ FileCounted
  /\ LastSegmentCounted /\ LastSectionCounted

(* What a step may use of the sections offered. *)
LEMMA SectionTypes ==
  /\ DOMAIN Sections \subseteq Files /\ None \notin Files /\ None \notin Clients
  /\ maxSegmentSize \in Nat \ {0} /\ MaxReceived \in Nat
  /\ ChecksumMod \in Nat \ {0} /\ 0 \in Bytes /\ Bytes \subseteq Nat
  /\ \A f \in DOMAIN Sections, n \in Nat :
       /\ sectionSize(f, n) \in Nat
       /\ sectionSize(f, n) > 0 => n \in DOMAIN Sections[f] /\ sectionSize(f, n) = Len(Sections[f][n])
  /\ \A f \in DOMAIN Sections : \A n \in DOMAIN Sections[f] : Sections[f][n] \in Seq(Bytes)
<1>1. \A f \in DOMAIN Sections : \A n \in DOMAIN Sections[f] : Sections[f][n] \in Seq(Bytes)
  BY FileServerAssumption
<1>2. ASSUME NEW f \in DOMAIN Sections, NEW n \in Nat
      PROVE  /\ sectionSize(f, n) \in Nat
             /\ sectionSize(f, n) > 0
                  => n \in DOMAIN Sections[f] /\ sectionSize(f, n) = Len(Sections[f][n])
  BY <1>1, <1>2 DEF sectionSize
<1> QED
  BY <1>1, <1>2, FileServerAssumption DEF Bytes

-----------------------------------------------------------------------------
(* The initial state, and types                                            *)

(* The invariant holds before anything was asked for. *)
LEMMA InitInvariant == Init => IInv
<1> SUFFICES ASSUME Init PROVE IInv
  OBVIOUS
<1>1. TypeOK
  BY SectionTypes DEF Init, TypeOK, Bytes
<1>2. HistoryTypes
  <2>1. <<>> \in Seq(Bytes)
    OBVIOUS
  <2> QED
    BY <2>1, SectionTypes DEF Init, HistoryTypes
<1>3. NameKept /\ SectionHeard /\ SectionCounted /\ FileCounted
  BY SumOfNothing DEF Init, NameKept, SectionHeard, SectionCounted, FileCounted
<1>4. LastSegmentCounted /\ LastSectionCounted
  BY DEF Init, LastSegmentCounted, LastSectionCounted
<1> QED
  BY <1>1, <1>2, <1>3, <1>4 DEF IInv

-----------------------------------------------------------------------------
(* What a step does to the transfer in monitor direction                   *)

(* It goes on as it was: nothing that is for this master has been sent.    *)
Stays ==
  /\ state' = state
  /\ UNCHANGED <<selectedFile, section, checksums, heard, total, leftover, miscounted>>
  /\ lastSent' = lastSent \/ lastSent'.type \notin {"lastSegment", "lastSection"}

(* It ends, or there is none: what was counted of a section is left.       *)
Quits ==
  /\ state' \notin {"WAITING_FOR_SECTION_CALL", "TRANSMIT_SECTION",
                    "WAITING_FOR_SECTION_ACK", "WAITING_FOR_FILE_ACK"}
  /\ UNCHANGED sectionChecksum
  /\ leftover' = (leftover \/ (state = "TRANSMIT_SECTION" /\ heard # <<>>))

(* The steps in which it makes progress. *)
Proceeds(c) ==
  \/ \E f \in Files : CallFile(c, f) \/ SkipSection(c, f)
  \/ \E f \in Files, nos \in 0..3 : CallSection(c, f, nos)
  \/ AckSection(c) \/ NegAckSection(c) \/ sendSegment(c) \/ sendLastSegment(c)

(* Whatever the masters send, a step is of one of the three kinds. *)
LEMMA StepKinds ==
  ASSUME IInv, [Next]_vars
  PROVE  Stays \/ Quits \/ \E c \in Clients : Proceeds(c)
<1> USE DEF Stays, Quits, checked, section, checksums, selection, history
<1>0. leftover \in BOOLEAN
  BY DEF IInv, HistoryTypes
<1>1. ASSUME TimePasses \/ UNCHANGED vars PROVE Stays
  BY <1>1 DEF TimePasses, vars
<1>2. ASSUME NEW c \in Clients, NEW f \in Files, HandleFileReady(c, f) PROVE Stays \/ Quits
  <2>1. CASE AcceptFile(c, f)
    BY <2>1 DEF AcceptFile, AbandonSection
  <2>2. CASE RefuseAddress(c)
    BY <2>2, <1>0 DEF RefuseAddress, AbandonSection, Refuse, ASDU
  <2>3. CASE RefuseFile(c, f)
    BY <2>3, <1>0 DEF RefuseFile, AbandonSection, Send, ASDU
  <2> QED
    BY <1>2, <2>1, <2>2, <2>3 DEF HandleFileReady
<1>3. ASSUME NEW c \in Clients, HandleSectionReady(c, 1, MaxReceived) \/ HandleSegment(c, 1)
      PROVE  Quits
  BY <1>3, <1>0 DEF HandleSectionReady, HandleSegment
<1>4. ASSUME NEW c \in Clients, HandleLastSection(c, 1) \/ HandleLastFile(c, 1) \/ HandleAbort
      PROVE  Quits
  BY <1>4, <1>0 DEF HandleLastSection, HandleLastFile, HandleAbort
<1>5. ASSUME NEW c \in Clients, NEW f \in Files, SelectFile(c, f) PROVE Quits
  BY <1>5, <1>0 DEF SelectFile, AbandonSection
<1>6. ASSUME DeactivateFile PROVE Quits
  BY <1>6, <1>0 DEF DeactivateFile, AbandonSection
<1>7. ASSUME NEW c \in Clients, NEW f \in Files, RefuseCall(c, f) PROVE Stays
  BY <1>7 DEF RefuseCall, Refuse, ASDU
<1>8. ASSUME AckFile PROVE Quits
  BY <1>8, <1>0 DEF AckFile
<1>9. ASSUME NEW awaited, UnexpectedAck(awaited) PROVE Quits
  BY <1>9 DEF UnexpectedAck, AbandonSection
<1>10. ASSUME NEW c \in Clients, HandleOther(c) PROVE Stays \/ Quits
  BY <1>10, <1>0 DEF HandleOther, Ignore, AbandonSection, Refuse, ASDU
<1>11. ASSUME NEW c \in Clients, AbortTransfer(c) PROVE Quits
  BY <1>11 DEF AbortTransfer, AbandonSection
<1> QED
  BY <1>1, <1>2, <1>3, <1>4, <1>5, <1>6, <1>7, <1>8, <1>9, <1>10, <1>11
     DEF Next, handleAsdu, runTask, Proceeds

-----------------------------------------------------------------------------
(* Steps in which the transfer stays as it is or ends                      *)

(* The conjuncts that relate the data sent, the checksums and the state.   *)
DataInv ==
  SectionHeard /\ SectionCounted /\ FileCounted /\ LastSegmentCounted /\ LastSectionCounted

(* As long as nothing changes, what has been counted is right. *)
LEMMA StayingKeeps ==
  ASSUME DataInv, Stays
  PROVE  DataInv'
<1> USE DEF DataInv, Stays, section, checksums
<1>1. SectionHeard'
  BY DEF SectionHeard
<1>2. SectionCounted'
  BY DEF SectionCounted
<1>3. FileCounted'
  BY DEF FileCounted
<1>4. LastSegmentCounted' /\ LastSectionCounted'
  BY DEF LastSegmentCounted, LastSectionCounted
<1> QED
  BY <1>1, <1>2, <1>3, <1>4

(* When a section is left in the middle, leftover tells it. *)
LEMMA QuittingKeeps ==
  ASSUME HistoryTypes, DataInv, Quits
  PROVE  DataInv'
<1> USE DEF DataInv, Quits
<1>1. SectionHeard' /\ FileCounted'
  BY DEF SectionHeard, FileCounted
<1>2. SectionCounted'
  <2>1. leftover \in BOOLEAN /\ (heard = <<>> => Sum(heard) = 0)
    BY SumOfNothing DEF HistoryTypes
  <2>2. leftover \/ (state = "TRANSMIT_SECTION" /\ heard # <<>>) => leftover' = TRUE
    BY <2>1
  <2>3. leftover' = TRUE \/ sectionChecksum = 0
    BY <2>1, <2>2 DEF SectionCounted
  <2> QED
    BY <2>3 DEF SectionCounted
<1>3. LastSegmentCounted' /\ LastSectionCounted'
  BY DEF LastSegmentCounted, LastSectionCounted
<1> QED
  BY <1>1, <1>2, <1>3

-----------------------------------------------------------------------------
(* Steps of a transfer                                                     *)

(* What the steps of a transfer use of the invariant. *)
LEMMA Counts ==
  ASSUME IInv
  PROVE  /\ sectionChecksum \in Bytes /\ fileChecksum \in Bytes /\ total \in Bytes
         /\ heard \in Seq(Bytes) /\ Sum(heard) \in Bytes /\ Sum(<<>>) = 0
         /\ leftover \in BOOLEAN /\ miscounted \in BOOLEAN
         /\ currentSectionNumber \in Nat /\ currentSectionOffset \in Nat /\ currentSectionSize \in Nat
BY SumIsByte, SumOfNothing DEF IInv, TypeOK, HistoryTypes, Bytes

(* A file called begins with its first section. *)
LEMMA CallFileKeeps ==
  ASSUME IInv, NEW c \in Clients, NEW f \in Files, CallFile(c, f)
  PROVE  DataInv'
<1> USE DEF CallFile, checked, ASDU
<1>1. SectionHeard' /\ FileCounted'
  BY DEF SectionHeard, FileCounted
<1>2. SectionCounted'
  BY DEF IInv, SectionCounted, selection
<1>3. LastSegmentCounted' /\ LastSectionCounted'
  BY DEF LastSegmentCounted, LastSectionCounted
<1> QED
  BY <1>1, <1>2, <1>3 DEF DataInv

(* A section called is sent from its beginning, also one called again. *)
LEMMA CallSectionKeeps ==
  ASSUME IInv, NEW c \in Clients, NEW f \in Files, NEW nos \in 0..3, CallSection(c, f, nos)
  PROVE  DataInv'
<1> USE DEF CallSection, checked, checksums, selection
<1>0. selectedFile \in DOMAIN Sections /\ state = "WAITING_FOR_SECTION_CALL" /\ nos \in Nat
  BY DEF IInv, TypeOK
<1>1. SectionHeard'
  <2>1. CASE sectionSize(selectedFile, nos) > 0
    <3>1. /\ nos \in DOMAIN Sections[selectedFile]
          /\ sectionSize(selectedFile, nos) = Len(Sections[selectedFile][nos])
      BY <1>0, <2>1, SectionTypes
    <3>2. Sections[selectedFile][nos] \in Seq(Bytes)
      BY <3>1, <1>0, SectionTypes
    <3>3. SubSeq(Sections[selectedFile][nos], 1, 0) = <<>> /\ 0 <= Len(Sections[selectedFile][nos])
      BY <3>2
    <3> QED
      BY <2>1, <3>1, <3>3 DEF SectionHeard
  <2>2. CASE ~ sectionSize(selectedFile, nos) > 0
    BY <1>0, <2>2 DEF SectionHeard
  <2> QED
    BY <2>1, <2>2
<1>2. SectionCounted'
  BY <1>0, SumOfNothing DEF IInv, SectionCounted
<1>3. FileCounted'
  BY <1>0 DEF IInv, FileCounted
<1>4. LastSegmentCounted' /\ LastSectionCounted'
  BY <1>0 DEF LastSegmentCounted, LastSectionCounted
<1> QED
  BY <1>1, <1>2, <1>3, <1>4 DEF DataInv

(* After a section left out, the sum of the file is that of the others. *)
LEMMA SkipSectionKeeps ==
  ASSUME IInv, NEW c \in Clients, NEW f \in Files, SkipSection(c, f)
  PROVE  DataInv'
<1> USE DEF SkipSection, AnnounceSection, checked, checksums, history, ASDU
<1>1. SectionHeard'
  BY DEF SectionHeard
<1>2. SectionCounted'
  BY DEF IInv, SectionCounted
<1>3. FileCounted'
  BY DEF IInv, FileCounted
<1>4. LastSegmentCounted' /\ LastSectionCounted'
  BY DEF IInv, FileCounted, LastSegmentCounted, LastSectionCounted
<1> QED
  BY <1>1, <1>2, <1>3, <1>4 DEF DataInv

(* The ACK adds the section to the total, as fileChecksum has done before. *)
LEMMA AckSectionKeeps ==
  ASSUME IInv, NEW c \in Clients, AckSection(c)
  PROVE  DataInv'
<1> USE DEF AckSection, AnnounceSection, checked, ASDU
<1>1. SectionHeard'
  BY DEF SectionHeard
<1>2. SectionCounted'
  BY DEF SectionCounted
<1>3. miscounted \/ fileChecksum = total'
  BY DEF IInv, FileCounted
<1>4. FileCounted'
  BY <1>3 DEF FileCounted
<1>5. LastSegmentCounted' /\ LastSectionCounted'
  BY <1>3 DEF LastSegmentCounted, LastSectionCounted
<1> QED
  BY <1>1, <1>2, <1>4, <1>5 DEF DataInv

(* The section is sent again: from now on the sum of the file is wrong. *)
LEMMA NegAckSectionKeeps ==
  ASSUME IInv, NEW c \in Clients, NegAckSection(c)
  PROVE  DataInv'
<1> USE DEF NegAckSection, checked, ASDU
<1>1. SectionHeard'
  <2> DEFINE data == Sections[selectedFile][currentSectionNumber]
  <2>1. selectedFile \in DOMAIN Sections /\ currentSectionNumber \in DOMAIN Sections[selectedFile]
    BY DEF IInv, TypeOK, SectionHeard
  <2>2. data \in Seq(Bytes)
    BY <2>1, SectionTypes
  <2>3. SubSeq(data, 1, 0) = <<>> /\ 0 <= Len(data)
    BY <2>2
  <2> QED
    BY <2>1, <2>3 DEF IInv, SectionHeard, selection
<1>2. SectionCounted'
  BY SumOfNothing DEF SectionCounted
<1>3. FileCounted' /\ LastSegmentCounted' /\ LastSectionCounted'
  BY DEF FileCounted, LastSegmentCounted, LastSectionCounted
<1> QED
  BY <1>1, <1>2, <1>3 DEF DataInv

(* A segment is the next part of the section, and its bytes are counted.   *)
LEMMA SegmentContinues ==
  ASSUME IInv, NEW c \in Clients, sendSegment(c)
  PROVE  \E bytes \in Seq(Bytes), last \in Nat :
           LET data == Sections[selectedFile][currentSectionNumber]
           IN  /\ last <= Len(data) /\ data \in Seq(Bytes)
               /\ heard' = SubSeq(data, 1, last) /\ currentSectionOffset' = last
               /\ heard' = heard \o bytes
               /\ sectionChecksum' = (sectionChecksum + Sum(bytes)) % ChecksumMod
<1>1. PICK last : last = IF currentSectionOffset + maxSegmentSize < currentSectionSize
                           THEN currentSectionOffset + maxSegmentSize ELSE currentSectionSize
  OBVIOUS
<1>2. PICK data : data = Sections[selectedFile][currentSectionNumber]
  OBVIOUS
<1>3. PICK bytes : bytes = SubSeq(data, currentSectionOffset + 1, last)
  OBVIOUS
<1>4. state = "TRANSMIT_SECTION" /\ currentSectionOffset < currentSectionSize
  BY DEF sendSegment, transmitsTo
<1>5. selectedFile \in DOMAIN Sections /\ currentSectionNumber \in DOMAIN Sections[selectedFile]
  BY <1>4 DEF IInv, TypeOK, SectionHeard
<1>6. data \in Seq(Bytes) /\ currentSectionSize = Len(data)
      /\ heard = SubSeq(data, 1, currentSectionOffset)
  BY <1>2, <1>4, <1>5, SectionTypes DEF IInv, SectionHeard
<1>7. last \in Nat /\ currentSectionOffset \in Nat /\ Len(data) \in Nat
      /\ currentSectionOffset <= last /\ last <= Len(data)
  BY <1>1, <1>4, <1>6, Counts, SectionTypes
<1>8. bytes \in Seq(Bytes) /\ heard \o bytes = SubSeq(data, 1, last)
  <2>1. bytes \in Seq(Bytes)
    <3>1. \A n \in (currentSectionOffset + 1)..last : data[n] \in Bytes
      BY <1>6, <1>7
    <3> QED
      BY <1>3, <1>7, <3>1, SubSeqProperties
  <2>2. SubSeq(data, 1, currentSectionOffset) \o SubSeq(data, currentSectionOffset + 1, last)
          = SubSeq(data, 1, last)
    <3>1. /\ 1 \in 1..(Len(data) + 1) /\ currentSectionOffset \in (1 - 1)..Len(data)
          /\ last \in currentSectionOffset..Len(data)
      BY <1>7
    <3> QED
      BY <1>6, <3>1, ConcatAdjacentSubSeq
  <2> QED
    BY <1>3, <1>6, <2>1, <2>2
<1>9. /\ heard' = heard \o bytes /\ currentSectionOffset' = last
      /\ sectionChecksum' = (sectionChecksum + Sum(bytes)) % ChecksumMod
  BY <1>1, <1>2, <1>3 DEF sendSegment
<1> QED
  BY <1>2, <1>6, <1>7, <1>8, <1>9

(* So what has been sent and counted stays a beginning of the section. *)
LEMMA SendSegmentKeeps ==
  ASSUME IInv, NEW c \in Clients, sendSegment(c)
  PROVE  DataInv'
<1>0. /\ state = "TRANSMIT_SECTION" /\ state' = state
      /\ UNCHANGED <<selectedFile, currentSectionNumber, currentSectionSize, fileChecksum, total,
                     leftover, miscounted>>
      /\ lastSent'.type = "segment"
  BY DEF sendSegment, transmitsTo, selection, ASDU
<1>1. PICK bytes \in Seq(Bytes), last \in Nat :
        LET data == Sections[selectedFile][currentSectionNumber]
        IN  /\ last <= Len(data) /\ data \in Seq(Bytes)
            /\ heard' = SubSeq(data, 1, last) /\ currentSectionOffset' = last
            /\ heard' = heard \o bytes
            /\ sectionChecksum' = (sectionChecksum + Sum(bytes)) % ChecksumMod
  BY SegmentContinues
<1>2. SectionHeard'
  BY <1>0, <1>1 DEF IInv, SectionHeard
<1>3. SectionCounted'
  <2>1. Sum(heard') = (Sum(heard) + Sum(bytes)) % ChecksumMod
    BY <1>1, Counts, SumAppend
  <2> QED
    BY <1>0, <1>1, <2>1 DEF IInv, SectionCounted
<1>4. FileCounted'
  BY <1>0 DEF IInv, FileCounted
<1>5. LastSegmentCounted' /\ LastSectionCounted'
  BY <1>0 DEF LastSegmentCounted, LastSectionCounted
<1> QED
  BY <1>2, <1>3, <1>4, <1>5 DEF DataInv

(* The last segment announces the checksum of all that has been sent, and  *)
(* the file counts the section.                                            *)
LEMMA SendLastSegmentKeeps ==
  ASSUME IInv, NEW c \in Clients, sendLastSegment(c)
  PROVE  DataInv'
<1> USE DEF sendLastSegment, transmitsTo, selection, section
<1>1. SectionHeard'
  <2>1. currentSectionOffset = currentSectionSize
    BY Counts DEF IInv, SectionHeard
  <2> QED
    BY <2>1 DEF IInv, SectionHeard
<1>2. leftover \/ sectionChecksum = Sum(heard)
  BY DEF IInv, SectionCounted
<1>3. SectionCounted'
  BY DEF SectionCounted
<1>4. FileCounted'
  BY <1>2, Counts DEF IInv, FileCounted
<1>5. LastSegmentCounted' /\ LastSectionCounted'
  BY <1>2 DEF LastSegmentCounted, LastSectionCounted, ASDU
<1> QED
  BY <1>1, <1>3, <1>4, <1>5 DEF DataInv

(* All steps together. *)
LEMMA DataStep ==
  ASSUME IInv, [Next]_vars
  PROVE  DataInv'
<1>1. DataInv /\ HistoryTypes
  BY DEF IInv, DataInv
<1>2. ASSUME NEW c \in Clients, Proceeds(c) PROVE DataInv'
  BY <1>2, CallFileKeeps, CallSectionKeeps, SkipSectionKeeps, AckSectionKeeps, NegAckSectionKeeps,
     SendSegmentKeeps, SendLastSegmentKeeps DEF Proceeds
<1> QED
  BY <1>1, <1>2, StepKinds, StayingKeeps, QuittingKeeps

-----------------------------------------------------------------------------
(* Types, history and names                                                *)

(* A step keeps the types, and a file that is used stays one on offer.     *)
LEMMA TypeStep ==
  ASSUME IInv, [Next]_vars
  PROVE  TypeOK'
<1> USE DEF IInv, TypeOK, checked, section, checksums, selection, history, Bytes
<1>1. ASSUME NEW c \in Clients, NEW f \in Files, HandleFileReady(c, f) PROVE TypeOK'
  <2>1. CASE AcceptFile(c, f)
    BY <2>1, SectionTypes DEF AcceptFile
  <2>2. CASE RefuseAddress(c)
    BY <2>2 DEF RefuseAddress
  <2>3. CASE RefuseFile(c, f)
    BY <2>3 DEF RefuseFile
  <2> QED
    BY <1>1, <2>1, <2>2, <2>3 DEF HandleFileReady
<1>2. ASSUME NEW c \in Clients, HandleSectionReady(c, 1, MaxReceived) \/ HandleSegment(c, 1)
      PROVE  TypeOK'
  BY <1>2, SectionTypes DEF HandleSectionReady, HandleSegment
<1>3. ASSUME NEW c \in Clients, HandleLastSection(c, 1) \/ HandleLastFile(c, 1) \/ HandleAbort
      PROVE  TypeOK'
  BY <1>3 DEF HandleLastSection, HandleLastFile, HandleAbort
<1>4. ASSUME NEW c \in Clients, NEW f \in Files, SelectFile(c, f) \/ RefuseCall(c, f) PROVE TypeOK'
  BY <1>4, SectionTypes DEF SelectFile, RefuseCall
<1>5. ASSUME NEW c \in Clients, NEW f \in Files, CallFile(c, f) PROVE TypeOK'
  BY <1>5, SectionTypes DEF CallFile
<1>6. ASSUME NEW c \in Clients, NEW f \in Files, SkipSection(c, f) PROVE TypeOK'
  BY <1>6, SectionTypes DEF SkipSection, AnnounceSection
<1>7. ASSUME NEW c \in Clients, NEW f \in Files, NEW nos \in 0..3, CallSection(c, f, nos)
      PROVE  TypeOK'
  <2>1. state = "WAITING_FOR_SECTION_CALL" /\ selectedFile \in DOMAIN Sections /\ nos \in Nat
    BY <1>7 DEF CallSection
  <2>2. PICK size : size = sectionSize(selectedFile, nos) /\ size \in Nat
    BY <2>1, SectionTypes
  <2>3. CASE size > 0
    BY <1>7, <2>1, <2>2, <2>3 DEF CallSection
  <2>4. CASE ~ size > 0
    BY <1>7, <2>1, <2>2, <2>4 DEF CallSection
  <2> QED
    BY <2>3, <2>4
<1>8. ASSUME DeactivateFile \/ AckFile PROVE TypeOK'
  BY <1>8 DEF DeactivateFile, AckFile
<1>9. ASSUME NEW c \in Clients, AckSection(c) PROVE TypeOK'
  <2>1. state = "WAITING_FOR_SECTION_ACK" /\ selectedFile \in DOMAIN Sections
    BY <1>9 DEF AckSection
  <2>2. PICK nos : nos = currentSectionNumber + 1 /\ nos \in Nat
    OBVIOUS
  <2>3. PICK size : size = sectionSize(selectedFile, nos) /\ size \in Nat
    BY <2>1, <2>2, SectionTypes
  <2>4. currentSectionSize' = (IF size > 0 THEN size ELSE currentSectionSize)
    BY <1>9, <2>2, <2>3 DEF AckSection
  <2>5. state' \in {"WAITING_FOR_SECTION_CALL", "WAITING_FOR_FILE_ACK"}
    BY <1>9 DEF AckSection, AnnounceSection
  <2> QED
    BY <1>9, <2>1, <2>2, <2>3, <2>4, <2>5, SectionTypes DEF AckSection, AnnounceSection
<1>10. ASSUME NEW c \in Clients, NegAckSection(c) PROVE TypeOK'
  BY <1>10, SectionTypes DEF NegAckSection
<1>11. ASSUME NEW awaited, UnexpectedAck(awaited) PROVE TypeOK'
  BY <1>11 DEF UnexpectedAck
<1>12. ASSUME NEW c \in Clients, HandleOther(c) PROVE TypeOK'
  BY <1>12 DEF HandleOther, Ignore
<1>13. ASSUME NEW c \in Clients, sendSegment(c) PROVE TypeOK'
  <2>1. PICK bytes \in Seq(Bytes), last \in Nat :
          /\ currentSectionOffset' = last
          /\ sectionChecksum' = (sectionChecksum + Sum(bytes)) % ChecksumMod
    BY <1>13, SegmentContinues
  <2>2. sectionChecksum' \in Bytes
    <3>1. Sum(bytes) \in Bytes /\ sectionChecksum \in Bytes
      BY SumIsByte
    <3> HIDE DEF Bytes
    <3> QED
      BY <2>1, <3>1, ByteSum
  <2> QED
    BY <1>13, <2>1, <2>2 DEF sendSegment
<1>14. ASSUME NEW c \in Clients, sendLastSegment(c) PROVE TypeOK'
  BY <1>14, SectionTypes DEF sendLastSegment, transmitsTo
<1>15. ASSUME NEW c \in Clients, AbortTransfer(c) PROVE TypeOK'
  BY <1>15 DEF AbortTransfer
<1>16. ASSUME TimePasses \/ UNCHANGED vars PROVE TypeOK'
  BY <1>16 DEF TimePasses, vars
<1> QED
  BY <1>1, <1>2, <1>3, <1>4, <1>5, <1>6, <1>7, <1>8, <1>9, <1>10, <1>11, <1>12, <1>13, <1>14, <1>15,
     <1>16 DEF Next, handleAsdu, runTask

(* What was sent are bytes, and so is the sum of the sections.             *)
LEMMA HistoryStep ==
  ASSUME IInv, [Next]_vars
  PROVE  HistoryTypes'
<1> USE DEF checked, section, checksums, selection, history, AbandonSection
<1>0. HistoryTypes /\ <<>> \in Seq(Bytes)
  BY DEF IInv
<1>1. ASSUME NEW c \in Clients, NEW f \in Files,
             HandleFileReady(c, f) \/ SelectFile(c, f) \/ RefuseCall(c, f) \/ SkipSection(c, f)
      PROVE  HistoryTypes'
  BY <1>1, <1>0 DEF HistoryTypes, HandleFileReady, AcceptFile, RefuseAddress, RefuseFile,
     SelectFile, RefuseCall, SkipSection
<1>2. ASSUME NEW c \in Clients,
             \/ HandleSectionReady(c, 1, MaxReceived) \/ HandleSegment(c, 1)
             \/ HandleLastSection(c, 1) \/ HandleLastFile(c, 1) \/ HandleAbort
      PROVE  HistoryTypes'
  BY <1>2, <1>0 DEF HistoryTypes, HandleSectionReady, HandleSegment, HandleLastSection,
     HandleLastFile, HandleAbort
<1>3. ASSUME NEW c \in Clients, NEW f \in Files, CallFile(c, f) PROVE HistoryTypes'
  BY <1>3, <1>0, SectionTypes DEF HistoryTypes, CallFile
<1>4. ASSUME NEW c \in Clients, NEW f \in Files, NEW nos \in 0..3, CallSection(c, f, nos)
      PROVE  HistoryTypes'
  BY <1>4, <1>0 DEF HistoryTypes, CallSection
<1>5. ASSUME NEW awaited, UnexpectedAck(awaited) \/ DeactivateFile \/ AckFile PROVE HistoryTypes'
  BY <1>5, <1>0 DEF HistoryTypes, UnexpectedAck, DeactivateFile, AckFile
<1>6. ASSUME NEW c \in Clients, AckSection(c) PROVE HistoryTypes'
  <2>1. total' \in Bytes
    BY <1>6, <1>0, Counts, ByteSum DEF HistoryTypes, AckSection
  <2> QED
    BY <1>6, <1>0, <2>1 DEF HistoryTypes, AckSection
<1>7. ASSUME NEW c \in Clients, NegAckSection(c) PROVE HistoryTypes'
  BY <1>7, <1>0 DEF HistoryTypes, NegAckSection
<1>8. ASSUME NEW c \in Clients, HandleOther(c) \/ AbortTransfer(c) PROVE HistoryTypes'
  BY <1>8, <1>0 DEF HistoryTypes, HandleOther, Ignore, AbortTransfer
<1>9. ASSUME NEW c \in Clients, sendSegment(c) PROVE HistoryTypes'
  <2>1. PICK bytes \in Seq(Bytes) : heard' = heard \o bytes
    BY <1>9, SegmentContinues
  <2>2. heard' \in Seq(Bytes)
    BY <1>0, <2>1 DEF HistoryTypes
  <2> QED
    BY <1>9, <1>0, <2>2 DEF HistoryTypes, sendSegment
<1>10. ASSUME NEW c \in Clients, sendLastSegment(c) PROVE HistoryTypes'
  BY <1>10, <1>0 DEF HistoryTypes, sendLastSegment
<1>11. ASSUME TimePasses \/ UNCHANGED vars PROVE HistoryTypes'
  BY <1>11, <1>0 DEF HistoryTypes, TimePasses, vars
<1> QED
  BY <1>1, <1>2, <1>3, <1>4, <1>5, <1>6, <1>7, <1>8, <1>9, <1>10, <1>11 DEF Next, handleAsdu, runTask

(* Only a selection begins a transfer, with the name of the file selected. *)
LEMMA NameStep ==
  ASSUME IInv, [Next]_vars
  PROVE  NameKept'
<1> USE DEF checked, section, checksums, selection, history
<1>0. NameKept /\ renamed \in BOOLEAN
  BY DEF IInv, HistoryTypes
<1>1. ASSUME NEW c \in Clients, NEW f \in Files, HandleFileReady(c, f) PROVE NameKept'
  BY <1>1, <1>0 DEF NameKept, HandleFileReady, AcceptFile, RefuseAddress, RefuseFile
<1>2. ASSUME NEW c \in Clients,
             \/ HandleSectionReady(c, 1, MaxReceived) \/ HandleSegment(c, 1)
             \/ HandleLastSection(c, 1) \/ HandleLastFile(c, 1) \/ HandleAbort
      PROVE  NameKept'
  BY <1>2, <1>0 DEF NameKept, HandleSectionReady, HandleSegment, HandleLastSection, HandleLastFile,
     HandleAbort
<1>3. ASSUME NEW c \in Clients, NEW f \in Files,
             SelectFile(c, f) \/ RefuseCall(c, f) \/ CallFile(c, f) \/ SkipSection(c, f)
      PROVE  NameKept'
  BY <1>3, <1>0 DEF NameKept, SelectFile, RefuseCall, CallFile, SkipSection, AnnounceSection
<1>4. ASSUME NEW c \in Clients, NEW f \in Files, NEW nos \in 0..3, CallSection(c, f, nos)
      PROVE  NameKept'
  BY <1>4, <1>0 DEF NameKept, CallSection
<1>5. ASSUME NEW awaited, UnexpectedAck(awaited) \/ DeactivateFile \/ AckFile PROVE NameKept'
  BY <1>5, <1>0 DEF NameKept, UnexpectedAck, DeactivateFile, AckFile
<1>6. ASSUME NEW c \in Clients, AckSection(c) \/ NegAckSection(c) \/ HandleOther(c) PROVE NameKept'
  BY <1>6, <1>0 DEF NameKept, AckSection, NegAckSection, AnnounceSection, HandleOther, Ignore
<1>7. ASSUME NEW c \in Clients, sendSegment(c) \/ sendLastSegment(c) \/ AbortTransfer(c)
      PROVE  NameKept'
  BY <1>7, <1>0 DEF NameKept, sendSegment, sendLastSegment, AbortTransfer, transmitsTo
<1>8. ASSUME TimePasses \/ UNCHANGED vars PROVE NameKept'
  BY <1>8, <1>0 DEF NameKept, TimePasses, vars
<1> QED
  BY <1>1, <1>2, <1>3, <1>4, <1>5, <1>6, <1>7, <1>8 DEF Next, handleAsdu, runTask

-----------------------------------------------------------------------------
(* The theorems                                                            *)

(* The invariant holds in all behaviours. *)
LEMMA Invariant == Spec => []IInv
<1>1. IInv /\ [Next]_vars => IInv'
  <2> SUFFICES ASSUME IInv, [Next]_vars PROVE IInv'
    OBVIOUS
  <2>1. TypeOK' /\ HistoryTypes' /\ NameKept' /\ DataInv'
    BY TypeStep, HistoryStep, NameStep, DataStep
  <2> QED
    BY <2>1 DEF IInv, DataInv
<1> QED
  BY InitInvariant, <1>1, PTL DEF Spec

(* Whatever the masters send, a file that the server reads from is one it  *)
(* offers, and there is a connection it was selected by.                   *)
THEOREM TypeCorrect == Spec => []TypeOK
<1>1. IInv => TypeOK
  BY DEF IInv
<1> QED
  BY <1>1, Invariant, PTL

(* All bytes of the section called have been sent when its end is.         *)
DataAsCalled ==
  state \in {"TRANSMIT_SECTION", "WAITING_FOR_SECTION_ACK"} =>
    LET data == Sections[selectedFile][currentSectionNumber]
    IN  /\ heard = SubSeq(data, 1, currentSectionOffset)
        /\ state = "WAITING_FOR_SECTION_ACK" => heard = data

LEMMA DataSent ==
  ASSUME IInv
  PROVE  DataAsCalled
<1> SUFFICES ASSUME state \in {"TRANSMIT_SECTION", "WAITING_FOR_SECTION_ACK"} PROVE DataAsCalled
  BY DEF DataAsCalled
<1>1. PICK data : data = Sections[selectedFile][currentSectionNumber]
  OBVIOUS
<1>2. selectedFile \in DOMAIN Sections /\ currentSectionNumber \in DOMAIN Sections[selectedFile]
  BY DEF IInv, TypeOK, SectionHeard
<1>3. data \in Seq(Bytes)
  BY <1>1, <1>2, SectionTypes
<1>4. SubSeq(data, 1, Len(data)) = data
  BY <1>3, SubSeqFull
<1> QED
  BY <1>1, <1>4 DEF IInv, SectionHeard, DataAsCalled

(* Segments go to the master that selected the file, under its name. *)
SegmentAsCalled ==
  lastSent'.type \in {"segment", "lastSegment"} /\ lastSent' # lastSent
    => /\ lastSent'.to = selectedConnection
       /\ lastSent'.file = selectedFile \/ renamed

(* Only runTask sends segments, with the name that NameKept speaks of. *)
LEMMA SegmentSent ==
  ASSUME IInv, [Next]_vars
  PROVE  SegmentAsCalled
<1> USE DEF SegmentAsCalled, ASDU
<1>1. ASSUME NEW c \in Clients, NEW f \in Files, HandleFileReady(c, f) PROVE SegmentAsCalled
  BY <1>1 DEF HandleFileReady, AcceptFile, RefuseAddress, RefuseFile, Refuse, Send
<1>2. ASSUME NEW c \in Clients,
             \/ HandleSectionReady(c, 1, MaxReceived) \/ HandleSegment(c, 1)
             \/ HandleLastSection(c, 1) \/ HandleLastFile(c, 1) \/ HandleAbort
      PROVE  SegmentAsCalled
  BY <1>2 DEF HandleSectionReady, HandleSegment, HandleLastSection, HandleLastFile, HandleAbort
<1>3. ASSUME NEW c \in Clients, NEW f \in Files,
             SelectFile(c, f) \/ RefuseCall(c, f) \/ CallFile(c, f) \/ SkipSection(c, f)
      PROVE  SegmentAsCalled
  BY <1>3 DEF SelectFile, RefuseCall, CallFile, SkipSection, AnnounceSection, Refuse, Send
<1>4. ASSUME NEW c \in Clients, NEW f \in Files, NEW nos \in 0..3, CallSection(c, f, nos)
      PROVE  SegmentAsCalled
  BY <1>4 DEF CallSection, Refuse
<1>5. ASSUME NEW awaited, UnexpectedAck(awaited) \/ DeactivateFile \/ AckFile PROVE SegmentAsCalled
  BY <1>5 DEF UnexpectedAck, DeactivateFile, AckFile
<1>6. ASSUME NEW c \in Clients, AckSection(c) \/ NegAckSection(c) \/ HandleOther(c)
      PROVE  SegmentAsCalled
  BY <1>6 DEF AckSection, NegAckSection, AnnounceSection, HandleOther, Refuse
<1>7. ASSUME NEW c \in Clients, sendSegment(c) \/ sendLastSegment(c) PROVE SegmentAsCalled
  <2>1. selectedConnection = c /\ (name = selectedFile \/ renamed)
    BY <1>7 DEF IInv, NameKept, sendSegment, sendLastSegment, transmitsTo
  <2>2. lastSent'.to = c /\ lastSent'.file = name
    BY <1>7 DEF sendSegment, sendLastSegment
  <2> QED
    BY <2>1, <2>2
<1>8. ASSUME NEW c \in Clients, AbortTransfer(c) PROVE SegmentAsCalled
  BY <1>8 DEF AbortTransfer
<1>9. ASSUME TimePasses \/ UNCHANGED vars PROVE SegmentAsCalled
  BY <1>9 DEF TimePasses, vars
<1> QED
  BY <1>1, <1>2, <1>3, <1>4, <1>5, <1>6, <1>7, <1>8, <1>9 DEF Next, handleAsdu, runTask

(* For all masters, files and sizes of segments: the master that called a  *)
(* section gets its data, in order and completely, and checksums that are  *)
(* wrong only in the two cases that leftover and miscounted stand for.     *)
THEOREM TransferCorrect == Spec => TransferAsCalled
<1>1. IInv => DataAsCalled /\ LastSegmentCounted /\ LastSectionCounted
  BY DataSent DEF IInv
<1>2. IInv /\ [Next]_vars => [SegmentAsCalled]_vars
  BY SegmentSent
<1>3. Spec => [](DataAsCalled /\ LastSegmentCounted /\ LastSectionCounted) /\ [][SegmentAsCalled]_vars
  BY <1>1, <1>2, Invariant, PTL DEF Spec
<1> QED
  BY <1>3, PTL DEF TransferAsCalled, DataAsCalled, LastSegmentCounted, LastSectionCounted,
     SegmentAsCalled
=============================================================================
