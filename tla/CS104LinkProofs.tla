--------------------------- MODULE CS104LinkProofs ---------------------------
(***************************************************************************)
(* Theorems about CS104Link, for all values of k, w and the modulus of the *)
(* sequence numbers, and for every scenario.                               *)
(*                                                                         *)
(* The invariant speaks of each direction by itself (Channel): what the    *)
(* sender's k-buffer holds, the I frames under way, the N(R) on their way  *)
(* back, and what the receiver counts.  Sequence numbers go round; what    *)
(* they mean is their Distance, the number of frames of the k-buffer that  *)
(* an N(R) acknowledges.                                                   *)
(***************************************************************************)
EXTENDS CS104Link, SequenceTheorems, TLAPS

SeqNos == 0..(SeqMod - 1)

(* How many of the frames ids, the last of them numbered before sc, an     *)
(* N(R) of x acknowledges: acknowledges, of values.                        *)
Distance(ids, sc, x) == (x - sc + Len(ids)) % SeqMod

IsSeq(s) == s \in Seq({s[i] : i \in DOMAIN s})

Acknowledges(f) == f.type \in {"I", "S"}

FrameOK(f) ==
  /\ Acknowledges(f) => f.nr \in SeqNos
  /\ f.type = "I" => f.ns \in SeqNos

Frames(s) == IsSeq(s) /\ \A i \in 1..Len(s) : FrameOK(s[i])

(* The acknowledgements acks for the frames ids: none goes beyond the      *)
(* first R, of which the peer's application has received all (g).  They    *)
(* never go back, and an S frame acknowledges something new.               *)
AcknowledgedUpTo(R, ids, sc, acks, g) ==
  /\ \A i \in 1..R : ids[i] \in g \cup {0}
  /\ \A i \in 1..Len(acks) : Acknowledges(acks[i]) => Distance(ids, sc, acks[i].nr) <= R
  /\ \A i, j \in 1..Len(acks) :
       i < j /\ Acknowledges(acks[i]) /\ Acknowledges(acks[j]) =>
         /\ Distance(ids, sc, acks[i].nr) <= Distance(ids, sc, acks[j].nr)
         /\ acks[j].type = "S" => Distance(ids, sc, acks[i].nr) < Distance(ids, sc, acks[j].nr)
  /\ \A j \in 1..Len(acks) : acks[j].type = "S" => Distance(ids, sc, acks[j].nr) > 0

(* The I frames under way carry what the k-buffer says, and none of them   *)
(* has been received yet.                                                  *)
Carried(R, ids, sc, data) ==
  /\ \A i \in 1..Len(data) : data[i].type = "I" =>
       /\ Distance(ids, sc, data[i].ns) \in R..(Len(ids) - 1)
       /\ data[i].id = ids[Distance(ids, sc, data[i].ns) + 1]
  /\ \A i, j \in 1..Len(data) : i < j /\ data[i].type = "I" /\ data[j].type = "I" =>
       Distance(ids, sc, data[i].ns) < Distance(ids, sc, data[j].ns)

(* What is not confirmed yet is newer than every acknowledgement.          *)
Newer(R, ids, sc, acks) ==
  /\ R > 0
  /\ \A i \in 1..Len(acks) : Acknowledges(acks[i]) => Distance(ids, sc, acks[i].nr) < R

(* An end with socket l, k-buffer ids and send counter sc; the frames that *)
(* have reached it (acks) and its peer (data); the peer's counters rc and  *)
(* un and what its application has received (g).                           *)
ChannelOK(l, ids, sc, acks, data, rc, un, g) ==
  /\ IsSeq(ids) /\ Len(ids) <= k /\ sc \in SeqNos
  /\ Frames(acks) /\ Frames(data)
  /\ rc \in SeqNos /\ un \in Nat
  /\ \E R \in 0..Len(ids) :
       /\ AcknowledgedUpTo(R, ids, sc, acks, g)
       /\ l = "up" => /\ R = Distance(ids, sc, rc)
                      /\ Carried(R, ids, sc, data)
                      /\ un > 0 => Newer(R, ids, sc, acks)

Channel(e) == ChannelOK(link[e], sentASDUs[e], sendCount[e], wire[e], wire[peer(e)],
                        receiveCount[peer(e)], unconfirmed[peer(e)], got[peer(e)])

Domains ==
  /\ DOMAIN wire = Ends /\ DOMAIN sentASDUs = Ends /\ DOMAIN unconfirmed = Ends
  /\ DOMAIN got = Ends /\ DOMAIN acked = Ends

ClientInv ==
  /\ running => pc \in {"opened", "receive", "rest", "last", "exit"}
  /\ app = "sending" => pc \notin {"reset", "socket", "connect"}
  /\ app = "sending" /\ ~running => pc \in {"ended", "none"}
  /\ pc \in {"socket", "connect"} =>
       /\ sendCount["client"] = 0 /\ receiveCount["client"] = 0
       /\ sentASDUs["client"] = <<>> /\ unconfirmed["client"] = 0
  /\ pc \in {"none", "reset", "socket", "connect", "ended"} => link["client"] = "none"
  /\ pc \in {"opened", "receive"} => unconfirmed["client"] < w

WireInv == \A e \in Ends : link[e] = "none" => wire[e] = <<>>

LinkInv ==
  /\ TypeOK
  /\ Domains
  /\ unconfirmed["server"] < w
  /\ ClientInv
  /\ WireInv
  /\ \A e \in Ends : Channel(e)
  /\ AcknowledgedWasReceived

-----------------------------------------------------------------------------
(* Division is only ever by the modulus, of numbers next to the circle.    *)
LEMMA ModCases ==
  ASSUME NEW a \in Int, a >= -SeqMod, a < 2 * SeqMod
  PROVE  a % SeqMod = IF a < 0 THEN a + SeqMod ELSE IF a < SeqMod THEN a ELSE a - SeqMod
<1>1. SeqMod \in Nat /\ SeqMod > 0
  BY APCIAssumption
<1>2. \E q \in Int : q \in {-1, 0, 1} /\ a - q * SeqMod \in 0..(SeqMod - 1)
  <2>1. CASE a < 0
    <3>1. a - (-1) * SeqMod = a + SeqMod
      BY <1>1
    <3> QED
      BY <1>1, <2>1, <3>1
  <2>2. CASE a >= 0 /\ a < SeqMod
    <3>1. a - 0 * SeqMod = a
      BY <1>1
    <3> QED
      BY <1>1, <2>2, <3>1
  <2>3. CASE a >= SeqMod
    <3>1. a - 1 * SeqMod = a - SeqMod
      BY <1>1
    <3> QED
      BY <1>1, <2>3, <3>1
  <2> QED
    BY <1>1, <2>1, <2>2, <2>3
<1> QED
  BY <1>1, <1>2

(* The distance of a number of the circle, without the modulus. *)
LEMMA DistanceValue ==
  ASSUME NEW sc \in SeqNos, NEW x \in SeqNos, NEW n \in 0..k
  PROVE  (x - sc + n) % SeqMod = IF x - sc + n < 0 THEN x - sc + n + SeqMod
                                 ELSE IF x - sc + n < SeqMod THEN x - sc + n
                                 ELSE x - sc + n - SeqMod
<1>1. PICK a \in Int : a = x - sc + n
  BY APCIAssumption DEF SeqNos
<1>2. a >= -SeqMod /\ a < 2 * SeqMod
  BY <1>1, APCIAssumption DEF SeqNos
<1>3. a % SeqMod = IF a < 0 THEN a + SeqMod ELSE IF a < SeqMod THEN a ELSE a - SeqMod
  BY <1>2, ModCases
<1> QED
  BY <1>1, <1>3, APCIAssumption DEF SeqNos

(* Counting stays on the circle. *)
LEMMA SeqNoNext ==
  ASSUME NEW x \in SeqNos
  PROVE  (x + 1) % SeqMod \in SeqNos /\ (x + 1) % SeqMod = IF x + 1 = SeqMod THEN 0 ELSE x + 1
<1>1. PICK a \in Int : a = x + 1
  BY DEF SeqNos
<1>2. a % SeqMod = IF a < 0 THEN a + SeqMod ELSE IF a < SeqMod THEN a ELSE a - SeqMod
  BY <1>1, APCIAssumption, ModCases DEF SeqNos
<1> QED
  BY <1>1, <1>2, APCIAssumption DEF SeqNos

(* One more frame is put into the k-buffer: N(R)s acknowledge as before.   *)
LEMMA DistanceSend ==
  ASSUME NEW sc \in SeqNos, NEW x \in SeqNos, NEW n \in Nat, n < k
  PROVE  /\ (sc + 1) % SeqMod \in SeqNos
         /\ (x - ((sc + 1) % SeqMod) + (n + 1)) % SeqMod = (x - sc + n) % SeqMod
<1>1. PICK t : t = (sc + 1) % SeqMod
  OBVIOUS
<1>2. t = IF sc + 1 = SeqMod THEN 0 ELSE sc + 1
  BY <1>1, SeqNoNext
<1>3. t \in SeqNos
  BY <1>1, SeqNoNext
<1>4. /\ n + 1 \in 0..k /\ n \in 0..k
  BY APCIAssumption
<1>5. PICK d : d = (x - sc + n) % SeqMod
  OBVIOUS
<1>6. PICK e : e = (x - t + (n + 1)) % SeqMod
  OBVIOUS
<1>7. e = IF x - t + (n + 1) < 0 THEN x - t + (n + 1) + SeqMod
          ELSE IF x - t + (n + 1) < SeqMod THEN x - t + (n + 1)
          ELSE x - t + (n + 1) - SeqMod
  BY <1>3, <1>4, <1>6, DistanceValue
<1>8. d = IF x - sc + n < 0 THEN x - sc + n + SeqMod
          ELSE IF x - sc + n < SeqMod THEN x - sc + n
          ELSE x - sc + n - SeqMod
  BY <1>4, <1>5, DistanceValue
<1>9. d = e
  BY <1>2, <1>7, <1>8, APCIAssumption DEF SeqNos
<1> QED
  BY <1>1, <1>3, <1>5, <1>6, <1>9

(* The first m frames leave the k-buffer. *)
LEMMA DistanceConfirm ==
  ASSUME NEW sc \in SeqNos, NEW x \in SeqNos, NEW n \in 0..k, NEW m \in 0..n,
         m <= (x - sc + n) % SeqMod
  PROVE  (x - sc + (n - m)) % SeqMod = ((x - sc + n) % SeqMod) - m
<1>1. n - m \in 0..k
  BY APCIAssumption
<1>2. PICK d : d = (x - sc + n) % SeqMod
  OBVIOUS
<1>3. PICK e : e = (x - sc + (n - m)) % SeqMod
  OBVIOUS
<1>4. e = IF x - sc + (n - m) < 0 THEN x - sc + (n - m) + SeqMod
          ELSE IF x - sc + (n - m) < SeqMod THEN x - sc + (n - m)
          ELSE x - sc + (n - m) - SeqMod
  BY <1>1, <1>3, DistanceValue
<1>5. d = IF x - sc + n < 0 THEN x - sc + n + SeqMod
          ELSE IF x - sc + n < SeqMod THEN x - sc + n
          ELSE x - sc + n - SeqMod
  BY <1>2, DistanceValue
<1>6. m <= d
  BY <1>2
<1>7. e = d - m
  BY <1>4, <1>5, <1>6, APCIAssumption DEF SeqNos
<1> QED
  BY <1>2, <1>3, <1>7

(* The next number acknowledges one frame more. *)
LEMMA DistanceNext ==
  ASSUME NEW sc \in SeqNos, NEW x \in SeqNos, NEW n \in 0..k, (x - sc + n) % SeqMod < n
  PROVE  /\ (x + 1) % SeqMod \in SeqNos
         /\ (((x + 1) % SeqMod) - sc + n) % SeqMod = ((x - sc + n) % SeqMod) + 1
<1>1. PICK t : t = (x + 1) % SeqMod
  OBVIOUS
<1>2. t = IF x + 1 = SeqMod THEN 0 ELSE x + 1
  BY <1>1, SeqNoNext
<1>3. t \in SeqNos
  BY <1>1, SeqNoNext
<1>4. PICK d : d = (x - sc + n) % SeqMod
  OBVIOUS
<1>5. PICK e : e = (t - sc + n) % SeqMod
  OBVIOUS
<1>6. e = IF t - sc + n < 0 THEN t - sc + n + SeqMod
          ELSE IF t - sc + n < SeqMod THEN t - sc + n
          ELSE t - sc + n - SeqMod
  BY <1>3, <1>5, DistanceValue
<1>7. d = IF x - sc + n < 0 THEN x - sc + n + SeqMod
          ELSE IF x - sc + n < SeqMod THEN x - sc + n
          ELSE x - sc + n - SeqMod
  BY <1>4, DistanceValue
<1>8. d < n
  BY <1>4
<1>9. e = d + 1
  BY <1>2, <1>6, <1>7, <1>8, APCIAssumption DEF SeqNos
<1> QED
  BY <1>1, <1>3, <1>4, <1>5, <1>9

(* The number of the frame that is sent next acknowledges all of them. *)
LEMMA DistanceSelf ==
  ASSUME NEW sc \in SeqNos, NEW n \in 0..k
  PROVE  (sc - sc + n) % SeqMod = n
<1>1. PICK d : d = (sc - sc + n) % SeqMod
  OBVIOUS
<1>2. d = IF sc - sc + n < 0 THEN sc - sc + n + SeqMod
          ELSE IF sc - sc + n < SeqMod THEN sc - sc + n
          ELSE sc - sc + n - SeqMod
  BY <1>1, DistanceValue
<1> QED
  BY <1>1, <1>2, APCIAssumption DEF SeqNos

(* A distance is a number of the circle. *)
LEMMA DistanceType ==
  ASSUME NEW sc \in SeqNos, NEW x \in SeqNos, NEW n \in 0..k
  PROVE  (x - sc + n) % SeqMod \in SeqNos
<1>1. PICK d : d = (x - sc + n) % SeqMod
  OBVIOUS
<1>2. d = IF x - sc + n < 0 THEN x - sc + n + SeqMod
          ELSE IF x - sc + n < SeqMod THEN x - sc + n
          ELSE x - sc + n - SeqMod
  BY <1>1, DistanceValue
<1> QED
  BY <1>1, <1>2, APCIAssumption DEF SeqNos

-----------------------------------------------------------------------------
(* Sequences of anything *)

(* A sequence over any set is a sequence of its own elements. *)
LEMMA IsSeqOf ==
  ASSUME NEW A, NEW s \in Seq(A)
  PROVE  IsSeq(s)
<1> DEFINE T == {s[i] : i \in DOMAIN s}
<1>1. Len(s) \in Nat /\ DOMAIN s = 1..Len(s) /\ s = [i \in 1..Len(s) |-> s[i]]
  OBVIOUS
<1>2. \A i \in 1..Len(s) : s[i] \in T
  BY <1>1
<1>3. s \in [1..Len(s) -> T]
  BY <1>1, <1>2
<1>4. s \in Seq(T)
  BY <1>1, <1>3
<1> QED
  BY <1>4 DEF IsSeq

(* The length and the domain of a sequence. *)
LEMMA SeqFacts ==
  ASSUME NEW s, IsSeq(s)
  PROVE  Len(s) \in Nat /\ DOMAIN s = 1..Len(s)
BY DEF IsSeq

(* What is left of a sequence when its head is read. *)
LEMMA SeqTail ==
  ASSUME NEW s, IsSeq(s), s # <<>>
  PROVE  /\ IsSeq(Tail(s)) /\ Len(s) \in Nat /\ Len(s) > 0 /\ Len(Tail(s)) = Len(s) - 1
         /\ Head(s) = s[1]
         /\ \A i \in 1..(Len(s) - 1) : Tail(s)[i] = s[i + 1]
<1>1. PICK T : s \in Seq(T)
  BY DEF IsSeq
<1>2. Tail(s) \in Seq(T)
  BY <1>1
<1>3. IsSeq(Tail(s))
  BY <1>2, IsSeqOf
<1> QED
  BY <1>1, <1>3

(* Frames written after those under way. *)
LEMMA SeqConcat ==
  ASSUME NEW s, NEW t, IsSeq(s), IsSeq(t)
  PROVE  /\ IsSeq(s \o t) /\ Len(s) \in Nat /\ Len(t) \in Nat /\ Len(s \o t) = Len(s) + Len(t)
         /\ \A i \in 1..Len(s) : (s \o t)[i] = s[i]
         /\ \A i \in 1..Len(t) : (s \o t)[Len(s) + i] = t[i]
<1>1. PICK T, V : s \in Seq(T) /\ t \in Seq(V)
  BY DEF IsSeq
<1>2. s \in Seq(T \cup V) /\ t \in Seq(T \cup V)
  BY <1>1
<1>3. s \o t \in Seq(T \cup V)
  BY <1>2
<1>4. IsSeq(s \o t)
  BY <1>3, IsSeqOf
<1> QED
  BY <1>2, <1>4

(* One frame more at the end. *)
LEMMA SeqAppend ==
  ASSUME NEW s, NEW x, IsSeq(s)
  PROVE  /\ IsSeq(Append(s, x)) /\ Len(s) \in Nat /\ Len(Append(s, x)) = Len(s) + 1
         /\ \A i \in 1..Len(s) : Append(s, x)[i] = s[i]
         /\ Append(s, x)[Len(s) + 1] = x
<1>1. PICK T : s \in Seq(T)
  BY DEF IsSeq
<1>2. s \in Seq(T \cup {x})
  BY <1>1
<1>3. Append(s, x) \in Seq(T \cup {x})
  BY <1>2
<1>4. IsSeq(Append(s, x))
  BY <1>3, IsSeqOf
<1> QED
  BY <1>2, <1>4

(* The first n elements. *)
LEMMA SeqPrefix ==
  ASSUME NEW s, IsSeq(s), NEW n \in 0..Len(s)
  PROVE  /\ IsSeq(SubSeq(s, 1, n)) /\ Len(s) \in Nat /\ Len(SubSeq(s, 1, n)) = n
         /\ \A i \in 1..n : SubSeq(s, 1, n)[i] = s[i]
<1>1. PICK T : s \in Seq(T)
  BY DEF IsSeq
<1>2. \A i \in 1..n : s[i] \in T
  BY <1>1
<1>3. SubSeq(s, 1, n) \in Seq(T)
  BY <1>1, <1>2, SubSeqProperties
<1>4. IsSeq(SubSeq(s, 1, n))
  BY <1>3, IsSeqOf
<1> QED
  BY <1>1, <1>4, SubSeqProperties

(* What is left without the first n elements: the k-buffer after a         *)
(* confirmation.                                                           *)
LEMMA SeqSuffix ==
  ASSUME NEW s, IsSeq(s), NEW n \in 0..Len(s)
  PROVE  /\ IsSeq(SubSeq(s, n + 1, Len(s))) /\ Len(s) \in Nat
         /\ Len(SubSeq(s, n + 1, Len(s))) = Len(s) - n
         /\ \A i \in 1..(Len(s) - n) : SubSeq(s, n + 1, Len(s))[i] = s[n + i]
<1>1. PICK T : s \in Seq(T)
  BY DEF IsSeq
<1>2. \A i \in (n + 1)..Len(s) : s[i] \in T
  BY <1>1
<1>3. SubSeq(s, n + 1, Len(s)) \in Seq(T)
  BY <1>1, <1>2, SubSeqProperties
<1>4. IsSeq(SubSeq(s, n + 1, Len(s)))
  BY <1>3, IsSeqOf
<1> QED
  BY <1>1, <1>4, SubSeqProperties

-----------------------------------------------------------------------------
(* The channel from one end, step by step *)

(* What an end writes to acknowledge, as a list of frames: everything that *)
(* it has received so far, and by an S frame only if that is something new. *)
Answer(fs, rc, un, un1) ==
  /\ Frames(fs)
  /\ \A i \in 1..Len(fs) : Acknowledges(fs[i]) => fs[i].nr = rc
  /\ \A i \in 1..Len(fs) : fs[i].type = "S" => i = 1 /\ un > 0
  /\ un1 \in Nat
  /\ un1 > 0 => un > 0 /\ \A i \in 1..Len(fs) : ~Acknowledges(fs[i])

(* The distance of an N(R) within bounds is a natural number. *)
LEMMA DistanceIn ==
  ASSUME NEW ids, NEW sc \in SeqNos, NEW x \in SeqNos, IsSeq(ids), Len(ids) <= k
  PROVE  Distance(ids, sc, x) \in Nat
<1>1. PICK n \in 0..k : n = Len(ids)
  BY SeqFacts, APCIAssumption
<1>2. (x - sc + n) % SeqMod \in SeqNos
  BY DistanceType
<1> QED
  BY <1>1, <1>2, APCIAssumption DEF Distance, SeqNos

(* Well-formed frames stay so when more are written. *)
LEMMA FramesConcat ==
  ASSUME NEW s, NEW t, Frames(s), Frames(t)
  PROVE  Frames(s \o t)
<1>1. /\ IsSeq(s \o t) /\ Len(s) \in Nat /\ Len(t) \in Nat /\ Len(s \o t) = Len(s) + Len(t)
      /\ \A i \in 1..Len(s) : (s \o t)[i] = s[i]
      /\ \A i \in 1..Len(t) : (s \o t)[Len(s) + i] = t[i]
  BY SeqConcat DEF Frames
<1>2. ASSUME NEW i \in 1..(Len(s) + Len(t))
      PROVE  FrameOK((s \o t)[i])
  <2>1. CASE i <= Len(s)
    BY <1>1, <2>1 DEF Frames
  <2>2. CASE i > Len(s)
    <3>1. PICK m \in 1..Len(t) : i = Len(s) + m
      <4>1. i - Len(s) \in 1..Len(t) /\ i = Len(s) + (i - Len(s))
        BY <1>1, <2>2
      <4> QED
        BY <4>1
    <3> QED
      BY <1>1, <3>1 DEF Frames
  <2> QED
    BY <1>1, <2>1, <2>2
<1> QED
  BY <1>1, <1>2 DEF Frames

(* The peer answers. *)
LEMMA WriteAck ==
  ASSUME NEW l, NEW ids, NEW sc, NEW acks, NEW data, NEW rc, NEW un, NEW g,
         ChannelOK(l, ids, sc, acks, data, rc, un, g),
         NEW fs, NEW un1, Answer(fs, rc, un, un1),
         NEW acks1, acks1 = IF l = "up" THEN acks \o fs ELSE acks
  PROVE  ChannelOK(l, ids, sc, acks1, data, rc, un1, g)
<1>1. /\ IsSeq(ids) /\ Len(ids) <= k /\ sc \in SeqNos
      /\ Frames(acks) /\ Frames(data)
      /\ rc \in SeqNos /\ un \in Nat
  BY DEF ChannelOK
<1>2. PICK R \in 0..Len(ids) :
        /\ AcknowledgedUpTo(R, ids, sc, acks, g)
        /\ l = "up" => /\ R = Distance(ids, sc, rc)
                       /\ Carried(R, ids, sc, data)
                       /\ un > 0 => Newer(R, ids, sc, acks)
  BY DEF ChannelOK
<1>3. Frames(fs) /\ un1 \in Nat
  BY DEF Answer
<1>4. CASE l # "up"
  <2>1. acks1 = acks
    BY <1>4
  <2> QED
    BY <1>1, <1>2, <1>3, <1>4, <2>1 DEF ChannelOK
<1>5. CASE l = "up"
  <2>1. Frames(acks1)
    BY <1>1, <1>3, <1>5, FramesConcat
  <2>2. /\ Len(acks) \in Nat /\ Len(fs) \in Nat /\ Len(acks1) = Len(acks) + Len(fs)
        /\ \A i \in 1..Len(acks) : acks1[i] = acks[i]
        /\ \A i \in 1..Len(fs) : acks1[Len(acks) + i] = fs[i]
    BY <1>1, <1>3, <1>5, SeqConcat DEF Frames
  <2>3. \A i \in 1..Len(acks1) :
          \/ i \in 1..Len(acks) /\ acks1[i] = acks[i]
          \/ \E m \in 1..Len(fs) : i = Len(acks) + m /\ acks1[i] = fs[m]
    <3>1. SUFFICES ASSUME NEW i \in 1..Len(acks1), i > Len(acks)
                   PROVE  \E m \in 1..Len(fs) : i = Len(acks) + m
      BY <2>2
    <3>2. i - Len(acks) \in 1..Len(fs) /\ i = Len(acks) + (i - Len(acks))
      BY <2>2, <3>1
    <3> QED
      BY <3>2
  <2>4. \A i \in 1..Len(acks) : Acknowledges(acks[i]) => Distance(ids, sc, acks[i].nr) \in Nat
    BY <1>1, DistanceIn DEF Frames, FrameOK
  <2>5. R \in Nat /\ R = Distance(ids, sc, rc)
    BY <1>1, <1>2, <1>5, DistanceIn
  <2>6. \A m \in 1..Len(fs) : Acknowledges(fs[m]) => Distance(ids, sc, fs[m].nr) = R
    BY <2>5 DEF Answer
  <2>7. \A m \in 1..Len(fs) : fs[m].type = "S" => m = 1 /\ un > 0
    BY DEF Answer
  <2>8. AcknowledgedUpTo(R, ids, sc, acks1, g)
    <3>1. \A i \in 1..R : ids[i] \in g \cup {0}
      BY <1>2 DEF AcknowledgedUpTo
    <3>2. ASSUME NEW i \in 1..Len(acks1), Acknowledges(acks1[i])
          PROVE  Distance(ids, sc, acks1[i].nr) <= R
      <4>1. CASE i \in 1..Len(acks) /\ acks1[i] = acks[i]
        BY <1>2, <3>2, <4>1 DEF AcknowledgedUpTo
      <4>2. CASE \E m \in 1..Len(fs) : i = Len(acks) + m /\ acks1[i] = fs[m]
        BY <2>5, <2>6, <3>2, <4>2
      <4> QED
        BY <2>3, <4>1, <4>2
    <3>3. ASSUME NEW i \in 1..Len(acks1), NEW j \in 1..Len(acks1),
                 i < j, Acknowledges(acks1[i]), Acknowledges(acks1[j])
          PROVE  /\ Distance(ids, sc, acks1[i].nr) <= Distance(ids, sc, acks1[j].nr)
                 /\ acks1[j].type = "S" => Distance(ids, sc, acks1[i].nr) < Distance(ids, sc, acks1[j].nr)
      <4>1. CASE j \in 1..Len(acks)
        <5>1. i \in 1..Len(acks)
          BY <2>2, <3>3, <4>1
        <5> QED
          BY <1>2, <2>2, <3>3, <4>1, <5>1 DEF AcknowledgedUpTo
      <4>2. CASE \E m \in 1..Len(fs) : j = Len(acks) + m /\ acks1[j] = fs[m]
        <5>1. PICK m \in 1..Len(fs) : j = Len(acks) + m /\ acks1[j] = fs[m]
          BY <4>2
        <5>2. Distance(ids, sc, acks1[j].nr) = R
          BY <2>6, <3>3, <5>1
        <5>3. Distance(ids, sc, acks1[i].nr) <= R
          BY <3>2, <3>3
        <5>4. ASSUME acks1[j].type = "S"
              PROVE  Distance(ids, sc, acks1[i].nr) < R
          <6>1. m = 1 /\ un > 0
            BY <2>7, <5>1, <5>4
          <6>2. i \in 1..Len(acks) /\ acks1[i] = acks[i]
            BY <2>2, <3>3, <5>1, <6>1
          <6> QED
            BY <1>2, <1>5, <3>3, <6>1, <6>2 DEF Newer
        <5> QED
          BY <5>2, <5>3, <5>4
      <4> QED
        BY <2>3, <4>1, <4>2
    <3>4. ASSUME NEW j \in 1..Len(acks1), acks1[j].type = "S"
          PROVE  Distance(ids, sc, acks1[j].nr) > 0
      <4>1. CASE j \in 1..Len(acks)
        BY <1>2, <2>2, <3>4, <4>1 DEF AcknowledgedUpTo
      <4>2. CASE \E m \in 1..Len(fs) : j = Len(acks) + m /\ acks1[j] = fs[m]
        <5>1. Distance(ids, sc, acks1[j].nr) = R /\ un > 0
          BY <2>6, <2>7, <3>4, <4>2 DEF Acknowledges
        <5> QED
          BY <1>2, <1>5, <5>1 DEF Newer
      <4> QED
        BY <2>3, <4>1, <4>2
    <3> QED
      BY <3>1, <3>2, <3>3, <3>4 DEF AcknowledgedUpTo
  <2>9. un1 > 0 => Newer(R, ids, sc, acks1)
    <3>1. SUFFICES ASSUME un1 > 0
                   PROVE  Newer(R, ids, sc, acks1)
      OBVIOUS
    <3>2. un > 0 /\ \A m \in 1..Len(fs) : ~Acknowledges(fs[m])
      BY <3>1 DEF Answer
    <3> QED
      BY <1>2, <1>5, <2>3, <3>2 DEF Newer
  <2> QED
    BY <1>1, <1>2, <1>3, <1>5, <2>1, <2>8, <2>9 DEF ChannelOK
<1> QED
  BY <1>4, <1>5

(* An end writes frames that are no I frames. *)
LEMMA WriteData ==
  ASSUME NEW l, NEW ids, NEW sc, NEW acks, NEW data, NEW rc, NEW un, NEW g,
         ChannelOK(l, ids, sc, acks, data, rc, un, g),
         NEW fs, Frames(fs), \A i \in 1..Len(fs) : fs[i].type # "I",
         NEW data1, data1 = IF l = "up" THEN data \o fs ELSE data
  PROVE  ChannelOK(l, ids, sc, acks, data1, rc, un, g)
<1>1. /\ IsSeq(ids) /\ Len(ids) <= k /\ sc \in SeqNos
      /\ Frames(acks) /\ Frames(data)
      /\ rc \in SeqNos /\ un \in Nat
  BY DEF ChannelOK
<1>2. PICK R \in 0..Len(ids) :
        /\ AcknowledgedUpTo(R, ids, sc, acks, g)
        /\ l = "up" => /\ R = Distance(ids, sc, rc)
                       /\ Carried(R, ids, sc, data)
                       /\ un > 0 => Newer(R, ids, sc, acks)
  BY DEF ChannelOK
<1>3. CASE l # "up"
  <2>1. data1 = data
    BY <1>3
  <2> QED
    BY <2>1
<1>4. CASE l = "up"
  <2>1. Frames(data1)
    BY <1>1, <1>4, FramesConcat
  <2>2. /\ Len(data) \in Nat /\ Len(fs) \in Nat /\ Len(data1) = Len(data) + Len(fs)
        /\ \A i \in 1..Len(data) : data1[i] = data[i]
        /\ \A i \in 1..Len(fs) : data1[Len(data) + i] = fs[i]
    BY <1>1, <1>4, SeqConcat DEF Frames
  <2>3. ASSUME NEW i \in 1..Len(data1), data1[i].type = "I"
        PROVE  i \in 1..Len(data) /\ data1[i] = data[i]
    <3>1. CASE i <= Len(data)
      BY <2>2, <3>1
    <3>2. CASE i > Len(data)
      <4>1. i - Len(data) \in 1..Len(fs) /\ i = Len(data) + (i - Len(data))
        BY <2>2, <3>2
      <4>2. PICK m \in 1..Len(fs) : i = Len(data) + m
        BY <4>1
      <4>3. data1[i] = fs[m]
        BY <2>2, <4>2
      <4>4. fs[m].type # "I"
        BY <4>2
      <4> QED
        BY <2>3, <4>3, <4>4
    <3> QED
      BY <2>2, <3>1, <3>2
  <2>4. Carried(R, ids, sc, data1)
    BY <1>2, <1>4, <2>3 DEF Carried
  <2> QED
    BY <1>1, <1>2, <1>4, <2>1, <2>4 DEF ChannelOK
<1> QED
  BY <1>3, <1>4

(* An end sends an I frame, or counts it only. *)
LEMMA SendData ==
  ASSUME NEW l, NEW ids, NEW sc, NEW acks, NEW data, NEW rc, NEW un, NEW g,
         ChannelOK(l, ids, sc, acks, data, rc, un, g), Len(ids) # k,
         NEW id, NEW f, f.type = "I", f.ns = sc, f.id = id, FrameOK(f),
         NEW ids1, ids1 = Append(ids, id), NEW sc1, sc1 = (sc + 1) % SeqMod,
         NEW data1, data1 = data \/ data1 = Append(data, f)
  PROVE  ChannelOK(l, ids1, sc1, acks, data1, rc, un, g)
<1>1. /\ IsSeq(ids) /\ Len(ids) <= k /\ sc \in SeqNos
      /\ Frames(acks) /\ Frames(data)
      /\ rc \in SeqNos /\ un \in Nat
  BY DEF ChannelOK
<1>2. PICK R \in 0..Len(ids) :
        /\ AcknowledgedUpTo(R, ids, sc, acks, g)
        /\ l = "up" => /\ R = Distance(ids, sc, rc)
                       /\ Carried(R, ids, sc, data)
                       /\ un > 0 => Newer(R, ids, sc, acks)
  BY DEF ChannelOK
<1>3. /\ IsSeq(ids1) /\ Len(ids) \in Nat /\ Len(ids1) = Len(ids) + 1
      /\ \A i \in 1..Len(ids) : ids1[i] = ids[i]
      /\ ids1[Len(ids) + 1] = id
  BY <1>1, SeqAppend
<1>4. Len(ids) < k /\ Len(ids1) <= k
  BY <1>1, <1>3, APCIAssumption
<1>5. PICK n \in Nat : n = Len(ids)
  BY <1>3
<1>6. /\ sc1 \in SeqNos
      /\ \A x \in SeqNos : Distance(ids1, sc1, x) = Distance(ids, sc, x)
  <2>1. (sc + 1) % SeqMod \in SeqNos
    BY <1>1, <1>4, <1>5, DistanceSend
  <2>2. \A x \in SeqNos : (x - sc1 + (n + 1)) % SeqMod = (x - sc + n) % SeqMod
    BY <1>1, <1>4, <1>5, DistanceSend
  <2>3. Len(ids1) = n + 1
    BY <1>3, <1>5
  <2> QED
    BY <1>5, <2>1, <2>2, <2>3 DEF Distance
<1>7. Distance(ids, sc, sc) = n
  <2>1. n \in 0..k
    BY <1>4, <1>5, APCIAssumption
  <2>2. (sc - sc + n) % SeqMod = n
    BY <1>1, <2>1, DistanceSelf
  <2> QED
    BY <1>5, <2>2 DEF Distance
<1>8. /\ \A i \in 1..Len(acks) : Acknowledges(acks[i]) =>
            Distance(ids1, sc1, acks[i].nr) = Distance(ids, sc, acks[i].nr)
      /\ \A i \in 1..Len(data) : data[i].type = "I" =>
            /\ Distance(ids1, sc1, data[i].ns) = Distance(ids, sc, data[i].ns)
            /\ Distance(ids, sc, data[i].ns) \in Nat
      /\ Distance(ids1, sc1, rc) = Distance(ids, sc, rc)
  BY <1>1, <1>6, DistanceIn DEF Frames, FrameOK
<1>9. AcknowledgedUpTo(R, ids1, sc1, acks, g)
  <2>1. \A i \in 1..R : ids1[i] = ids[i]
    BY <1>3
  <2>2. \A i \in 1..R : ids1[i] \in g \cup {0}
    BY <1>2, <2>1 DEF AcknowledgedUpTo
  <2>3. \A i \in 1..Len(acks) : acks[i].type = "S" => Acknowledges(acks[i])
    BY DEF Acknowledges
  <2> QED
    BY <1>2, <1>8, <2>2, <2>3 DEF AcknowledgedUpTo
<1>10. un > 0 /\ l = "up" => Newer(R, ids1, sc1, acks)
  BY <1>2, <1>8 DEF Newer
<1>11. l = "up" => Carried(R, ids1, sc1, data)
  <2>1. ASSUME l = "up", NEW i \in 1..Len(data), data[i].type = "I"
        PROVE  /\ Distance(ids1, sc1, data[i].ns) \in R..(Len(ids1) - 1)
               /\ data[i].id = ids1[Distance(ids1, sc1, data[i].ns) + 1]
    <3>1. PICK d : d = Distance(ids, sc, data[i].ns)
      OBVIOUS
    <3>2. d \in R..(Len(ids) - 1) /\ data[i].id = ids[d + 1]
      BY <1>2, <2>1, <3>1 DEF Carried
    <3>3. ids1[d + 1] = ids[d + 1] /\ d \in R..(Len(ids1) - 1)
      BY <1>3, <3>2
    <3>4. Distance(ids1, sc1, data[i].ns) = d
      BY <1>8, <2>1, <3>1
    <3> QED
      BY <3>2, <3>3, <3>4
  <2>2. ASSUME l = "up", NEW i \in 1..Len(data), NEW j \in 1..Len(data),
               i < j, data[i].type = "I", data[j].type = "I"
        PROVE  Distance(ids1, sc1, data[i].ns) < Distance(ids1, sc1, data[j].ns)
    BY <1>2, <1>8, <2>2 DEF Carried
  <2> QED
    BY <2>1, <2>2 DEF Carried
<1>12. CASE data1 = data
  BY <1>1, <1>2, <1>3, <1>4, <1>6, <1>8, <1>9, <1>10, <1>11, <1>12 DEF ChannelOK
<1>13. CASE data1 = Append(data, f)
  <2>1. /\ IsSeq(data1) /\ Len(data) \in Nat /\ Len(data1) = Len(data) + 1
        /\ \A i \in 1..Len(data) : data1[i] = data[i]
        /\ data1[Len(data) + 1] = f
    BY <1>1, <1>13, SeqAppend DEF Frames
  <2>2. Frames(data1)
    <3>1. ASSUME NEW i \in 1..Len(data1)
          PROVE  FrameOK(data1[i])
      <4>1. i \in 1..Len(data) \/ i = Len(data) + 1
        BY <2>1
      <4> QED
        BY <1>1, <2>1, <4>1 DEF Frames
    <3> QED
      BY <2>1, <3>1 DEF Frames
  <2>3. Distance(ids1, sc1, sc) = n
    BY <1>1, <1>6, <1>7
  <2>4. ASSUME l = "up"
        PROVE  Carried(R, ids1, sc1, data1)
    <3>1. ASSUME NEW i \in 1..Len(data1), data1[i].type = "I"
          PROVE  /\ Distance(ids1, sc1, data1[i].ns) \in R..(Len(ids1) - 1)
                 /\ data1[i].id = ids1[Distance(ids1, sc1, data1[i].ns) + 1]
      <4>1. CASE i \in 1..Len(data)
        BY <1>11, <2>1, <2>4, <3>1, <4>1 DEF Carried
      <4>2. CASE i = Len(data) + 1
        <5>1. Distance(ids1, sc1, data1[i].ns) = n /\ data1[i].id = id
          BY <2>1, <2>3, <4>2
        <5>2. n \in R..(Len(ids1) - 1) /\ ids1[n + 1] = id
          BY <1>3, <1>5
        <5> QED
          BY <5>1, <5>2
      <4> QED
        BY <2>1, <4>1, <4>2
    <3>2. ASSUME NEW i \in 1..Len(data1), NEW j \in 1..Len(data1),
                 i < j, data1[i].type = "I", data1[j].type = "I"
          PROVE  Distance(ids1, sc1, data1[i].ns) < Distance(ids1, sc1, data1[j].ns)
      <4>1. i \in 1..Len(data) /\ data1[i] = data[i]
        BY <2>1, <3>2
      <4>2. CASE j \in 1..Len(data)
        BY <1>11, <2>1, <2>4, <3>2, <4>1, <4>2 DEF Carried
      <4>3. CASE j = Len(data) + 1
        <5>1. Distance(ids1, sc1, data1[j].ns) = n
          BY <2>1, <2>3, <4>3
        <5>2. Distance(ids, sc, data[i].ns) \in R..(Len(ids) - 1)
          BY <1>2, <2>4, <3>2, <4>1 DEF Carried
        <5>3. Distance(ids1, sc1, data1[i].ns) = Distance(ids, sc, data[i].ns)
          BY <1>8, <3>2, <4>1
        <5>4. Distance(ids1, sc1, data1[i].ns) < n
          BY <1>5, <5>2, <5>3
        <5> QED
          BY <5>1, <5>4
      <4> QED
        BY <2>1, <4>2, <4>3
    <3> QED
      BY <3>1, <3>2 DEF Carried
  <2> QED
    BY <1>1, <1>2, <1>3, <1>4, <1>6, <1>8, <1>9, <1>10, <2>2, <2>4 DEF ChannelOK
<1> QED
  BY <1>12, <1>13

(* Well-formed frames stay so when one is read. *)
LEMMA FramesTail ==
  ASSUME NEW s, Frames(s), s # <<>>
  PROVE  /\ Frames(Tail(s)) /\ Len(s) \in Nat /\ Len(s) > 0 /\ Len(Tail(s)) = Len(s) - 1
         /\ Head(s) = s[1] /\ FrameOK(Head(s))
         /\ \A i \in 1..(Len(s) - 1) : i + 1 \in 2..Len(s) /\ Tail(s)[i] = s[i + 1]
<1>1. /\ IsSeq(Tail(s)) /\ Len(s) \in Nat /\ Len(s) > 0 /\ Len(Tail(s)) = Len(s) - 1
      /\ Head(s) = s[1]
      /\ \A i \in 1..(Len(s) - 1) : Tail(s)[i] = s[i + 1]
  BY SeqTail DEF Frames
<1>2. FrameOK(s[1])
  BY <1>1 DEF Frames
<1>3. \A i \in 1..(Len(s) - 1) : i + 1 \in 2..Len(s) /\ FrameOK(s[i + 1])
  BY <1>1 DEF Frames
<1>4. Frames(Tail(s))
  BY <1>1, <1>3 DEF Frames
<1> QED
  BY <1>1, <1>2, <1>3, <1>4

(* An end reads a frame, and does not take its N(R) for an acknowledgement. *)
LEMMA ReadAck ==
  ASSUME NEW l, NEW ids, NEW sc, NEW acks, NEW data, NEW rc, NEW un, NEW g,
         ChannelOK(l, ids, sc, acks, data, rc, un, g), acks # <<>>
  PROVE  ChannelOK(l, ids, sc, Tail(acks), data, rc, un, g)
<1>1. /\ IsSeq(ids) /\ Len(ids) <= k /\ sc \in SeqNos
      /\ Frames(acks) /\ Frames(data)
      /\ rc \in SeqNos /\ un \in Nat
  BY DEF ChannelOK
<1>2. PICK R \in 0..Len(ids) :
        /\ AcknowledgedUpTo(R, ids, sc, acks, g)
        /\ l = "up" => /\ R = Distance(ids, sc, rc)
                       /\ Carried(R, ids, sc, data)
                       /\ un > 0 => Newer(R, ids, sc, acks)
  BY DEF ChannelOK
<1>3. PICK acks1 : acks1 = Tail(acks)
  OBVIOUS
<1>4. /\ Frames(acks1) /\ Len(acks) \in Nat /\ Len(acks) > 0 /\ Len(acks1) = Len(acks) - 1
      /\ \A i \in 1..Len(acks1) : i + 1 \in 1..Len(acks) /\ acks1[i] = acks[i + 1]
  BY <1>1, <1>3, FramesTail
<1>5. AcknowledgedUpTo(R, ids, sc, acks1, g)
  <2>1. \A i \in 1..R : ids[i] \in g \cup {0}
    BY <1>2 DEF AcknowledgedUpTo
  <2>2. ASSUME NEW i \in 1..Len(acks1), Acknowledges(acks1[i])
        PROVE  Distance(ids, sc, acks1[i].nr) <= R
    BY <1>2, <1>4, <2>2 DEF AcknowledgedUpTo
  <2>3. ASSUME NEW i \in 1..Len(acks1), NEW j \in 1..Len(acks1), i < j,
               Acknowledges(acks1[i]), Acknowledges(acks1[j])
        PROVE  /\ Distance(ids, sc, acks1[i].nr) <= Distance(ids, sc, acks1[j].nr)
               /\ acks1[j].type = "S" => Distance(ids, sc, acks1[i].nr) < Distance(ids, sc, acks1[j].nr)
    <3>1. /\ i + 1 \in 1..Len(acks) /\ j + 1 \in 1..Len(acks) /\ i + 1 < j + 1
          /\ acks1[i] = acks[i + 1] /\ acks1[j] = acks[j + 1]
      BY <1>4, <2>3
    <3>2. PICK a, b \in 1..Len(acks) : a = i + 1 /\ b = j + 1
      BY <3>1
    <3> QED
      BY <1>2, <2>3, <3>1, <3>2 DEF AcknowledgedUpTo
  <2>4. ASSUME NEW j \in 1..Len(acks1), acks1[j].type = "S"
        PROVE  Distance(ids, sc, acks1[j].nr) > 0
    BY <1>2, <1>4, <2>4 DEF AcknowledgedUpTo
  <2> QED
    BY <2>1, <2>2, <2>3, <2>4 DEF AcknowledgedUpTo
<1>6. un > 0 /\ l = "up" => Newer(R, ids, sc, acks1)
  BY <1>2, <1>4 DEF Newer
<1> QED
  BY <1>1, <1>2, <1>3, <1>4, <1>5, <1>6 DEF ChannelOK

(* An end reads an N(R), which is always valid, and takes what it          *)
(* acknowledges out of its k-buffer: the peer's application has it.        *)
LEMMA ReadConfirm ==
  ASSUME NEW l, NEW ids, NEW sc, NEW acks, NEW data, NEW rc, NEW un, NEW g,
         ChannelOK(l, ids, sc, acks, data, rc, un, g), acks # <<>>,
         Acknowledges(Head(acks)), NEW n, n = Distance(ids, sc, Head(acks).nr)
  PROVE  /\ n \in 0..Len(ids)
         /\ \A i \in 1..n : ids[i] \in g \cup {0}
         /\ ChannelOK(l, SubSeq(ids, n + 1, Len(ids)), sc, Tail(acks), data, rc, un, g)
<1>1. /\ IsSeq(ids) /\ Len(ids) <= k /\ sc \in SeqNos
      /\ Frames(acks) /\ Frames(data)
      /\ rc \in SeqNos /\ un \in Nat
  BY DEF ChannelOK
<1>2. PICK R \in 0..Len(ids) :
        /\ AcknowledgedUpTo(R, ids, sc, acks, g)
        /\ l = "up" => /\ R = Distance(ids, sc, rc)
                       /\ Carried(R, ids, sc, data)
                       /\ un > 0 => Newer(R, ids, sc, acks)
  BY DEF ChannelOK
<1>3. PICK acks1 : acks1 = Tail(acks)
  OBVIOUS
<1>4. /\ Frames(acks1) /\ Len(acks) \in Nat /\ Len(acks) > 0 /\ Len(acks1) = Len(acks) - 1
      /\ Head(acks) = acks[1] /\ FrameOK(acks[1])
      /\ \A i \in 1..Len(acks1) : i + 1 \in 2..Len(acks) /\ acks1[i] = acks[i + 1]
  BY <1>1, <1>3, FramesTail
<1>5. Len(ids) \in Nat
  BY <1>1, SeqFacts
<1>6. n \in 0..R
  <2>1. acks[1].nr \in SeqNos
    BY <1>4 DEF FrameOK
  <2>2. n \in Nat
    BY <1>1, <1>4, <2>1, DistanceIn
  <2>3. n <= R
    BY <1>2, <1>4 DEF AcknowledgedUpTo
  <2> QED
    BY <2>2, <2>3
<1>7. PICK ids1 : ids1 = SubSeq(ids, n + 1, Len(ids))
  OBVIOUS
<1>8. /\ IsSeq(ids1) /\ Len(ids1) = Len(ids) - n
      /\ \A i \in 1..(Len(ids) - n) : ids1[i] = ids[n + i]
  <2>1. n \in 0..Len(ids)
    BY <1>5, <1>6
  <2> QED
    BY <1>1, <1>7, <2>1, SeqSuffix
<1>9. ASSUME NEW x \in SeqNos, Distance(ids, sc, x) >= n
      PROVE  Distance(ids1, sc, x) = Distance(ids, sc, x) - n
  <2>1. PICK m \in 0..k : m = Len(ids)
    BY <1>1, <1>5, APCIAssumption
  <2>2. n \in 0..m /\ Len(ids1) = m - n
    BY <1>6, <1>8, <2>1
  <2>3. (x - sc + m) % SeqMod >= n
    BY <1>9, <2>1 DEF Distance
  <2>4. (x - sc + m) % SeqMod \in Nat
    BY <1>1, <2>1, DistanceType, APCIAssumption DEF SeqNos
  <2>5. n <= (x - sc + m) % SeqMod
    BY <2>2, <2>3, <2>4
  <2>6. (x - sc + (m - n)) % SeqMod = ((x - sc + m) % SeqMod) - n
    BY <1>1, <2>2, <2>5, DistanceConfirm
  <2> QED
    BY <2>1, <2>2, <2>6 DEF Distance
<1>10. ASSUME NEW i \in 1..Len(acks1), Acknowledges(acks1[i])
       PROVE  /\ i + 1 \in 2..Len(acks) /\ Acknowledges(acks[i + 1]) /\ acks1[i] = acks[i + 1]
              /\ Distance(ids, sc, acks[i + 1].nr) \in n..R
              /\ acks[i + 1].type = "S" => Distance(ids, sc, acks[i + 1].nr) > n
              /\ Distance(ids1, sc, acks1[i].nr) = Distance(ids, sc, acks[i + 1].nr) - n
  <2>1. PICK m \in 2..Len(acks) : m = i + 1
    BY <1>4
  <2>2. acks1[i] = acks[m] /\ Acknowledges(acks[m]) /\ m \in 1..Len(acks) /\ 1 < m /\ 1 \in 1..Len(acks)
    BY <1>4, <1>10, <2>1
  <2>3. Acknowledges(acks[1])
    BY <1>4
  <2>4. /\ n <= Distance(ids, sc, acks[m].nr)
        /\ acks[m].type = "S" => n < Distance(ids, sc, acks[m].nr)
        /\ Distance(ids, sc, acks[m].nr) <= R
    BY <1>2, <1>4, <2>2, <2>3 DEF AcknowledgedUpTo
  <2>5. acks[m].nr \in SeqNos
    BY <1>1, <2>2 DEF Frames, FrameOK
  <2>6. Distance(ids, sc, acks[m].nr) \in Nat
    BY <1>1, <2>5, DistanceIn
  <2>7. Distance(ids1, sc, acks[m].nr) = Distance(ids, sc, acks[m].nr) - n
    BY <1>6, <1>9, <2>4, <2>5, <2>6
  <2> QED
    BY <1>2, <1>6, <2>1, <2>2, <2>4, <2>6, <2>7
<1>11. R - n \in 0..Len(ids1)
  BY <1>5, <1>6, <1>8
<1>12. AcknowledgedUpTo(R - n, ids1, sc, acks1, g)
  <2>1. ASSUME NEW i \in 1..(R - n)
        PROVE  ids1[i] \in g \cup {0}
    <3>1. i \in 1..(Len(ids) - n) /\ n + i \in 1..R
      BY <1>5, <1>6
    <3>2. PICK m \in 1..R : m = n + i
      BY <3>1
    <3>3. ids[m] \in g \cup {0}
      BY <1>2 DEF AcknowledgedUpTo
    <3> QED
      BY <1>8, <3>1, <3>2, <3>3
  <2>2. \A i \in 1..Len(acks1) : Acknowledges(acks1[i]) => Distance(ids1, sc, acks1[i].nr) <= R - n
    BY <1>6, <1>10
  <2>3. ASSUME NEW i \in 1..Len(acks1), NEW j \in 1..Len(acks1), i < j,
               Acknowledges(acks1[i]), Acknowledges(acks1[j])
        PROVE  /\ Distance(ids1, sc, acks1[i].nr) <= Distance(ids1, sc, acks1[j].nr)
               /\ acks1[j].type = "S" => Distance(ids1, sc, acks1[i].nr) < Distance(ids1, sc, acks1[j].nr)
    <3>1. PICK a, b \in 1..Len(acks) : a = i + 1 /\ b = j + 1 /\ a < b
      BY <1>4, <2>3
    <3>2. /\ Distance(ids1, sc, acks1[i].nr) = Distance(ids, sc, acks[a].nr) - n
          /\ Distance(ids1, sc, acks1[j].nr) = Distance(ids, sc, acks[b].nr) - n
          /\ Distance(ids, sc, acks[a].nr) \in n..R /\ Distance(ids, sc, acks[b].nr) \in n..R
          /\ Acknowledges(acks[a]) /\ Acknowledges(acks[b]) /\ acks1[j] = acks[b]
      BY <1>10, <2>3, <3>1
    <3>3. /\ Distance(ids, sc, acks[a].nr) <= Distance(ids, sc, acks[b].nr)
          /\ acks[b].type = "S" => Distance(ids, sc, acks[a].nr) < Distance(ids, sc, acks[b].nr)
      BY <1>2, <3>1, <3>2 DEF AcknowledgedUpTo
    <3> QED
      BY <1>6, <3>2, <3>3
  <2>4. ASSUME NEW j \in 1..Len(acks1), acks1[j].type = "S"
        PROVE  Distance(ids1, sc, acks1[j].nr) > 0
    <3>1. Acknowledges(acks1[j])
      BY <2>4 DEF Acknowledges
    <3> QED
      BY <1>6, <1>10, <2>4, <3>1
  <2> QED
    BY <2>1, <2>2, <2>3, <2>4 DEF AcknowledgedUpTo
<1>13. ASSUME l = "up"
       PROVE  R - n = Distance(ids1, sc, rc)
  BY <1>1, <1>2, <1>6, <1>9, <1>13
<1>14. ASSUME l = "up"
       PROVE  Carried(R - n, ids1, sc, data)
  <2>1. ASSUME NEW i \in 1..Len(data), data[i].type = "I"
        PROVE  /\ Distance(ids1, sc, data[i].ns) = Distance(ids, sc, data[i].ns) - n
               /\ Distance(ids, sc, data[i].ns) \in R..(Len(ids) - 1)
               /\ data[i].id = ids[Distance(ids, sc, data[i].ns) + 1]
    <3>1. data[i].ns \in SeqNos
      BY <1>1, <2>1 DEF Frames, FrameOK
    <3>2. /\ Distance(ids, sc, data[i].ns) \in R..(Len(ids) - 1)
          /\ data[i].id = ids[Distance(ids, sc, data[i].ns) + 1]
      BY <1>2, <1>14, <2>1 DEF Carried
    <3>3. Distance(ids, sc, data[i].ns) >= n
      BY <1>6, <3>2
    <3> QED
      BY <1>9, <3>1, <3>2, <3>3
  <2>2. ASSUME NEW i \in 1..Len(data), data[i].type = "I"
        PROVE  /\ Distance(ids1, sc, data[i].ns) \in (R - n)..(Len(ids1) - 1)
               /\ data[i].id = ids1[Distance(ids1, sc, data[i].ns) + 1]
    <3>1. PICK d : d = Distance(ids, sc, data[i].ns)
      OBVIOUS
    <3>2. Distance(ids1, sc, data[i].ns) = d - n /\ d \in R..(Len(ids) - 1) /\ data[i].id = ids[d + 1]
      BY <2>1, <2>2, <3>1
    <3>3. d - n + 1 \in 1..(Len(ids) - n) /\ n + (d - n + 1) = d + 1
      BY <1>5, <1>6, <3>2
    <3>4. ids1[d - n + 1] = ids[d + 1]
      BY <1>8, <3>3
    <3>5. Len(ids1) = Len(ids) - n
      BY <1>8
    <3>6. d - n \in (R - n)..(Len(ids1) - 1)
      BY <1>5, <1>6, <3>2, <3>5
    <3> QED
      BY <3>2, <3>4, <3>6
  <2>3. ASSUME NEW i \in 1..Len(data), NEW j \in 1..Len(data),
               i < j, data[i].type = "I", data[j].type = "I"
        PROVE  Distance(ids1, sc, data[i].ns) < Distance(ids1, sc, data[j].ns)
    <3>1. Distance(ids, sc, data[i].ns) < Distance(ids, sc, data[j].ns)
      BY <1>2, <1>14, <2>3 DEF Carried
    <3> QED
      BY <1>5, <1>6, <2>1, <2>3, <3>1
  <2> QED
    BY <2>2, <2>3 DEF Carried
<1>15. ASSUME l = "up", un > 0
       PROVE  Newer(R - n, ids1, sc, acks1)
  <2>1. Newer(R, ids, sc, acks)
    BY <1>2, <1>15
  <2>2. n < R
    BY <1>4, <2>1 DEF Newer
  <2>3. ASSUME NEW i \in 1..Len(acks1), Acknowledges(acks1[i])
        PROVE  Distance(ids1, sc, acks1[i].nr) < R - n
    <3>1. PICK a \in 1..Len(acks) : a = i + 1
      BY <1>4
    <3>2. /\ Distance(ids1, sc, acks1[i].nr) = Distance(ids, sc, acks[a].nr) - n
          /\ Distance(ids, sc, acks[a].nr) \in n..R /\ Acknowledges(acks[a])
      BY <1>10, <2>3, <3>1
    <3>3. Distance(ids, sc, acks[a].nr) < R
      BY <2>1, <3>2 DEF Newer
    <3> QED
      BY <1>6, <3>2, <3>3
  <2> QED
    BY <1>6, <2>2, <2>3 DEF Newer
<1>16. ChannelOK(l, ids1, sc, acks1, data, rc, un, g)
  <2>1. Len(ids1) <= k
    BY <1>1, <1>5, <1>6, <1>8, APCIAssumption
  <2> QED
    BY <1>1, <1>4, <1>8, <1>11, <1>12, <1>13, <1>14, <1>15, <2>1 DEF ChannelOK
<1>17. \A i \in 1..n : ids[i] \in g \cup {0}
  BY <1>2, <1>6 DEF AcknowledgedUpTo
<1> QED
  BY <1>3, <1>5, <1>6, <1>7, <1>16, <1>17

(* The peer reads a frame that it does not accept as an I frame. *)
LEMMA ReadData ==
  ASSUME NEW l, NEW ids, NEW sc, NEW acks, NEW data, NEW rc, NEW un, NEW g,
         ChannelOK(l, ids, sc, acks, data, rc, un, g), data # <<>>
  PROVE  ChannelOK(l, ids, sc, acks, Tail(data), rc, un, g)
<1>1. /\ IsSeq(ids) /\ Len(ids) <= k /\ sc \in SeqNos
      /\ Frames(acks) /\ Frames(data)
      /\ rc \in SeqNos /\ un \in Nat
  BY DEF ChannelOK
<1>2. PICK R \in 0..Len(ids) :
        /\ AcknowledgedUpTo(R, ids, sc, acks, g)
        /\ l = "up" => /\ R = Distance(ids, sc, rc)
                       /\ Carried(R, ids, sc, data)
                       /\ un > 0 => Newer(R, ids, sc, acks)
  BY DEF ChannelOK
<1>3. PICK data1 : data1 = Tail(data)
  OBVIOUS
<1>4. /\ Frames(data1) /\ Len(data) \in Nat /\ Len(data) > 0 /\ Len(data1) = Len(data) - 1
      /\ \A i \in 1..Len(data1) : i + 1 \in 1..Len(data) /\ data1[i] = data[i + 1]
  BY <1>1, <1>3, FramesTail
<1>5. ASSUME l = "up"
      PROVE  Carried(R, ids, sc, data1)
  <2>1. ASSUME NEW i \in 1..Len(data1), data1[i].type = "I"
        PROVE  /\ Distance(ids, sc, data1[i].ns) \in R..(Len(ids) - 1)
               /\ data1[i].id = ids[Distance(ids, sc, data1[i].ns) + 1]
    BY <1>2, <1>4, <1>5, <2>1 DEF Carried
  <2>2. ASSUME NEW i \in 1..Len(data1), NEW j \in 1..Len(data1),
               i < j, data1[i].type = "I", data1[j].type = "I"
        PROVE  Distance(ids, sc, data1[i].ns) < Distance(ids, sc, data1[j].ns)
    <3>1. PICK a, b \in 1..Len(data) : a = i + 1 /\ b = j + 1 /\ a < b
      BY <1>4, <2>2
    <3>2. data1[i] = data[a] /\ data1[j] = data[b]
      BY <1>4, <3>1
    <3> QED
      BY <1>2, <1>5, <2>2, <3>1, <3>2 DEF Carried
  <2> QED
    BY <2>1, <2>2 DEF Carried
<1> QED
  BY <1>1, <1>2, <1>3, <1>4, <1>5 DEF ChannelOK

(* The peer accepts an I frame with the number that it expects next. *)
LEMMA ReadAccept ==
  ASSUME NEW l, NEW ids, NEW sc, NEW acks, NEW data, NEW rc, NEW un, NEW g,
         ChannelOK(l, ids, sc, acks, data, rc, un, g), data # <<>>,
         NEW f, f = Head(data), f.type = "I", f.ns = rc,
         NEW rc1, rc1 = (rc + 1) % SeqMod, NEW un1 \in Nat,
         NEW g1, g1 = g \cup {f.id}
  PROVE  ChannelOK(l, ids, sc, acks, Tail(data), rc1, un1, g1)
<1>1. /\ IsSeq(ids) /\ Len(ids) <= k /\ sc \in SeqNos
      /\ Frames(acks) /\ Frames(data)
      /\ rc \in SeqNos /\ un \in Nat
  BY DEF ChannelOK
<1>2. PICK R \in 0..Len(ids) :
        /\ AcknowledgedUpTo(R, ids, sc, acks, g)
        /\ l = "up" => /\ R = Distance(ids, sc, rc)
                       /\ Carried(R, ids, sc, data)
                       /\ un > 0 => Newer(R, ids, sc, acks)
  BY DEF ChannelOK
<1>3. PICK data1 : data1 = Tail(data)
  OBVIOUS
<1>4. /\ Frames(data1) /\ Len(data) \in Nat /\ Len(data) > 0 /\ Len(data1) = Len(data) - 1
      /\ f = data[1]
      /\ \A i \in 1..Len(data1) : i + 1 \in 2..Len(data) /\ data1[i] = data[i + 1]
  BY <1>1, <1>3, FramesTail
<1>5. Len(ids) \in Nat
  BY <1>1, SeqFacts
<1>6. rc1 \in SeqNos
  BY <1>1, SeqNoNext
<1>7. CASE l # "up"
  <2>1. AcknowledgedUpTo(R, ids, sc, acks, g1)
    BY <1>2 DEF AcknowledgedUpTo
  <2> QED
    BY <1>1, <1>3, <1>4, <1>6, <1>7, <2>1 DEF ChannelOK
<1>8. CASE l = "up"
  <2>1. /\ R = Distance(ids, sc, rc) /\ R \in 0..(Len(ids) - 1) /\ f.id = ids[R + 1]
    <3>1. 1 \in 1..Len(data) /\ data[1].type = "I" /\ data[1].ns = rc
      BY <1>4
    <3>2. /\ Distance(ids, sc, data[1].ns) \in R..(Len(ids) - 1)
          /\ data[1].id = ids[Distance(ids, sc, data[1].ns) + 1]
      BY <1>2, <1>8, <3>1 DEF Carried
    <3> QED
      BY <1>2, <1>4, <1>5, <1>8, <3>1, <3>2
  <2>2. R + 1 = Distance(ids, sc, rc1)
    <3>1. PICK n \in 0..k : n = Len(ids)
      BY <1>1, <1>5, APCIAssumption
    <3>2. (rc - sc + n) % SeqMod < n
      BY <1>5, <2>1, <3>1 DEF Distance
    <3>3. (((rc + 1) % SeqMod) - sc + n) % SeqMod = ((rc - sc + n) % SeqMod) + 1
      BY <1>1, <3>2, DistanceNext
    <3> QED
      BY <2>1, <3>1, <3>3 DEF Distance
  <2>3. R + 1 \in 0..Len(ids)
    BY <1>5, <2>1
  <2>4. \A i \in 1..Len(acks) : Acknowledges(acks[i]) =>
          Distance(ids, sc, acks[i].nr) \in Nat /\ Distance(ids, sc, acks[i].nr) <= R
    BY <1>1, <1>2, DistanceIn DEF Frames, FrameOK, AcknowledgedUpTo
  <2>5. AcknowledgedUpTo(R + 1, ids, sc, acks, g1)
    <3>1. ASSUME NEW i \in 1..(R + 1)
          PROVE  ids[i] \in g1 \cup {0}
      <4>1. CASE i \in 1..R
        BY <1>2, <4>1 DEF AcknowledgedUpTo
      <4>2. CASE i = R + 1
        BY <2>1, <4>2
      <4> QED
        BY <2>1, <4>1, <4>2
    <3>2. \A i \in 1..Len(acks) : Acknowledges(acks[i]) => Distance(ids, sc, acks[i].nr) <= R + 1
      BY <2>1, <2>4
    <3> QED
      BY <1>2, <3>1, <3>2 DEF AcknowledgedUpTo
  <2>6. Newer(R + 1, ids, sc, acks)
    BY <2>1, <2>4 DEF Newer
  <2>7. Carried(R + 1, ids, sc, data1)
    <3>1. ASSUME NEW i \in 1..Len(data1), data1[i].type = "I"
          PROVE  /\ Distance(ids, sc, data1[i].ns) \in (R + 1)..(Len(ids) - 1)
                 /\ data1[i].id = ids[Distance(ids, sc, data1[i].ns) + 1]
      <4>1. PICK a \in 2..Len(data) : a = i + 1 /\ data1[i] = data[a] /\ a \in 1..Len(data)
        BY <1>4
      <4>2. /\ Distance(ids, sc, data[a].ns) \in R..(Len(ids) - 1)
            /\ data[a].id = ids[Distance(ids, sc, data[a].ns) + 1]
        BY <1>2, <1>8, <3>1, <4>1 DEF Carried
      <4>3. 1 \in 1..Len(data) /\ 1 < a /\ data[1].type = "I" /\ data[1].ns = rc
        BY <1>4, <4>1
      <4>4. Distance(ids, sc, rc) < Distance(ids, sc, data[a].ns)
        BY <1>2, <1>8, <3>1, <4>1, <4>3 DEF Carried
      <4> QED
        BY <1>5, <2>1, <4>1, <4>2, <4>4
    <3>2. ASSUME NEW i \in 1..Len(data1), NEW j \in 1..Len(data1),
                 i < j, data1[i].type = "I", data1[j].type = "I"
          PROVE  Distance(ids, sc, data1[i].ns) < Distance(ids, sc, data1[j].ns)
      <4>1. PICK a, b \in 1..Len(data) : a = i + 1 /\ b = j + 1 /\ a < b
        BY <1>4, <3>2
      <4>2. data1[i] = data[a] /\ data1[j] = data[b]
        BY <1>4, <4>1
      <4> QED
        BY <1>2, <1>8, <3>2, <4>1, <4>2 DEF Carried
    <3> QED
      BY <3>1, <3>2 DEF Carried
  <2> QED
    BY <1>1, <1>3, <1>4, <1>6, <2>2, <2>3, <2>5, <2>6, <2>7 DEF ChannelOK
<1> QED
  BY <1>7, <1>8

(* The connection ends for this end: what is still to be read is the first *)
(* part of what was sent to it.                                            *)
LEMMA Cut ==
  ASSUME NEW l, NEW ids, NEW sc, NEW acks, NEW data, NEW rc, NEW un, NEW g,
         ChannelOK(l, ids, sc, acks, data, rc, un, g),
         NEW acks1, IsSeq(acks1), Len(acks1) <= Len(acks),
         \A i \in 1..Len(acks1) : acks1[i] = acks[i],
         NEW data1, Frames(data1), NEW l1, l1 # "up", NEW un1 \in Nat
  PROVE  ChannelOK(l1, ids, sc, acks1, data1, rc, un1, g)
<1>1. /\ IsSeq(ids) /\ Len(ids) <= k /\ sc \in SeqNos
      /\ Frames(acks) /\ Frames(data)
      /\ rc \in SeqNos /\ un \in Nat
  BY DEF ChannelOK
<1>2. PICK R \in 0..Len(ids) : AcknowledgedUpTo(R, ids, sc, acks, g)
  BY DEF ChannelOK
<1>3. \A i \in 1..Len(acks1) : i \in 1..Len(acks) /\ acks1[i] = acks[i]
  BY <1>1, SeqFacts DEF Frames
<1>4. Frames(acks1)
  BY <1>1, <1>3 DEF Frames
<1>5. AcknowledgedUpTo(R, ids, sc, acks1, g)
  BY <1>2, <1>3 DEF AcknowledgedUpTo
<1> QED
  BY <1>1, <1>2, <1>4, <1>5 DEF ChannelOK

-----------------------------------------------------------------------------
(* Both channels, step by step *)

Channels == \A e \in Ends : Channel(e)

(* Each end is the peer of the other. *)
LEMMA Peers ==
  ASSUME NEW e \in Ends
  PROVE  /\ peer(e) \in Ends /\ peer(e) # e /\ peer(peer(e)) = e
         /\ \A x \in Ends : x = e \/ x = peer(e)
BY DEF Ends, peer

(* What an end does with the N(R) of the frame that it reads ... *)
TakesAck(e) ==
  \/ UNCHANGED <<sentASDUs, acked>>
  \/ Acknowledges(Head(wire[e])) /\ Confirm(e, Head(wire[e]).nr)

(* ... and with the frame: un are not confirmed then.  *)
TakesData(e, un) ==
  \/ UNCHANGED <<receiveCount, got>> /\ un = unconfirmed[e]
  \/ /\ Head(wire[e]).type = "I" /\ Head(wire[e]).ns = receiveCount[e]
     /\ receiveCount' = [receiveCount EXCEPT ![e] = (@ + 1) % SeqMod]
     /\ got' = [got EXCEPT ![e] = @ \cup {Head(wire[e]).id}]
     /\ un \in Nat

(* The acknowledgements that e sends from now on. *)
Answers1(e, fs, un) ==
  /\ \A i \in 1..Len(fs) : fs[i].type # "I"
  /\ DOMAIN unconfirmed' = Ends /\ unconfirmed'[peer(e)] = unconfirmed[peer(e)]
  /\ Answer(fs, receiveCount'[e], un, unconfirmed'[e])

(* An end reads a frame and answers: what it does to its own k-buffer, to  *)
(* what it receives, and what its answer acknowledges decide.              *)
LEMMA ReadStep ==
  ASSUME NEW e \in Ends, TypeOK, Domains, Channels, AcknowledgedWasReceived,
         wire[e] # <<>>, UNCHANGED <<link, sendCount>>,
         NEW fs, Reply(e, fs), TakesAck(e), NEW un, TakesData(e, un), Answers1(e, fs, un)
  PROVE  Channels' /\ Domains' /\ AcknowledgedWasReceived'
<1>1. PICK p \in Ends : p = peer(e) /\ p # e /\ peer(p) = e /\ \A x \in Ends : x = e \/ x = p
  BY Peers
<1>2. PICK ids, idsp, acks, data, rc, rcp, un0, unp, g, gp :
        /\ ids = sentASDUs[e] /\ idsp = sentASDUs[p]
        /\ acks = wire[e] /\ data = wire[p]
        /\ rc = receiveCount[e] /\ rcp = receiveCount[p]
        /\ un0 = unconfirmed[e] /\ unp = unconfirmed[p]
        /\ g = got[e] /\ gp = got[p]
  OBVIOUS
<1>3. PICK l, lp, sc, scp :
        /\ l = link[e] /\ lp = link[p] /\ sc = sendCount[e] /\ scp = sendCount[p]
  OBVIOUS
<1>4. /\ ChannelOK(l, ids, sc, acks, data, rcp, unp, gp)
      /\ ChannelOK(lp, idsp, scp, data, acks, rc, un0, g)
  BY <1>1, <1>2, <1>3 DEF Channels, Channel
<1>5. PICK data1 : data1 = IF l = "up" THEN data \o fs ELSE data
  OBVIOUS
<1>6. /\ wire'[e] = Tail(acks) /\ wire'[p] = data1 /\ DOMAIN wire' = Ends
      /\ link'[e] = l /\ link'[p] = lp /\ sendCount'[e] = sc /\ sendCount'[p] = scp
      /\ unconfirmed'[p] = unp /\ DOMAIN unconfirmed' = Ends
  BY <1>1, <1>2, <1>3, <1>5 DEF Reply, Domains, Answers1
<1>7. lp = "up" <=> l = "up"
  BY <1>1, <1>3 DEF TypeOK, Ends, peer
<1>8. Frames(fs) /\ \A i \in 1..Len(fs) : fs[i].type # "I"
  BY DEF Answers1, Answer
<1>9. /\ sentASDUs'[p] = idsp /\ DOMAIN sentASDUs' = Ends /\ DOMAIN acked' = Ends
      /\ acked'[p] = acked[p]
      /\ acked'[e] \ {0} \subseteq gp
      /\ ChannelOK(l, sentASDUs'[e], sc, Tail(acks), data, rcp, unp, gp)
  <2>1. CASE UNCHANGED <<sentASDUs, acked>>
    <3>1. ChannelOK(l, ids, sc, Tail(acks), data, rcp, unp, gp)
      BY <1>2, <1>4, ReadAck
    <3> QED
      BY <1>1, <1>2, <2>1, <3>1 DEF Domains, AcknowledgedWasReceived
  <2>2. CASE Acknowledges(Head(wire[e])) /\ Confirm(e, Head(wire[e]).nr)
    <3>1. PICK n : n = Distance(ids, sc, Head(acks).nr)
      OBVIOUS
    <3>2. /\ n \in 0..Len(ids)
          /\ \A i \in 1..n : ids[i] \in gp \cup {0}
          /\ ChannelOK(l, SubSeq(ids, n + 1, Len(ids)), sc, Tail(acks), data, rcp, unp, gp)
      BY <1>2, <1>4, <2>2, <3>1, ReadConfirm
    <3>3. acknowledges(e, Head(wire[e]).nr) = n
      BY <1>2, <1>3, <3>1 DEF acknowledges, Distance
    <3>4. /\ sentASDUs'[e] = SubSeq(ids, n + 1, Len(ids)) /\ sentASDUs'[p] = idsp
          /\ DOMAIN sentASDUs' = Ends /\ DOMAIN acked' = Ends
          /\ acked'[e] = acked[e] \cup Range(SubSeq(ids, 1, n)) /\ acked'[p] = acked[p]
      BY <1>1, <1>2, <2>2, <3>3 DEF Confirm, Domains
    <3>5. Range(SubSeq(ids, 1, n)) \subseteq gp \cup {0}
      <4>1. IsSeq(ids)
        BY <1>4 DEF ChannelOK
      <4>2. PICK s : s = SubSeq(ids, 1, n)
        OBVIOUS
      <4>3. IsSeq(s) /\ Len(s) = n /\ \A i \in 1..n : s[i] = ids[i]
        BY <3>2, <4>1, <4>2, SeqPrefix
      <4>4. DOMAIN s = 1..n
        BY <4>3, SeqFacts
      <4> QED
        BY <3>2, <4>2, <4>3, <4>4 DEF Range
    <3> QED
      BY <1>1, <1>2, <3>2, <3>4, <3>5 DEF AcknowledgedWasReceived
  <2> QED
    BY <2>1, <2>2 DEF TakesAck
<1>10. Channel(e)'
  <2>1. /\ receiveCount'[p] = rcp /\ got'[p] = gp
    BY <1>1, <1>2 DEF TakesData, TypeOK, Domains
  <2>2. PICK ids1 : ids1 = sentASDUs'[e]
    OBVIOUS
  <2>3. PICK acks1 : acks1 = Tail(acks)
    OBVIOUS
  <2>4. ChannelOK(l, ids1, sc, acks1, data, rcp, unp, gp)
    BY <1>9, <2>2, <2>3
  <2>5. ChannelOK(l, ids1, sc, acks1, data1, rcp, unp, gp)
    BY <1>5, <1>8, <2>4, WriteData
  <2> QED
    BY <1>1, <1>6, <2>1, <2>2, <2>3, <2>5 DEF Channel, peer
<1>11. /\ Channel(p)' /\ DOMAIN got' = Ends /\ got'[p] = gp /\ g \subseteq got'[e]
  <2>1. PICK rc1, un1, g1 : rc1 = receiveCount'[e] /\ un1 = unconfirmed'[e] /\ g1 = got'[e]
    OBVIOUS
  <2>2. /\ ChannelOK(lp, idsp, scp, data, Tail(acks), rc1, un, g1)
        /\ DOMAIN got' = Ends /\ got'[p] = gp /\ g \subseteq g1
    <3>1. CASE UNCHANGED <<receiveCount, got>> /\ un = unconfirmed[e]
      <4>1. ChannelOK(lp, idsp, scp, data, Tail(acks), rc, un0, g)
        BY <1>2, <1>4, ReadData
      <4> QED
        BY <1>2, <2>1, <3>1, <4>1 DEF Domains
    <3>2. CASE /\ Head(wire[e]).type = "I" /\ Head(wire[e]).ns = receiveCount[e]
               /\ receiveCount' = [receiveCount EXCEPT ![e] = (@ + 1) % SeqMod]
               /\ got' = [got EXCEPT ![e] = @ \cup {Head(wire[e]).id}]
               /\ un \in Nat
      <4>1. PICK f : f = Head(acks)
        OBVIOUS
      <4>2. /\ rc1 = (rc + 1) % SeqMod /\ g1 = g \cup {f.id} /\ got'[p] = gp /\ DOMAIN got' = Ends
        BY <1>1, <1>2, <2>1, <3>2, <4>1 DEF Domains, TypeOK
      <4>3. f.type = "I" /\ f.ns = rc /\ acks # <<>> /\ un \in Nat
        BY <1>2, <3>2, <4>1
      <4>4. ChannelOK(lp, idsp, scp, data, Tail(acks), rc1, un, g1)
        BY <1>4, <4>1, <4>2, <4>3, ReadAccept
      <4> QED
        BY <4>2, <4>4
    <3> QED
      BY <3>1, <3>2 DEF TakesData
  <2>3. Answer(fs, rc1, un, un1)
    BY <2>1 DEF Answers1
  <2>4. PICK acks1 : acks1 = Tail(acks)
    OBVIOUS
  <2>5. data1 = IF lp = "up" THEN data \o fs ELSE data
    BY <1>5, <1>7
  <2>6. ChannelOK(lp, idsp, scp, data1, acks1, rc1, un1, g1)
    BY <2>2, <2>3, <2>4, <2>5, WriteAck
  <2> QED
    BY <1>1, <1>6, <1>9, <2>1, <2>2, <2>4, <2>6 DEF Channel, peer
<1>12. Channels'
  BY <1>1, <1>10, <1>11 DEF Channels
<1>13. AcknowledgedWasReceived'
  <2>1. acked'[e] \ {0} \subseteq got'[p]
    BY <1>9, <1>11
  <2>2. acked'[p] \ {0} \subseteq got'[e]
    BY <1>1, <1>2, <1>9, <1>11 DEF AcknowledgedWasReceived
  <2> QED
    BY <1>1, <2>1, <2>2 DEF AcknowledgedWasReceived
<1> QED
  BY <1>6, <1>9, <1>11, <1>12, <1>13 DEF Domains

(* An end writes frames that are no I frames, or only counts what it has   *)
(* confirmed.                                                              *)
LEMMA WriteStep ==
  ASSUME NEW e \in Ends, TypeOK, Domains, Channels, AcknowledgedWasReceived,
         UNCHANGED <<link, sendCount, sentASDUs, receiveCount, got, acked>>,
         NEW fs, Transmit(e, fs), Answers1(e, fs, unconfirmed[e])
  PROVE  Channels' /\ Domains' /\ AcknowledgedWasReceived'
<1>1. PICK p \in Ends : p = peer(e) /\ p # e /\ peer(p) = e /\ \A x \in Ends : x = e \/ x = p
  BY Peers
<1>2. PICK ids, idsp, acks, data, rc, rcp, un0, unp, g, gp :
        /\ ids = sentASDUs[e] /\ idsp = sentASDUs[p]
        /\ acks = wire[e] /\ data = wire[p]
        /\ rc = receiveCount[e] /\ rcp = receiveCount[p]
        /\ un0 = unconfirmed[e] /\ unp = unconfirmed[p]
        /\ g = got[e] /\ gp = got[p]
  OBVIOUS
<1>3. PICK l, lp, sc, scp :
        /\ l = link[e] /\ lp = link[p] /\ sc = sendCount[e] /\ scp = sendCount[p]
  OBVIOUS
<1>4. /\ ChannelOK(l, ids, sc, acks, data, rcp, unp, gp)
      /\ ChannelOK(lp, idsp, scp, data, acks, rc, un0, g)
  BY <1>1, <1>2, <1>3 DEF Channels, Channel
<1>5. PICK data1 : data1 = IF l = "up" THEN data \o fs ELSE data
  OBVIOUS
<1>6. /\ wire'[e] = acks /\ wire'[p] = data1
      /\ link'[e] = l /\ link'[p] = lp /\ sendCount'[e] = sc /\ sendCount'[p] = scp
      /\ unconfirmed'[p] = unp
  BY <1>1, <1>2, <1>3, <1>5 DEF Transmit, Domains, Answers1
<1>7. lp = "up" <=> l = "up"
  BY <1>1, <1>3 DEF TypeOK, Ends, peer
<1>8. Frames(fs) /\ \A i \in 1..Len(fs) : fs[i].type # "I"
  BY DEF Answers1, Answer
<1>9. Channel(e)'
  <2>1. ChannelOK(l, ids, sc, acks, data1, rcp, unp, gp)
    BY <1>4, <1>5, <1>8, WriteData
  <2> QED
    BY <1>1, <1>2, <1>6, <2>1 DEF Channel, peer
<1>10. Channel(p)'
  <2>1. PICK un1 : un1 = unconfirmed'[e]
    OBVIOUS
  <2>2. Answer(fs, rc, un0, un1)
    BY <1>2, <2>1 DEF Answers1
  <2>3. data1 = IF lp = "up" THEN data \o fs ELSE data
    BY <1>5, <1>7
  <2>4. ChannelOK(lp, idsp, scp, data1, acks, rc, un1, g)
    BY <1>4, <2>2, <2>3, WriteAck
  <2> QED
    BY <1>1, <1>2, <1>6, <2>1, <2>4 DEF Channel, peer
<1>11. Channels'
  BY <1>1, <1>9, <1>10 DEF Channels
<1>12. Domains'
  BY DEF Domains, Transmit, Answers1
<1>13. AcknowledgedWasReceived'
  BY DEF AcknowledgedWasReceived, peer
<1> QED
  BY <1>11, <1>12, <1>13

(* An end sends an I frame behind the frames fs, or counts it only. *)
LEMMA SendStep ==
  ASSUME NEW e \in Ends, TypeOK, Domains, Channels, AcknowledgedWasReceived,
         UNCHANGED <<link, receiveCount, got, acked>>,
         NEW id, ~isSentBufferFull(e), SendIMessage(e, id),
         NEW fs, Answer(fs, receiveCount[e], unconfirmed[e], 0),
         \A i \in 1..Len(fs) : fs[i].type # "I",
         \/ Transmit(e, Append(fs, I(e, id)))
         \/ DOMAIN wire' = Ends /\ \A x \in Ends : wire'[x] = wire[x]
  PROVE  Channels' /\ Domains' /\ AcknowledgedWasReceived'
<1>1. PICK p \in Ends : p = peer(e) /\ p # e /\ peer(p) = e /\ \A x \in Ends : x = e \/ x = p
  BY Peers
<1>2. PICK ids, idsp, acks, data, rc, rcp, un0, unp, g, gp :
        /\ ids = sentASDUs[e] /\ idsp = sentASDUs[p]
        /\ acks = wire[e] /\ data = wire[p]
        /\ rc = receiveCount[e] /\ rcp = receiveCount[p]
        /\ un0 = unconfirmed[e] /\ unp = unconfirmed[p]
        /\ g = got[e] /\ gp = got[p]
  OBVIOUS
<1>3. PICK l, lp, sc, scp :
        /\ l = link[e] /\ lp = link[p] /\ sc = sendCount[e] /\ scp = sendCount[p]
  OBVIOUS
<1>4. /\ ChannelOK(l, ids, sc, acks, data, rcp, unp, gp)
      /\ ChannelOK(lp, idsp, scp, data, acks, rc, un0, g)
  BY <1>1, <1>2, <1>3 DEF Channels, Channel
<1>5. /\ Frames(fs) /\ Frames(data) /\ sc \in SeqNos /\ rc \in SeqNos /\ Len(ids) # k
  BY <1>2, <1>4 DEF Answer, ChannelOK, isSentBufferFull
<1>6. PICK f : f = I(e, id)
  OBVIOUS
<1>7. /\ f.type = "I" /\ f.ns = sc /\ f.nr = rc /\ f.id = id /\ FrameOK(f) /\ Acknowledges(f)
  BY <1>2, <1>3, <1>5, <1>6 DEF I, FrameOK, Acknowledges
<1>8. PICK fs1 : fs1 = Append(fs, f)
  OBVIOUS
<1>9. /\ Frames(fs1) /\ Len(fs) \in Nat /\ Len(fs1) = Len(fs) + 1
      /\ \A i \in 1..Len(fs) : fs1[i] = fs[i]
      /\ fs1[Len(fs) + 1] = f
  <2>1. /\ IsSeq(fs1) /\ Len(fs) \in Nat /\ Len(fs1) = Len(fs) + 1
        /\ \A i \in 1..Len(fs) : fs1[i] = fs[i]
        /\ fs1[Len(fs) + 1] = f
    BY <1>5, <1>8, SeqAppend DEF Frames
  <2>2. \A i \in 1..Len(fs1) : FrameOK(fs1[i])
    <3>1. \A i \in 1..Len(fs1) : i \in 1..Len(fs) \/ i = Len(fs) + 1
      BY <2>1
    <3> QED
      BY <1>5, <1>7, <2>1, <3>1 DEF Frames
  <2> QED
    BY <2>1, <2>2 DEF Frames
<1>10. Answer(fs1, rc, un0, 0)
  <2>1. ASSUME NEW i \in 1..Len(fs1)
        PROVE  /\ Acknowledges(fs1[i]) => fs1[i].nr = rc
               /\ fs1[i].type = "S" => i = 1 /\ un0 > 0
    <3>1. i \in 1..Len(fs) \/ i = Len(fs) + 1
      BY <1>9
    <3>2. CASE i \in 1..Len(fs)
      BY <1>2, <1>9, <3>2 DEF Answer
    <3>3. CASE i = Len(fs) + 1
      BY <1>7, <1>9, <3>3
    <3> QED
      BY <3>1, <3>2, <3>3
  <2> QED
    BY <1>9, <2>1 DEF Answer
<1>11. PICK ids1, sc1 : ids1 = Append(ids, id) /\ sc1 = (sc + 1) % SeqMod
  OBVIOUS
<1>12. /\ link'[e] = l /\ link'[p] = lp
       /\ sendCount'[e] = sc1 /\ sendCount'[p] = scp
       /\ sentASDUs'[e] = ids1 /\ sentASDUs'[p] = idsp
       /\ unconfirmed'[e] = 0 /\ unconfirmed'[p] = unp
  BY <1>1, <1>2, <1>3, <1>11 DEF SendIMessage, Domains, TypeOK
<1>13. lp = "up" <=> l = "up"
  BY <1>1, <1>3 DEF TypeOK, Ends, peer
<1>14. ASSUME l = "up" /\ Transmit(e, Append(fs, I(e, id)))
       PROVE  Channels'
  <2>1. PICK data0, data1 : data0 = data \o fs /\ data1 = data \o fs1
    OBVIOUS
  <2>2. data1 = Append(data0, f)
    <3>1. PICK D : data \in Seq(D)
      BY <1>5 DEF Frames, IsSeq
    <3>2. PICK T : fs \in Seq(T)
      BY <1>5 DEF Frames, IsSeq
    <3>3. data \in Seq(D \cup T \cup {f}) /\ fs \in Seq(D \cup T \cup {f}) /\ f \in D \cup T \cup {f}
      BY <3>1, <3>2
    <3>4. data \o Append(fs, f) = Append(data \o fs, f)
      BY <3>3
    <3> QED
      BY <1>8, <2>1, <3>4
  <2>3. wire'[e] = acks /\ wire'[p] = data1
    BY <1>1, <1>2, <1>3, <1>6, <1>8, <1>14, <2>1 DEF Transmit, Domains
  <2>4. ChannelOK(l, ids, sc, acks, data0, rcp, unp, gp)
    <3>1. data0 = IF l = "up" THEN data \o fs ELSE data
      BY <1>14, <2>1
    <3> QED
      BY <1>4, <1>5, <3>1, WriteData
  <2>5. ChannelOK(l, ids1, sc1, acks, data1, rcp, unp, gp)
    BY <1>5, <1>7, <1>11, <2>2, <2>4, SendData
  <2>6. ChannelOK(lp, idsp, scp, data1, acks, rc, 0, g)
    <3>1. data1 = IF lp = "up" THEN data \o fs1 ELSE data
      BY <1>13, <1>14, <2>1
    <3> QED
      BY <1>4, <1>10, <3>1, WriteAck
  <2> QED
    BY <1>1, <1>2, <1>12, <2>3, <2>5, <2>6 DEF Channels, Channel, peer
<1>15. ASSUME (\A x \in Ends : wire'[x] = wire[x]) \/ (l # "up" /\ Transmit(e, Append(fs, I(e, id))))
       PROVE  Channels'
  <2>1. wire'[e] = acks /\ wire'[p] = data
    BY <1>1, <1>2, <1>3, <1>15 DEF Transmit
  <2>2. ChannelOK(l, ids1, sc1, acks, data, rcp, unp, gp)
    BY <1>4, <1>5, <1>7, <1>11, SendData
  <2>3. ChannelOK(lp, idsp, scp, data, acks, rc, 0, g)
    <3>1. PICK none : none = <<>> 
      OBVIOUS
    <3>2. Answer(none, rc, un0, 0)
      <4>1. none \in Seq({}) /\ Len(none) = 0
        BY <3>1
      <4>2. IsSeq(none)
        BY <4>1, IsSeqOf
      <4> QED
        BY <4>1, <4>2 DEF Answer, Frames
    <3>3. data \o none = data
      <4>1. PICK D : data \in Seq(D)
        BY <1>5 DEF Frames, IsSeq
      <4> QED
        BY <3>1, <4>1
    <3>4. data = IF lp = "up" THEN data \o none ELSE data
      BY <3>3
    <3> QED
      BY <1>4, <3>2, <3>4, WriteAck
  <2> QED
    BY <1>1, <1>2, <1>12, <2>1, <2>2, <2>3 DEF Channels, Channel, peer
<1>16. Channels'
  BY <1>14, <1>15
<1>17. Domains'
  BY DEF Domains, Transmit, SendIMessage
<1>18. AcknowledgedWasReceived'
  BY DEF AcknowledgedWasReceived, peer
<1> QED
  BY <1>16, <1>17, <1>18

(* Nothing is under way. *)
LEMMA EmptyFrames == Frames(<<>>) /\ Len(<<>>) = 0 /\ IsSeq(<<>>)
<1>1. PICK none : none = <<>>
  OBVIOUS
<1>2. none \in Seq({}) /\ Len(none) = 0
  BY <1>1
<1>3. IsSeq(none)
  BY <1>2, IsSeqOf
<1> QED
  BY <1>1, <1>2, <1>3 DEF Frames

(* An end closes its socket, after a last acknowledgement. *)
LEMMA CloseStep ==
  ASSUME NEW e \in Ends, TypeOK, Domains, Channels, AcknowledgedWasReceived,
         UNCHANGED <<sendCount, sentASDUs, receiveCount, got, acked>>,
         NEW fs, CloseSocket(e, fs), Answers1(e, fs, unconfirmed[e])
  PROVE  Channels' /\ Domains' /\ AcknowledgedWasReceived'
<1>1. PICK p \in Ends : p = peer(e) /\ p # e /\ peer(p) = e /\ \A x \in Ends : x = e \/ x = p
  BY Peers
<1>2. PICK ids, idsp, acks, data, rc, rcp, un0, unp, g, gp :
        /\ ids = sentASDUs[e] /\ idsp = sentASDUs[p]
        /\ acks = wire[e] /\ data = wire[p]
        /\ rc = receiveCount[e] /\ rcp = receiveCount[p]
        /\ un0 = unconfirmed[e] /\ unp = unconfirmed[p]
        /\ g = got[e] /\ gp = got[p]
  OBVIOUS
<1>3. PICK l, lp, sc, scp :
        /\ l = link[e] /\ lp = link[p] /\ sc = sendCount[e] /\ scp = sendCount[p]
  OBVIOUS
<1>4. /\ ChannelOK(l, ids, sc, acks, data, rcp, unp, gp)
      /\ ChannelOK(lp, idsp, scp, data, acks, rc, un0, g)
  BY <1>1, <1>2, <1>3 DEF Channels, Channel
<1>5. lp = "up" <=> l = "up"
  BY <1>1, <1>3 DEF TypeOK, Ends, peer
<1>6. PICK l1, lp1, un1, none : l1 = link'[e] /\ lp1 = link'[p] /\ un1 = unconfirmed'[e] /\ none = <<>>
  OBVIOUS
<1>7. l1 # "up" /\ lp1 # "up"
  BY <1>1, <1>3, <1>5, <1>6 DEF CloseSocket, TypeOK
<1>8. un1 \in Nat /\ unp \in Nat /\ Answer(fs, rc, un0, un1)
  BY <1>2, <1>4, <1>6 DEF Answers1, Answer, ChannelOK
<1>9. Frames(none) /\ IsSeq(none) /\ Len(none) = 0
  BY <1>6, EmptyFrames
<1>10. PICK data1 : data1 = IF l = "up" THEN data \o fs ELSE data
  OBVIOUS
<1>11. Frames(data) /\ Frames(data1) /\ Len(acks) \in Nat /\ Len(data) \in Nat /\ Len(data1) \in Nat
  <2>1. Frames(data) /\ Frames(acks) /\ Frames(fs)
    BY <1>4, <1>8 DEF ChannelOK, Answer
  <2>2. Frames(data1)
    BY <1>10, <2>1, FramesConcat
  <2> QED
    BY <2>1, <2>2, SeqFacts DEF Frames
<1>12. /\ wire'[e] = none /\ DOMAIN wire' = Ends
       /\ wire'[p] = data1 \/ wire'[p] = none
       /\ unconfirmed'[p] = unp
  BY <1>1, <1>2, <1>3, <1>6, <1>10 DEF CloseSocket, Domains, Answers1
<1>13. Channel(e)'
  <2>1. PICK d : d = wire'[p] /\ Frames(d)
    BY <1>9, <1>11, <1>12
  <2>2. ChannelOK(l1, ids, sc, none, d, rcp, unp, gp)
    <3>1. \A i \in 1..Len(none) : none[i] = acks[i]
      BY <1>9
    <3> QED
      BY <1>4, <1>7, <1>8, <1>9, <1>11, <2>1, <3>1, Cut
  <2> QED
    BY <1>1, <1>2, <1>3, <1>6, <1>12, <2>1, <2>2 DEF Channel, peer
<1>14. Channel(p)'
  <2>1. ChannelOK(lp, idsp, scp, data1, acks, rc, un1, g)
    <3>1. data1 = IF lp = "up" THEN data \o fs ELSE data
      BY <1>5, <1>10
    <3> QED
      BY <1>4, <1>8, <3>1, WriteAck
  <2>2. PICK d : d = wire'[p] /\ Frames(d) /\ (d = data1 \/ d = none)
    BY <1>9, <1>11, <1>12
  <2>3. /\ IsSeq(d) /\ Len(d) <= Len(data1)
        /\ \A i \in 1..Len(d) : d[i] = data1[i]
    BY <1>9, <1>11, <2>2 DEF Frames
  <2>4. ChannelOK(lp1, idsp, scp, d, none, rc, un1, g)
    BY <1>7, <1>8, <1>9, <2>1, <2>3, Cut
  <2> QED
    BY <1>1, <1>2, <1>3, <1>6, <1>12, <2>2, <2>4 DEF Channel, peer
<1>15. Channels'
  BY <1>1, <1>12, <1>13, <1>14 DEF Channels
<1>16. Domains'
  BY <1>12 DEF Domains, Answers1
<1>17. AcknowledgedWasReceived'
  BY DEF AcknowledgedWasReceived, peer
<1> QED
  BY <1>15, <1>16, <1>17

(* The connection breaks. *)
LEMMA BreakStep ==
  ASSUME TypeOK, Domains, Channels, AcknowledgedWasReceived, Break
  PROVE  Channels' /\ Domains' /\ AcknowledgedWasReceived'
<1>1. PICK n \in [Ends -> 0..(2 * k)] :
        wire' = [e \in Ends |-> SubSeq(wire[e], 1, IF n[e] < Len(wire[e]) THEN n[e] ELSE Len(wire[e]))]
  BY DEF Break
<1>2. UNCHANGED <<sendCount, sentASDUs, receiveCount, unconfirmed, got>> /\ \A e \in Ends : link'[e] = "lost"
  BY DEF Break, counters
<1>3. ASSUME NEW e \in Ends
      PROVE  /\ Frames(wire'[e]) /\ IsSeq(wire'[e]) /\ Len(wire'[e]) <= Len(wire[e])
             /\ \A i \in 1..Len(wire'[e]) : wire'[e][i] = wire[e][i]
  <2>1. Frames(wire[e])
    BY DEF Channels, Channel, ChannelOK
  <2>2. Len(wire[e]) \in Nat
    BY <2>1, SeqFacts DEF Frames
  <2>3. PICK m \in 0..Len(wire[e]) : m = IF n[e] < Len(wire[e]) THEN n[e] ELSE Len(wire[e])
    <3>1. n[e] \in Nat
      BY APCIAssumption
    <3> QED
      BY <2>2, <3>1
  <2>4. PICK s, s1 : s = wire[e] /\ s1 = SubSeq(s, 1, m)
    OBVIOUS
  <2>5. wire'[e] = s1
    BY <1>1, <2>3, <2>4
  <2>6. /\ IsSeq(s1) /\ Len(s) \in Nat /\ Len(s1) = m
        /\ \A i \in 1..m : s1[i] = s[i]
    BY <2>1, <2>3, <2>4, SeqPrefix DEF Frames
  <2>7. Frames(s1)
    BY <2>1, <2>3, <2>4, <2>6 DEF Frames
  <2> QED
    BY <2>3, <2>4, <2>5, <2>6, <2>7
<1>4. ASSUME NEW e \in Ends
      PROVE  Channel(e)'
  <2>1. PICK p \in Ends : p = peer(e)
    BY Peers
  <2>2. PICK l, ids, sc, acks, data, rc, un, g :
          /\ l = link[e] /\ ids = sentASDUs[e] /\ sc = sendCount[e] /\ acks = wire[e] /\ data = wire[p]
          /\ rc = receiveCount[p] /\ un = unconfirmed[p] /\ g = got[p]
    OBVIOUS
  <2>3. ChannelOK(l, ids, sc, acks, data, rc, un, g)
    BY <2>1, <2>2 DEF Channels, Channel
  <2>4. un \in Nat
    BY <2>3 DEF ChannelOK
  <2>5. PICK l1, acks1, data1 : l1 = link'[e] /\ acks1 = wire'[e] /\ data1 = wire'[p]
    OBVIOUS
  <2>6. /\ l1 # "up" /\ Frames(data1) /\ IsSeq(acks1) /\ Len(acks1) <= Len(acks)
        /\ \A i \in 1..Len(acks1) : acks1[i] = acks[i]
    BY <1>2, <1>3, <2>2, <2>5
  <2>7. ChannelOK(l1, ids, sc, acks1, data1, rc, un, g)
    BY <2>3, <2>4, <2>6, Cut
  <2> QED
    BY <1>2, <2>1, <2>2, <2>5, <2>7 DEF Channel, peer
<1>5. Channels'
  BY <1>1, <1>4 DEF Channels
<1>6. Domains'
  BY <1>1, <1>2 DEF Domains, Break
<1>7. AcknowledgedWasReceived'
  BY DEF AcknowledgedWasReceived, peer, Break
<1> QED
  BY <1>5, <1>6, <1>7

(* Nothing under way and nothing in the k-buffer. *)
LEMMA FreshChannel ==
  ASSUME NEW l, NEW rc, NEW un, NEW g, NEW data, Frames(data), rc \in SeqNos, un \in Nat,
         l = "up" => rc = 0 /\ un = 0 /\ Len(data) = 0
  PROVE  ChannelOK(l, <<>>, 0, <<>>, data, rc, un, g)
<1>1. PICK none : none = <<>>
  OBVIOUS
<1>2. Frames(none) /\ Len(none) = 0 /\ IsSeq(none)
  BY <1>1, EmptyFrames
<1>3. 0 \in SeqNos /\ 0 \in 0..k
  BY APCIAssumption DEF SeqNos
<1>4. Distance(none, 0, 0) = 0
  <2>1. (0 - 0 + 0) % SeqMod = 0
    BY <1>3, DistanceSelf
  <2> QED
    BY <1>2, <2>1 DEF Distance
<1>5. AcknowledgedUpTo(0, none, 0, none, g) /\ (l = "up" => Carried(0, none, 0, data))
  BY <1>2 DEF AcknowledgedUpTo, Carried
<1>6. ChannelOK(l, none, 0, none, data, rc, un, g)
  <2>1. /\ IsSeq(none) /\ Len(none) <= k
        /\ 0 \in 0..Len(none)
    BY <1>2, <1>3
  <2>2. l = "up" => 0 = Distance(none, 0, rc) /\ ~(un > 0)
    BY <1>4
  <2> QED
    BY <1>2, <1>3, <1>5, <2>1, <2>2 DEF ChannelOK
<1> QED
  BY <1>1, <1>6

(* A step that leaves the socket and the counters alone. *)
LEMMA SameStep ==
  ASSUME Channels, Domains, AcknowledgedWasReceived, UNCHANGED <<socket, counters, got, acked>>
  PROVE  Channels' /\ Domains' /\ AcknowledgedWasReceived'
BY DEF Channels, Channel, Domains, AcknowledgedWasReceived, socket, counters, peer

(* An optional S frame c and other frames us make an answer. *)
LEMMA AnswerFrames ==
  ASSUME NEW rc \in SeqNos, NEW un, NEW un1 \in Nat, NEW c, NEW us,
         c = <<>> \/ (un > 0 /\ \E s : c = <<s>> /\ s.type = "S" /\ s.nr = rc),
         Frames(us), \A i \in 1..Len(us) : ~Acknowledges(us[i]),
         un1 > 0 => un > 0 /\ c = <<>>
  PROVE  /\ Answer(c \o us, rc, un, un1)
         /\ \A i \in 1..Len(c \o us) : (c \o us)[i].type # "I"
<1>1. /\ Frames(c) /\ Len(c) \in {0, 1}
      /\ \A i \in 1..Len(c) : i = 1 /\ c[i].type = "S" /\ c[i].nr = rc /\ un > 0
      /\ un1 > 0 => Len(c) = 0
  <2>1. CASE c = <<>>
    BY <2>1, EmptyFrames
  <2>2. CASE un > 0 /\ \E s : c = <<s>> /\ s.type = "S" /\ s.nr = rc
    <3>1. PICK s : c = <<s>> /\ s.type = "S" /\ s.nr = rc
      BY <2>2
    <3>2. c \in Seq({s}) /\ Len(c) = 1 /\ c[1] = s /\ c # <<>>
      BY <3>1
    <3>3. IsSeq(c)
      BY <3>2, IsSeqOf
    <3>4. FrameOK(s)
      BY <3>1 DEF FrameOK, Acknowledges
    <3> QED
      BY <2>2, <3>1, <3>2, <3>3, <3>4 DEF Frames
  <2> QED
    BY <2>1, <2>2
<1>2. PICK fs : fs = c \o us
  OBVIOUS
<1>3. /\ Len(c) \in Nat /\ Len(us) \in Nat /\ Len(fs) = Len(c) + Len(us) /\ Frames(fs)
      /\ \A i \in 1..Len(c) : fs[i] = c[i]
      /\ \A i \in 1..Len(us) : fs[Len(c) + i] = us[i]
  <2>1. /\ Len(c) \in Nat /\ Len(us) \in Nat /\ Len(fs) = Len(c) + Len(us)
        /\ \A i \in 1..Len(c) : fs[i] = c[i]
        /\ \A i \in 1..Len(us) : fs[Len(c) + i] = us[i]
    BY <1>1, <1>2, SeqConcat DEF Frames
  <2> QED
    BY <1>1, <1>2, <2>1, FramesConcat
<1>4. ASSUME NEW i \in 1..Len(fs)
      PROVE  \/ i = 1 /\ Len(c) = 1 /\ un > 0 /\ fs[i].type = "S" /\ fs[i].nr = rc
             \/ ~Acknowledges(fs[i])
  <2>1. CASE i \in 1..Len(c)
    BY <1>1, <1>3, <2>1
  <2>2. CASE i > Len(c)
    <3>1. PICK m \in 1..Len(us) : i = Len(c) + m
      <4>1. i - Len(c) \in 1..Len(us) /\ i = Len(c) + (i - Len(c))
        BY <1>3, <2>2
      <4> QED
        BY <4>1
    <3> QED
      BY <1>3, <3>1
  <2> QED
    BY <1>3, <2>1, <2>2
<1>5. \A i \in 1..Len(fs) : fs[i].type # "I"
  BY <1>4 DEF Acknowledges
<1>6. Answer(fs, rc, un, un1)
  <2>1. \A i \in 1..Len(fs) : fs[i].type = "S" => i = 1 /\ un > 0
    BY <1>4 DEF Acknowledges
  <2>2. \A i \in 1..Len(fs) : Acknowledges(fs[i]) => fs[i].nr = rc
    BY <1>4
  <2>3. un1 > 0 => un > 0 /\ \A i \in 1..Len(fs) : ~Acknowledges(fs[i])
    BY <1>1, <1>4
  <2> QED
    BY <1>3, <2>1, <2>2, <2>3 DEF Answer
<1> QED
  BY <1>2, <1>5, <1>6

(* A U frame by itself acknowledges nothing. *)
LEMMA PlainFrame ==
  ASSUME NEW u, ~Acknowledges(u)
  PROVE  Frames(<<u>>) /\ \A i \in 1..Len(<<u>>) : ~Acknowledges(<<u>>[i])
<1>1. PICK s : s = <<u>>
  OBVIOUS
<1>2. s \in Seq({u}) /\ Len(s) = 1 /\ s[1] = u
  BY <1>1
<1>3. IsSeq(s)
  BY <1>2, IsSeqOf
<1>4. FrameOK(u)
  BY DEF FrameOK, Acknowledges
<1> QED
  BY <1>1, <1>2, <1>3, <1>4 DEF Frames

(* Writing nothing changes nothing. *)
LEMMA ConcatEmpty ==
  ASSUME NEW s, IsSeq(s)
  PROVE  s \o <<>> = s /\ <<>> \o s = s
<1>1. PICK T : s \in Seq(T)
  BY DEF IsSeq
<1> QED
  BY <1>1, ConcatEmptySeq

(* The same without the other frames. *)
LEMMA AnswerConfirm ==
  ASSUME NEW rc \in SeqNos, NEW un, NEW un1 \in Nat, NEW c,
         c = <<>> \/ (un > 0 /\ \E s : c = <<s>> /\ s.type = "S" /\ s.nr = rc),
         un1 > 0 => un > 0 /\ c = <<>>
  PROVE  Answer(c, rc, un, un1) /\ \A i \in 1..Len(c) : c[i].type # "I"
<1>1. PICK us : us = <<>>
  OBVIOUS
<1>2. Frames(us) /\ \A i \in 1..Len(us) : ~Acknowledges(us[i])
  BY <1>1, EmptyFrames
<1>3. c \o us = c
  <2>1. CASE c = <<>>
    BY <1>1, <2>1
  <2>2. CASE \E s : c = <<s>>
    <3>1. PICK s : c \in Seq({s})
      BY <2>2
    <3> QED
      BY <1>1, <3>1, ConcatEmptySeq
  <2> QED
    BY <2>1, <2>2
<1>4. /\ Answer(c \o us, rc, un, un1)
      /\ \A i \in 1..Len(c \o us) : (c \o us)[i].type # "I"
  BY <1>2, AnswerFrames
<1> QED
  BY <1>3, <1>4

(* Frames that acknowledge nothing are an answer. *)
LEMMA AnswerPlain ==
  ASSUME NEW rc \in SeqNos, NEW un \in Nat, NEW un1 \in Nat, NEW us,
         Frames(us), \A i \in 1..Len(us) : ~Acknowledges(us[i]), un1 = un \/ un1 = 0
  PROVE  Answer(us, rc, un, un1) /\ \A i \in 1..Len(us) : us[i].type # "I"
BY DEF Answer, Acknowledges

-----------------------------------------------------------------------------
(* The actions of the client *)

(* What the two channels say of the types of the values in them. *)
LEMMA ChannelTypes ==
  ASSUME Channels, NEW e \in Ends
  PROVE  /\ Frames(wire[e]) /\ IsSeq(sentASDUs[e])
         /\ receiveCount[e] \in SeqNos /\ unconfirmed[e] \in Nat
<1>1. PICK p \in Ends : p = peer(e) /\ peer(p) = e
  BY Peers
<1>2. Channel(e) /\ Channel(p)
  BY DEF Channels
<1> QED
  BY <1>1, <1>2 DEF Channel, ChannelOK

(* confirmationOf, without the CASE. *)
LEMMA ConfirmationOf ==
  ASSUME NEW type
  PROVE  confirmationOf(type) = IF type = "TESTFR_ACT" THEN <<U("TESTFR_CON")>>
                                ELSE IF type = "STARTDT_ACT" THEN <<U("STARTDT_CON")>> ELSE <<>>
<1>1. CASE type = "TESTFR_ACT"
  BY <1>1 DEF confirmationOf
<1>2. CASE type = "STARTDT_ACT"
  BY <1>2 DEF confirmationOf
<1>3. CASE type # "TESTFR_ACT" /\ type # "STARTDT_ACT"
  BY <1>3 DEF confirmationOf
<1> QED
  BY <1>1, <1>2, <1>3

(* receiveI, receiveS and receiveU keep the two channels. *)
LEMMA ClientReads ==
  ASSUME TypeOK, Domains, Channels, AcknowledgedWasReceived,
         receiveI \/ receiveS \/ receiveU
  PROVE  Channels' /\ Domains' /\ AcknowledgedWasReceived'
<1> DEFINE e == "client"
<1>0. e \in Ends /\ peer(e) = "server" /\ "server" \in Ends
  BY DEF Ends, peer
<1>1. receiveCount[e] \in SeqNos /\ unconfirmed[e] \in Nat
  BY <1>0, ChannelTypes
<1>2. PICK none : none = <<>> /\ Frames(none) /\ \A i \in 1..Len(none) : ~Acknowledges(none[i])
  BY EmptyFrames
<1>3. PICK f : f = Head(wire[e])
  OBVIOUS
<1>4. CASE receiveI
  <2>1. /\ wire[e] # <<>> /\ UNCHANGED <<link, sendCount>> /\ Reply(e, none) /\ f.type = "I"
    BY <1>2, <1>3, <1>4 DEF receiveI, received
  <2>2. CASE f.ns = receiveCount[e] /\ seqNoIsValid(e, f.nr)
    <3>1. Confirm(e, f.nr) /\ CountIMessage(e, f, FALSE)
      BY <1>3, <1>4, <2>2 DEF receiveI
    <3>2. TakesAck(e)
      BY <1>3, <2>1, <3>1 DEF TakesAck, Acknowledges
    <3>3. TakesData(e, 1)
      BY <1>3, <2>1, <2>2, <3>1 DEF TakesData, CountIMessage
    <3>4. receiveCount'[e] \in SeqNos
      <4>1. (receiveCount[e] + 1) % SeqMod \in SeqNos
        BY <1>1, SeqNoNext
      <4> QED
        BY <1>0, <3>1, <4>1 DEF CountIMessage, TypeOK
    <3>5. /\ unconfirmed'[e] = unconfirmed[e] + 1 /\ unconfirmed'["server"] = unconfirmed["server"]
          /\ DOMAIN unconfirmed' = Ends
      BY <1>0, <3>1 DEF CountIMessage, Domains
    <3>6. Answer(none, receiveCount'[e], 1, unconfirmed'[e])
      BY <1>1, <1>2, <3>5 DEF Answer, Acknowledges
    <3>7. Answers1(e, none, 1)
      BY <1>0, <1>2, <3>5, <3>6 DEF Answers1, Acknowledges
    <3> QED
      BY <1>0, <2>1, <3>2, <3>3, <3>7, ReadStep
  <2>3. CASE ~(f.ns = receiveCount[e] /\ seqNoIsValid(e, f.nr))
    <3>1. UNCHANGED <<sentASDUs, acked, receiveCount, unconfirmed, got>>
      BY <1>3, <1>4, <2>3 DEF receiveI
    <3>2. TakesAck(e) /\ TakesData(e, unconfirmed[e])
      BY <3>1 DEF TakesAck, TakesData
    <3>3. Answer(none, receiveCount'[e], unconfirmed[e], unconfirmed'[e])
      BY <1>1, <1>2, <3>1, AnswerPlain
    <3>4. Answers1(e, none, unconfirmed[e])
      BY <1>2, <3>1, <3>3 DEF Answers1, Domains, Acknowledges
    <3> QED
      BY <1>0, <2>1, <3>2, <3>4, ReadStep
  <2> QED
    BY <2>2, <2>3
<1>5. CASE receiveS
  <2>1. /\ wire[e] # <<>> /\ UNCHANGED <<link, sendCount, receiveCount, unconfirmed, got>> /\ Reply(e, none)
        /\ f.type = "S"
    BY <1>2, <1>3, <1>5 DEF receiveS, received
  <2>2. TakesAck(e)
    BY <1>3, <1>5, <2>1 DEF receiveS, TakesAck, Acknowledges
  <2>3. TakesData(e, unconfirmed[e])
    BY <2>1 DEF TakesData
  <2>4. Answer(none, receiveCount'[e], unconfirmed[e], unconfirmed'[e])
    BY <1>1, <1>2, <2>1, AnswerPlain
  <2>5. Answers1(e, none, unconfirmed[e])
    BY <1>2, <2>1, <2>4 DEF Answers1, Domains, Acknowledges
  <2> QED
    BY <1>0, <2>1, <2>2, <2>3, <2>5, ReadStep
<1>6. CASE receiveU
  <2>1. PICK us : us = ClientFrames(conState, confirmationOf(f.type))
    OBVIOUS
  <2>2. /\ wire[e] # <<>> /\ UNCHANGED <<link, sendCount, receiveCount, unconfirmed, got, sentASDUs, acked>>
        /\ Reply(e, us)
    BY <1>3, <1>6, <2>1 DEF receiveU, counters
  <2>3. Frames(us) /\ \A i \in 1..Len(us) : ~Acknowledges(us[i])
    <3>1. ~Acknowledges(U("TESTFR_CON")) /\ ~Acknowledges(U("STARTDT_CON"))
      BY DEF U, Acknowledges
    <3>2. us = <<>> \/ us = <<U("TESTFR_CON")>> \/ us = <<U("STARTDT_CON")>>
      BY <2>1, ConfirmationOf DEF ClientFrames
    <3> QED
      BY <1>2, <3>1, <3>2, PlainFrame
  <2>4. Answer(us, receiveCount'[e], unconfirmed[e], unconfirmed'[e])
    BY <1>1, <2>2, <2>3, AnswerPlain
  <2>5. Answers1(e, us, unconfirmed[e])
    BY <2>2, <2>3, <2>4 DEF Answers1, Domains, Acknowledges
  <2>6. TakesAck(e) /\ TakesData(e, unconfirmed[e])
    BY <2>2 DEF TakesAck, TakesData
  <2> QED
    BY <1>0, <2>2, <2>5, <2>6, ReadStep
<1> QED
  BY <1>4, <1>5, <1>6

(* What an iteration sends besides the confirmation. *)
LEMMA ClientIterates ==
  ASSUME TypeOK, Domains, Channels, AcknowledgedWasReceived,
         NEW t2, t2 => unconfirmed["client"] > 0, NEW frames, NEW stop, Iterate(t2, frames, stop),
         frames = <<>> \/ \E u : frames = <<u>> /\ ~Acknowledges(u)
  PROVE  Channels' /\ Domains' /\ AcknowledgedWasReceived'
<1> DEFINE e == "client"
<1>0. e \in Ends /\ peer(e) = "server" /\ "server" \in Ends
  BY DEF Ends, peer
<1>1. receiveCount[e] \in SeqNos /\ unconfirmed[e] \in Nat
  BY <1>0, ChannelTypes
<1>2. PICK c : c = IF mustConfirm \/ t2 THEN <<S("client")>> ELSE <<>>
  OBVIOUS
<1>3. PICK fs : fs = ClientFrames(conState, c \o frames)
  OBVIOUS
<1>4. /\ UNCHANGED <<link, sendCount, receiveCount, sentASDUs, got, acked>>
      /\ Transmit(e, fs)
      /\ unconfirmed' = IF c # <<>> THEN [unconfirmed EXCEPT ![e] = 0] ELSE unconfirmed
  BY <1>2, <1>3 DEF Iterate
<1>5. c = <<>> \/ (unconfirmed[e] > 0 /\ \E s : c = <<s>> /\ s.type = "S" /\ s.nr = receiveCount[e])
  <2>1. mustConfirm => unconfirmed[e] > 0
    BY <1>1, APCIAssumption DEF mustConfirm
  <2>2. S("client").type = "S" /\ S("client").nr = receiveCount[e]
    BY DEF S
  <2> QED
    BY <1>2, <2>1, <2>2
<1>6. PICK un1 : un1 = unconfirmed'[e]
  OBVIOUS
<1>7. /\ un1 \in Nat /\ (un1 > 0 => unconfirmed[e] > 0 /\ c = <<>>)
      /\ DOMAIN unconfirmed' = Ends /\ unconfirmed'["server"] = unconfirmed["server"]
  BY <1>0, <1>1, <1>4, <1>6 DEF Domains
<1>8. Frames(frames) /\ \A i \in 1..Len(frames) : ~Acknowledges(frames[i])
  BY EmptyFrames, PlainFrame
<1>9. Answer(fs, receiveCount[e], unconfirmed[e], un1) /\ \A i \in 1..Len(fs) : fs[i].type # "I"
  <2>1. CASE conState = "IDLE"
    <3>1. fs = <<>>
      BY <1>3, <2>1 DEF ClientFrames
    <3>2. Frames(fs) /\ Len(fs) = 0
      BY <3>1, EmptyFrames
    <3> QED
      BY <1>7, <3>2 DEF Answer
  <2>2. CASE conState # "IDLE"
    <3>1. fs = c \o frames
      BY <1>3, <2>2 DEF ClientFrames
    <3>2. /\ Answer(c \o frames, receiveCount[e], unconfirmed[e], un1)
          /\ \A i \in 1..Len(c \o frames) : (c \o frames)[i].type # "I"
      BY <1>1, <1>5, <1>7, <1>8, AnswerFrames
    <3> QED
      BY <3>1, <3>2
  <2> QED
    BY <2>1, <2>2
<1>10. Answers1(e, fs, unconfirmed[e])
  <2>1. receiveCount'[e] = receiveCount[e]
    BY <1>4
  <2> QED
    BY <1>0, <1>6, <1>7, <1>9, <2>1 DEF Answers1
<1> QED
  BY <1>0, <1>4, <1>10, WriteStep

(* The timers of the client, sendStartDT and sendStopDT keep the two       *)
(* channels.                                                               *)
LEMMA ClientWrites ==
  ASSUME TypeOK, Domains, Channels, AcknowledgedWasReceived,
         noTimeout \/ timeoutT2 \/ timeoutT3 \/ timeoutEnds \/ sendStartDT \/ sendStopDT
  PROVE  Channels' /\ Domains' /\ AcknowledgedWasReceived'
<1> DEFINE e == "client"
<1>0. e \in Ends /\ peer(e) = "server" /\ "server" \in Ends
  BY DEF Ends, peer
<1>1. receiveCount[e] \in SeqNos /\ unconfirmed[e] \in Nat
  BY <1>0, ChannelTypes
<1>2. ASSUME NEW type \in {"TESTFR_ACT", "STARTDT_ACT", "STOPDT_ACT"}
      PROVE  ~Acknowledges(U(type))
  BY DEF U, Acknowledges
<1>3. CASE noTimeout
  BY <1>3, ClientIterates DEF noTimeout
<1>4. CASE timeoutT2
  BY <1>4, ClientIterates DEF timeoutT2
<1>5. CASE timeoutT3
  <2>1. Iterate(FALSE, <<U("TESTFR_ACT")>>, FALSE)
    BY <1>5 DEF timeoutT3
  <2>2. ~Acknowledges(U("TESTFR_ACT"))
    BY <1>2
  <2> QED
    BY <2>1, <2>2, ClientIterates
<1>6. CASE timeoutEnds
  BY <1>6, ClientIterates DEF timeoutEnds
<1>7. CASE sendStartDT
  <2>1. PICK us : us = <<U("STARTDT_ACT")>>
    OBVIOUS
  <2>2. Frames(us) /\ \A i \in 1..Len(us) : ~Acknowledges(us[i])
    BY <1>2, <2>1, PlainFrame
  <2>3. /\ UNCHANGED <<link, sendCount, receiveCount, sentASDUs, unconfirmed, got, acked>>
        /\ Transmit(e, us)
    BY <1>7, <2>1 DEF sendStartDT, counters
  <2>4. Answer(us, receiveCount'[e], unconfirmed[e], unconfirmed'[e])
    BY <1>1, <2>2, <2>3, AnswerPlain
  <2>5. Answers1(e, us, unconfirmed[e])
    BY <2>2, <2>3, <2>4 DEF Answers1, Domains, Acknowledges
  <2> QED
    BY <1>0, <2>3, <2>5, WriteStep
<1>8. CASE sendStopDT
  <2>1. PICK c : c = IF unconfirmed["client"] > 0 THEN ClientFrames(conState, <<S("client")>>) ELSE <<>>
    OBVIOUS
  <2>2. PICK us : us = <<U("STOPDT_ACT")>>
    OBVIOUS
  <2>3. Frames(us) /\ \A i \in 1..Len(us) : ~Acknowledges(us[i])
    BY <1>2, <2>2, PlainFrame
  <2>4. PICK fs : fs = c \o us
    OBVIOUS
  <2>5. /\ UNCHANGED <<link, sendCount, receiveCount, sentASDUs, got, acked>>
        /\ Transmit(e, fs)
        /\ unconfirmed' = [unconfirmed EXCEPT ![e] = 0]
    BY <1>8, <2>1, <2>2, <2>4 DEF sendStopDT
  <2>6. c = <<>> \/ (unconfirmed[e] > 0 /\ \E s : c = <<s>> /\ s.type = "S" /\ s.nr = receiveCount[e])
    <3>1. S("client").type = "S" /\ S("client").nr = receiveCount[e]
      BY DEF S
    <3> QED
      BY <2>1, <3>1 DEF ClientFrames
  <2>7. /\ Answer(c \o us, receiveCount[e], unconfirmed[e], 0)
        /\ \A i \in 1..Len(c \o us) : (c \o us)[i].type # "I"
    <3>1. PICK un1 \in Nat : un1 = 0
      OBVIOUS
    <3>2. ~(un1 > 0)
      BY <3>1
    <3>3. /\ Answer(c \o us, receiveCount[e], unconfirmed[e], un1)
          /\ \A i \in 1..Len(c \o us) : (c \o us)[i].type # "I"
      BY <1>1, <2>3, <2>6, <3>2, AnswerFrames
    <3> QED
      BY <3>1, <3>3
  <2>8. /\ unconfirmed'[e] = 0 /\ unconfirmed'["server"] = unconfirmed["server"]
        /\ DOMAIN unconfirmed' = Ends /\ receiveCount'[e] = receiveCount[e]
    BY <1>0, <2>5 DEF Domains
  <2>9. Answers1(e, fs, unconfirmed[e])
    BY <1>0, <2>4, <2>7, <2>8 DEF Answers1
  <2> QED
    BY <1>0, <2>5, <2>9, WriteStep
<1> QED
  BY <1>3, <1>4, <1>5, <1>6, <1>7, <1>8

(* sendASDULocked keeps the two channels. *)
LEMMA ClientSends ==
  ASSUME TypeOK, Domains, Channels, AcknowledgedWasReceived, sendASDULocked
  PROVE  Channels' /\ Domains' /\ AcknowledgedWasReceived'
<1> DEFINE e == "client"
<1>0. e \in Ends
  BY DEF Ends
<1>1. receiveCount[e] \in SeqNos /\ unconfirmed[e] \in Nat /\ IsSeq(wire["server"]) /\ DOMAIN wire = Ends
  BY <1>0, ChannelTypes DEF Domains, Frames, Ends
<1>2. PICK id : id = 1 + budget.commands
  OBVIOUS
<1>3. UNCHANGED <<link, receiveCount, got, acked>>
  BY DEF sendASDULocked
<1>4. CASE isSentBufferFull(e)
  BY <1>4, SameStep DEF sendASDULocked, socket, counters
<1>5. CASE ~isSentBufferFull(e)
  <2>1. /\ SendIMessage(e, id)
        /\ Transmit(e, ClientFrames(conState, <<I(e, id)>>))
    BY <1>2, <1>5 DEF sendASDULocked
  <2>2. PICK none : none = <<>> /\ Frames(none) /\ Len(none) = 0
    BY EmptyFrames
  <2>3. /\ Answer(none, receiveCount[e], unconfirmed[e], 0)
        /\ \A i \in 1..Len(none) : none[i].type # "I"
    BY <2>2 DEF Answer
  <2>4. \/ Transmit(e, Append(none, I(e, id)))
        \/ DOMAIN wire' = Ends /\ \A x \in Ends : wire'[x] = wire[x]
    <3>1. CASE conState # "IDLE"
      <4>1. Append(none, I(e, id)) = <<I(e, id)>>
        BY <2>2
      <4> QED
        BY <2>1, <3>1, <4>1 DEF ClientFrames
    <3>2. CASE conState = "IDLE"
      <4>1. Transmit(e, none)
        BY <2>1, <2>2, <3>2 DEF ClientFrames
      <4>2. wire["server"] \o none = wire["server"]
        BY <1>1, <2>2, ConcatEmpty
      <4> QED
        BY <1>1, <4>1, <4>2 DEF Transmit, peer, Ends
    <3> QED
      BY <3>1, <3>2
  <2> QED
    BY <1>0, <1>3, <1>5, <2>1, <2>3, <2>4, SendStep
<1> QED
  BY <1>4, <1>5

(* exitThread and CS104_Connection_stopThreadless keep the two channels. *)
LEMMA ClientCloses ==
  ASSUME TypeOK, Domains, Channels, AcknowledgedWasReceived,
         exitThread \/ CS104_Connection_stopThreadless
  PROVE  Channels' /\ Domains' /\ AcknowledgedWasReceived'
<1> DEFINE e == "client"
<1>0. e \in Ends /\ peer(e) = "server" /\ "server" \in Ends
  BY DEF Ends, peer
<1>1. receiveCount[e] \in SeqNos /\ unconfirmed[e] \in Nat
  BY <1>0, ChannelTypes
<1>2. PICK c : c = IF unconfirmed["client"] > 0 THEN <<S("client")>> ELSE <<>>
  OBVIOUS
<1>3. /\ UNCHANGED <<sendCount, receiveCount, sentASDUs, got, acked>>
      /\ CloseSocket(e, c)
      /\ unconfirmed' = [unconfirmed EXCEPT ![e] = 0]
  BY <1>2 DEF exitThread, CS104_Connection_stopThreadless
<1>4. c = <<>> \/ (unconfirmed[e] > 0 /\ \E s : c = <<s>> /\ s.type = "S" /\ s.nr = receiveCount[e])
  BY <1>2 DEF S
<1>5. Answer(c, receiveCount[e], unconfirmed[e], 0) /\ \A i \in 1..Len(c) : c[i].type # "I"
  <2>1. PICK un1 \in Nat : un1 = 0
    OBVIOUS
  <2>2. ~(un1 > 0)
    BY <2>1
  <2>3. Answer(c, receiveCount[e], unconfirmed[e], un1) /\ \A i \in 1..Len(c) : c[i].type # "I"
    BY <1>1, <1>4, <2>2, AnswerConfirm
  <2> QED
    BY <2>1, <2>3
<1>6. /\ unconfirmed'[e] = 0 /\ unconfirmed'["server"] = unconfirmed["server"]
      /\ DOMAIN unconfirmed' = Ends /\ receiveCount'[e] = receiveCount[e]
  BY <1>0, <1>3 DEF Domains
<1>7. Answers1(e, c, unconfirmed[e])
  BY <1>0, <1>5, <1>6 DEF Answers1
<1> QED
  BY <1>0, <1>3, <1>7, CloseStep

-----------------------------------------------------------------------------
(* The actions of the server *)

(* HandleI keeps the two channels. *)
LEMMA ServerReadsI ==
  ASSUME TypeOK, Domains, Channels, AcknowledgedWasReceived, HandleI
  PROVE  Channels' /\ Domains' /\ AcknowledgedWasReceived'
<1> DEFINE e == "server"
<1>0. e \in Ends /\ peer(e) = "client" /\ "client" \in Ends
  BY DEF Ends, peer
<1>1. receiveCount[e] \in SeqNos /\ unconfirmed[e] \in Nat
  BY <1>0, ChannelTypes
<1>2. PICK f : f = Head(wire[e])
  OBVIOUS
<1>3. PICK confirm : confirm = (unconfirmed[e] + 1 >= w)
  OBVIOUS
<1>4. PICK ok : ok = (state = "STARTED" /\ f.ns = receiveCount[e] /\ seqNoIsValid(e, f.nr))
  OBVIOUS
<1>5. PICK s : s = [type |-> "S", nr |-> (receiveCount[e] + 1) % SeqMod]
  OBVIOUS
<1>6. PICK fs : fs = IF ok /\ confirm THEN <<s>> ELSE <<>>
  OBVIOUS
<1>7. /\ wire[e] # <<>> /\ UNCHANGED <<link, sendCount>> /\ Reply(e, fs) /\ f.type = "I"
  <2>1. wire[e] # <<>> /\ UNCHANGED <<link, sendCount>> /\ f.type = "I"
    BY <1>2 DEF HandleI, received
  <2>2. Reply(e, IF /\ state = "STARTED" /\ f.ns = receiveCount[e]
                    /\ seqNoIsValid(e, f.nr) /\ unconfirmed[e] + 1 >= w
                 THEN <<s>> ELSE <<>>)
    BY <1>2, <1>5 DEF HandleI
  <2>3. fs = IF /\ state = "STARTED" /\ f.ns = receiveCount[e]
                /\ seqNoIsValid(e, f.nr) /\ unconfirmed[e] + 1 >= w
             THEN <<s>> ELSE <<>>
    BY <1>3, <1>4, <1>6
  <2> QED
    BY <2>1, <2>2, <2>3
<1>8. CASE ok
  <2>1. Confirm(e, f.nr) /\ CountIMessage(e, f, confirm)
    BY <1>2, <1>3, <1>4, <1>8 DEF HandleI
  <2>2. TakesAck(e)
    BY <1>2, <1>7, <2>1 DEF TakesAck, Acknowledges
  <2>3. PICK un \in Nat : un = unconfirmed[e] + 1
    BY <1>1
  <2>4. TakesData(e, un)
    BY <1>2, <1>4, <1>7, <1>8, <2>1, <2>3 DEF TakesData, CountIMessage
  <2>5. receiveCount'[e] = (receiveCount[e] + 1) % SeqMod /\ receiveCount'[e] \in SeqNos
    BY <1>0, <1>1, <2>1, SeqNoNext DEF CountIMessage, TypeOK
  <2>6. /\ unconfirmed'[e] = IF confirm THEN 0 ELSE un
        /\ unconfirmed'["client"] = unconfirmed["client"]
        /\ DOMAIN unconfirmed' = Ends
    BY <1>0, <2>1, <2>3 DEF CountIMessage, Domains
  <2>7. PICK rc, un1 : rc = receiveCount'[e] /\ un1 = unconfirmed'[e]
    OBVIOUS
  <2>8. /\ fs = <<>> \/ (un > 0 /\ \E x : fs = <<x>> /\ x.type = "S" /\ x.nr = rc)
        /\ un1 \in Nat /\ (un1 > 0 => un > 0 /\ fs = <<>>)
        /\ rc \in SeqNos
    <3>1. s.type = "S" /\ s.nr = rc /\ un > 0
      BY <1>1, <1>5, <2>3, <2>5, <2>7
    <3> QED
      BY <1>6, <1>8, <2>5, <2>6, <2>7, <3>1
  <2>9. Answer(fs, rc, un, un1) /\ \A i \in 1..Len(fs) : fs[i].type # "I"
    BY <2>8, AnswerConfirm
  <2>10. Answers1(e, fs, un)
    BY <1>0, <2>6, <2>7, <2>9 DEF Answers1
  <2> QED
    BY <1>0, <1>7, <2>2, <2>4, <2>10, ReadStep
<1>9. CASE ~ok
  <2>1. UNCHANGED <<sentASDUs, acked, receiveCount, unconfirmed, got>>
    BY <1>2, <1>4, <1>9 DEF HandleI
  <2>2. TakesAck(e) /\ TakesData(e, unconfirmed[e])
    BY <2>1 DEF TakesAck, TakesData
  <2>3. Frames(fs) /\ \A i \in 1..Len(fs) : ~Acknowledges(fs[i])
    BY <1>6, <1>9, EmptyFrames
  <2>4. Answer(fs, receiveCount'[e], unconfirmed[e], unconfirmed'[e])
    BY <1>1, <2>1, <2>3, AnswerPlain
  <2>5. Answers1(e, fs, unconfirmed[e])
    BY <2>1, <2>3, <2>4 DEF Answers1, Domains, Acknowledges
  <2> QED
    BY <1>0, <1>7, <2>2, <2>5, ReadStep
<1> QED
  BY <1>4, <1>8, <1>9

(* HandleS keeps the two channels. *)
LEMMA ServerReadsS ==
  ASSUME TypeOK, Domains, Channels, AcknowledgedWasReceived, HandleS
  PROVE  Channels' /\ Domains' /\ AcknowledgedWasReceived'
<1> DEFINE e == "server"
<1>0. e \in Ends
  BY DEF Ends
<1>1. receiveCount[e] \in SeqNos /\ unconfirmed[e] \in Nat
  BY <1>0, ChannelTypes
<1>2. PICK fs : \/ fs = <<>> /\ Reply(e, fs)
                \/ fs = <<U("STOPDT_CON")>> /\ Reply(e, fs)
  BY DEF HandleS
<1>3. Reply(e, fs) /\ Frames(fs) /\ \A i \in 1..Len(fs) : ~Acknowledges(fs[i])
  <2>1. ~Acknowledges(U("STOPDT_CON"))
    BY DEF U, Acknowledges
  <2> QED
    BY <1>2, <2>1, EmptyFrames, PlainFrame
<1>4. /\ wire[e] # <<>> /\ UNCHANGED <<link, sendCount, receiveCount, unconfirmed, got>>
      /\ Head(wire[e]).type = "S"
  BY DEF HandleS, received
<1>5. TakesAck(e)
  BY <1>4 DEF HandleS, TakesAck, Acknowledges
<1>6. TakesData(e, unconfirmed[e])
  BY <1>4 DEF TakesData
<1>7. Answer(fs, receiveCount'[e], unconfirmed[e], unconfirmed'[e])
  BY <1>1, <1>3, <1>4, AnswerPlain
<1>8. Answers1(e, fs, unconfirmed[e])
  BY <1>3, <1>4, <1>7 DEF Answers1, Domains, Acknowledges
<1> QED
  BY <1>0, <1>3, <1>4, <1>5, <1>6, <1>8, ReadStep

(* The handlers of U frames keep the two channels. *)
LEMMA ServerReadsU ==
  ASSUME TypeOK, Domains, Channels, AcknowledgedWasReceived,
         HandleTestFRAct \/ HandleTestFRCon \/ HandleStartDT \/ HandleStopDT
  PROVE  Channels' /\ Domains' /\ AcknowledgedWasReceived'
<1> DEFINE e == "server"
<1>0. e \in Ends /\ peer(e) = "client" /\ "client" \in Ends
  BY DEF Ends, peer
<1>1. receiveCount[e] \in SeqNos /\ unconfirmed[e] \in Nat
  BY <1>0, ChannelTypes
<1>2. CASE HandleTestFRAct \/ HandleTestFRCon \/ HandleStartDT
  <2>1. PICK us : \/ us = <<>> /\ Reply(e, us)
                  \/ us = <<U("TESTFR_CON")>> /\ Reply(e, us)
                  \/ us = <<U("STARTDT_CON")>> /\ Reply(e, us)
    BY <1>2 DEF HandleTestFRAct, HandleTestFRCon, HandleStartDT
  <2>2. Reply(e, us) /\ Frames(us) /\ \A i \in 1..Len(us) : ~Acknowledges(us[i])
    <3>1. ~Acknowledges(U("TESTFR_CON")) /\ ~Acknowledges(U("STARTDT_CON"))
      BY DEF U, Acknowledges
    <3> QED
      BY <2>1, <3>1, EmptyFrames, PlainFrame
  <2>3. wire[e] # <<>> /\ UNCHANGED <<link, sendCount, receiveCount, unconfirmed, got, sentASDUs, acked>>
    BY <1>2 DEF HandleTestFRAct, HandleTestFRCon, HandleStartDT, received, counters
  <2>4. Answer(us, receiveCount'[e], unconfirmed[e], unconfirmed'[e])
    BY <1>1, <2>2, <2>3, AnswerPlain
  <2>5. Answers1(e, us, unconfirmed[e])
    BY <2>2, <2>3, <2>4 DEF Answers1, Domains, Acknowledges
  <2>6. TakesAck(e) /\ TakesData(e, unconfirmed[e])
    BY <2>3 DEF TakesAck, TakesData
  <2> QED
    BY <1>0, <2>2, <2>3, <2>5, <2>6, ReadStep
<1>3. CASE HandleStopDT
  <2>1. PICK c : c = IF unconfirmed[e] > 0 THEN <<S(e)>> ELSE <<>>
    OBVIOUS
  <2>2. PICK us : us = IF hasUnconfirmedMessages(sentASDUs[e]) THEN <<>> ELSE <<U("STOPDT_CON")>>
    OBVIOUS
  <2>3. PICK fs : fs = c \o us
    OBVIOUS
  <2>4. /\ wire[e] # <<>> /\ UNCHANGED <<link, sendCount, receiveCount, sentASDUs, got, acked>>
        /\ Reply(e, fs)
        /\ unconfirmed' = [unconfirmed EXCEPT ![e] = 0]
    BY <1>3, <2>1, <2>2, <2>3 DEF HandleStopDT, received
  <2>5. Frames(us) /\ \A i \in 1..Len(us) : ~Acknowledges(us[i])
    <3>1. ~Acknowledges(U("STOPDT_CON"))
      BY DEF U, Acknowledges
    <3> QED
      BY <2>2, <3>1, EmptyFrames, PlainFrame
  <2>6. c = <<>> \/ (unconfirmed[e] > 0 /\ \E s : c = <<s>> /\ s.type = "S" /\ s.nr = receiveCount[e])
    BY <2>1 DEF S
  <2>7. /\ Answer(fs, receiveCount[e], unconfirmed[e], 0)
        /\ \A i \in 1..Len(fs) : fs[i].type # "I"
    <3>1. PICK un1 \in Nat : un1 = 0
      OBVIOUS
    <3>2. ~(un1 > 0)
      BY <3>1
    <3>3. /\ Answer(c \o us, receiveCount[e], unconfirmed[e], un1)
          /\ \A i \in 1..Len(c \o us) : (c \o us)[i].type # "I"
      BY <1>1, <2>5, <2>6, <3>2, AnswerFrames
    <3> QED
      BY <2>3, <3>1, <3>3
  <2>8. /\ unconfirmed'[e] = 0 /\ unconfirmed'["client"] = unconfirmed["client"]
        /\ DOMAIN unconfirmed' = Ends /\ receiveCount'[e] = receiveCount[e]
    BY <1>0, <2>4 DEF Domains
  <2>9. Answers1(e, fs, unconfirmed[e])
    BY <1>0, <2>7, <2>8 DEF Answers1
  <2>10. TakesAck(e) /\ TakesData(e, unconfirmed[e])
    BY <2>4 DEF TakesAck, TakesData
  <2> QED
    BY <1>0, <2>4, <2>9, <2>10, ReadStep
<1> QED
  BY <1>2, <1>3

(* The frames that the server's timers ask for. *)
TimerFrames(frames) ==
  \/ frames = <<>>
  \/ frames = <<S("server")>> /\ unconfirmed["server"] > 0
  \/ frames = <<U("TESTFR_ACT")>>

(* SendWaitingASDU, after the frames that timers ask for, keeps the two    *)
(* channels.                                                               *)
LEMMA ServerTransmits ==
  ASSUME TypeOK, Domains, Channels, AcknowledgedWasReceived,
         NEW frames, TimerFrames(frames), SendWaitingASDU(frames)
  PROVE  Channels' /\ Domains' /\ AcknowledgedWasReceived'
<1> DEFINE e == "server"
<1>0. e \in Ends /\ peer(e) = "client" /\ "client" \in Ends
  BY DEF Ends, peer
<1>1. receiveCount[e] \in SeqNos /\ unconfirmed[e] \in Nat
  BY <1>0, ChannelTypes
<1>2. PICK un1 \in Nat : un1 = 0
  OBVIOUS
<1>3. /\ Answer(frames, receiveCount[e], unconfirmed[e], 0)
      /\ \A i \in 1..Len(frames) : frames[i].type # "I"
  <2>1. CASE frames = <<>> \/ frames = <<U("TESTFR_ACT")>>
    <3>1. Frames(frames) /\ \A i \in 1..Len(frames) : ~Acknowledges(frames[i])
      <4>1. ~Acknowledges(U("TESTFR_ACT"))
        BY DEF U, Acknowledges
      <4> QED
        BY <2>1, <4>1, EmptyFrames, PlainFrame
    <3>2. /\ Answer(frames, receiveCount[e], unconfirmed[e], un1)
          /\ \A i \in 1..Len(frames) : frames[i].type # "I"
      BY <1>1, <1>2, <3>1, AnswerPlain
    <3> QED
      BY <1>2, <3>2
  <2>2. CASE frames = <<S(e)>> /\ unconfirmed[e] > 0
    <3>1. \E s : frames = <<s>> /\ s.type = "S" /\ s.nr = receiveCount[e]
      BY <2>2 DEF S
    <3>2. ~(un1 > 0)
      BY <1>2
    <3>3. /\ Answer(frames, receiveCount[e], unconfirmed[e], un1)
          /\ \A i \in 1..Len(frames) : frames[i].type # "I"
      BY <1>1, <2>2, <3>1, <3>2, AnswerConfirm
    <3> QED
      BY <1>2, <3>3
  <2> QED
    BY <2>1, <2>2 DEF TimerFrames
<1>4. PICK send : send = (/\ isRunning /\ state = "STARTED" /\ ~isSentBufferFull(e)
                          /\ responses > 0 \/ waiting # <<>>)
  OBVIOUS
<1>5. PICK id : id = IF responses > 0 THEN 0 ELSE Head(waiting)
  OBVIOUS
<1>6. UNCHANGED <<link, receiveCount, got, acked>>
  BY DEF SendWaitingASDU
<1>7. CASE send
  <2>1. ~isSentBufferFull(e) /\ SendIMessage(e, id) /\ Transmit(e, Append(frames, I(e, id)))
    BY <1>4, <1>5, <1>7 DEF SendWaitingASDU
  <2> QED
    BY <1>0, <1>3, <1>6, <2>1, SendStep
<1>8. CASE ~send
  <2>1. /\ Transmit(e, frames) /\ UNCHANGED <<sendCount, sentASDUs>>
        /\ unconfirmed' = IF frames # <<>> /\ frames[1].type = "S"
                          THEN [unconfirmed EXCEPT ![e] = 0] ELSE unconfirmed
    BY <1>4, <1>8 DEF SendWaitingASDU
  <2>2. /\ DOMAIN unconfirmed' = Ends /\ unconfirmed'["client"] = unconfirmed["client"]
        /\ receiveCount'[e] = receiveCount[e]
    BY <1>0, <1>6, <2>1 DEF Domains
  <2>3. Answer(frames, receiveCount'[e], unconfirmed[e], unconfirmed'[e])
    <3>1. CASE frames = <<S(e)>> /\ unconfirmed[e] > 0
      <4>1. frames # <<>> /\ frames[1].type = "S"
        BY <3>1 DEF S
      <4>2. unconfirmed'[e] = 0
        BY <1>0, <2>1, <4>1 DEF Domains
      <4> QED
        BY <1>3, <2>2, <4>2
    <3>2. CASE frames = <<>> \/ frames = <<U("TESTFR_ACT")>>
      <4>1. ~(frames # <<>> /\ frames[1].type = "S")
        BY <3>2 DEF U
      <4>2. unconfirmed'[e] = unconfirmed[e]
        BY <2>1, <4>1
      <4>3. Frames(frames) /\ \A i \in 1..Len(frames) : ~Acknowledges(frames[i])
        <5>1. ~Acknowledges(U("TESTFR_ACT"))
          BY DEF U, Acknowledges
        <5> QED
          BY <3>2, <5>1, EmptyFrames, PlainFrame
      <4> QED
        BY <1>1, <2>2, <4>2, <4>3, AnswerPlain
    <3> QED
      BY <3>1, <3>2 DEF TimerFrames
  <2>4. Answers1(e, frames, unconfirmed[e])
    BY <1>0, <1>3, <2>2, <2>3 DEF Answers1
  <2> QED
    BY <1>0, <1>6, <2>1, <2>4, WriteStep
<1> QED
  BY <1>4, <1>7, <1>8

(* BypassSend keeps the two channels. *)
LEMMA ServerBypasses ==
  ASSUME TypeOK, Domains, Channels, AcknowledgedWasReceived, BypassSend
  PROVE  Channels' /\ Domains' /\ AcknowledgedWasReceived'
<1> DEFINE e == "server"
<1>0. e \in Ends
  BY DEF Ends
<1>1. UNCHANGED <<link, receiveCount, got, acked>>
  BY DEF BypassSend
<1>2. PICK send : send = (thread \in {"receive", "rest", "exit"} /\ ~isSentBufferFull(e))
  OBVIOUS
<1>3. CASE send
  <2>1. ~isSentBufferFull(e) /\ SendIMessage(e, 0) /\ Transmit(e, <<I(e, 0)>>)
    BY <1>2, <1>3 DEF BypassSend
  <2>2. PICK none : none = <<>> /\ Frames(none) /\ Len(none) = 0
    BY EmptyFrames
  <2>3. /\ Answer(none, receiveCount[e], unconfirmed[e], 0)
        /\ \A i \in 1..Len(none) : none[i].type # "I"
    BY <2>2 DEF Answer
  <2>4. Append(none, I(e, 0)) = <<I(e, 0)>>
    BY <2>2
  <2>5. Transmit(e, Append(none, I(e, 0)))
    BY <2>1, <2>4
  <2> QED
    BY <1>0, <1>1, <2>1, <2>3, <2>5, SendStep
<1>4. CASE ~send
  BY <1>1, <1>2, <1>4, SameStep DEF BypassSend, socket, counters
<1> QED
  BY <1>2, <1>3, <1>4

(* Reap keeps the two channels. *)
LEMMA ServerCloses ==
  ASSUME TypeOK, Domains, Channels, AcknowledgedWasReceived, Reap
  PROVE  Channels' /\ Domains' /\ AcknowledgedWasReceived'
<1> DEFINE e == "server"
<1>0. e \in Ends
  BY DEF Ends
<1>1. receiveCount[e] \in SeqNos /\ unconfirmed[e] \in Nat
  BY <1>0, ChannelTypes
<1>2. PICK none : none = <<>> /\ Frames(none) /\ Len(none) = 0
  BY EmptyFrames
<1>3. CloseSocket(e, none) /\ UNCHANGED <<sendCount, receiveCount, sentASDUs, unconfirmed, got, acked>>
  BY <1>2 DEF Reap, counters
<1>4. Answer(none, receiveCount'[e], unconfirmed[e], unconfirmed'[e]) /\ \A i \in 1..Len(none) : none[i].type # "I"
  BY <1>1, <1>2, <1>3, AnswerPlain
<1>5. Answers1(e, none, unconfirmed[e])
  BY <1>3, <1>4 DEF Answers1, Domains
<1> QED
  BY <1>0, <1>3, <1>5, CloseStep

-----------------------------------------------------------------------------
(* The connection comes about *)

(* A new connection starts with two empty channels. *)
LEMMA Connects ==
  ASSUME TypeOK, Domains, Channels, AcknowledgedWasReceived, ClientInv, Connected
  PROVE  Channels' /\ Domains' /\ AcknowledgedWasReceived'
<1>1. /\ sendCount["client"] = 0 /\ receiveCount["client"] = 0
      /\ sentASDUs["client"] = <<>> /\ unconfirmed["client"] = 0
      /\ link["client"] = "none"
  BY DEF Connected, connectSucceeds, ClientInv
<1>2. 0 \in SeqNos
  BY APCIAssumption DEF SeqNos
<1>3. CASE accept /\ connectSucceeds
  <2>1. PICK none : none = <<>> /\ Frames(none) /\ Len(none) = 0
    BY EmptyFrames
  <2>2. /\ link' = [e \in Ends |-> "up"] /\ wire' = [e \in Ends |-> none]
        /\ ResetCounters("server") /\ UNCHANGED <<got, acked>>
    BY <1>3, <2>1 DEF accept, connectSucceeds
  <2>3. "client" \in Ends /\ "server" \in Ends /\ \A e \in Ends : e = "client" \/ e = "server"
    BY DEF Ends
  <2>4. /\ sendCount'["client"] = 0 /\ receiveCount'["client"] = 0
        /\ sentASDUs'["client"] = none /\ unconfirmed'["client"] = 0
        /\ sendCount'["server"] = 0 /\ receiveCount'["server"] = 0
        /\ sentASDUs'["server"] = none /\ unconfirmed'["server"] = 0
    BY <1>1, <2>1, <2>2, <2>3 DEF ResetCounters, TypeOK, Domains
  <2>5. ASSUME NEW e \in Ends
        PROVE  Channel(e)'
    <3>1. PICK p \in Ends : p = peer(e)
      BY Peers
    <3>2. PICK g, up : g = got'[p] /\ up = "up"
      OBVIOUS
    <3>3. ChannelOK(up, <<>>, 0, <<>>, none, 0, 0, g)
      BY <1>2, <2>1, FreshChannel
    <3>4. /\ link'[e] = up /\ wire'[e] = none /\ wire'[p] = none
          /\ sendCount'[e] = 0 /\ receiveCount'[p] = 0 /\ sentASDUs'[e] = none /\ unconfirmed'[p] = 0
      BY <2>2, <2>3, <2>4, <3>2
    <3> QED
      BY <2>1, <3>1, <3>2, <3>3, <3>4 DEF Channel, peer
  <2>6. Domains'
    BY <2>2 DEF Domains, ResetCounters
  <2> QED
    BY <2>2, <2>5, <2>6 DEF Channels, AcknowledgedWasReceived, peer
<1>4. CASE refuse /\ connectSucceeds
  <2>1. /\ UNCHANGED <<wire, sendCount, receiveCount, sentASDUs, unconfirmed, got, acked>>
        /\ link' = [link EXCEPT !["client"] = "closed"]
    BY <1>4 DEF refuse, connectSucceeds, counters
  <2>2. link'["client"] # "up" /\ link'["server"] # "up" /\ link["server"] # "up"
    BY <1>1, <2>1 DEF TypeOK, Ends
  <2>3. ASSUME NEW e \in Ends
        PROVE  Channel(e)'
    <3>1. PICK l1 : l1 = link'[e] /\ l1 # "up"
      BY <2>2 DEF Ends
    <3>2. Channel(e)
      BY DEF Channels
    <3> QED
      BY <2>1, <3>1, <3>2 DEF Channel, ChannelOK, peer
  <2> QED
    BY <2>1, <2>3 DEF Channels, Domains, AcknowledgedWasReceived, peer
<1> QED
  BY <1>3, <1>4 DEF Connected

(* resetConnection empties the k-buffer of a client without a socket. *)
LEMMA Resets ==
  ASSUME TypeOK, Domains, Channels, AcknowledgedWasReceived, ClientInv, WireInv, resetConnection
  PROVE  Channels' /\ Domains' /\ AcknowledgedWasReceived'
<1>1. /\ pc = "reset" /\ ResetCounters("client") /\ UNCHANGED <<link, wire, got, acked>>
  BY DEF resetConnection, socket
<1>2. "client" \in Ends /\ "server" \in Ends /\ \A e \in Ends : e = "client" \/ e = "server"
  BY DEF Ends
<1>3. link["client"] = "none" /\ wire["client"] = <<>> /\ link["server"] # "up"
  BY <1>1, <1>2 DEF ClientInv, WireInv, TypeOK
<1>4. /\ sendCount'["client"] = 0 /\ receiveCount'["client"] = 0
      /\ sentASDUs'["client"] = <<>> /\ unconfirmed'["client"] = 0
      /\ sendCount'["server"] = sendCount["server"] /\ receiveCount'["server"] = receiveCount["server"]
      /\ sentASDUs'["server"] = sentASDUs["server"] /\ unconfirmed'["server"] = unconfirmed["server"]
  BY <1>1, <1>2 DEF ResetCounters, TypeOK, Domains
<1>5. 0 \in SeqNos
  BY APCIAssumption DEF SeqNos
<1>6. Channel("client")'
  <2>1. PICK l, data, rc, un, g :
          /\ l = link["client"] /\ data = wire["server"]
          /\ rc = receiveCount["server"] /\ un = unconfirmed["server"] /\ g = got["server"]
    OBVIOUS
  <2>2. Frames(data) /\ rc \in SeqNos /\ un \in Nat
    BY <1>2, <2>1, ChannelTypes
  <2>3. l # "up"
    BY <1>3, <2>1
  <2>4. ChannelOK(l, <<>>, 0, <<>>, data, rc, un, g)
    BY <2>2, <2>3, FreshChannel
  <2> QED
    BY <1>1, <1>3, <1>4, <2>1, <2>4 DEF Channel, peer
<1>7. Channel("server")'
  <2>1. Channel("server")
    BY <1>2 DEF Channels
  <2>2. PICK l, ids, sc, acks, data, rc, un, g :
          /\ l = link["server"] /\ ids = sentASDUs["server"] /\ sc = sendCount["server"]
          /\ acks = wire["server"] /\ data = wire["client"]
          /\ rc = receiveCount["client"] /\ un = unconfirmed["client"] /\ g = got["client"]
    OBVIOUS
  <2>3. ChannelOK(l, ids, sc, acks, data, rc, un, g) /\ l # "up"
    BY <1>3, <2>1, <2>2 DEF Channel, peer
  <2>4. ChannelOK(l, ids, sc, acks, data, 0, 0, g)
    BY <1>5, <2>3 DEF ChannelOK
  <2> QED
    BY <1>1, <1>4, <2>2, <2>4 DEF Channel, peer
<1> QED
  BY <1>1, <1>2, <1>6, <1>7 DEF Channels, Domains, AcknowledgedWasReceived, ResetCounters, peer

-----------------------------------------------------------------------------
(* All actions *)

(* The steps that leave the connection and its counters alone. *)
ClientIdle ==
  \/ createSocket \/ createSocketFails \/ connectFails \/ setInactive \/ skipLoop
  \/ receiveNothing \/ receiveError
  \/ CS104_Connection_connect \/ CS104_Connection_startThreadless \/ CS104_Connection_close
  \/ startReturns \/ startFails \/ oldThreadEnds \/ connectReturns \/ closeReturns \/ sendASDU

ServerIdle ==
  \/ HandleNothing \/ HandleEndOfStream \/ HandleReceiveError \/ HandleT1 \/ LeaveLoop \/ BypassQueue

ClientWriting == noTimeout \/ timeoutT2 \/ timeoutT3 \/ timeoutEnds \/ sendStartDT \/ sendStopDT
ClientReading == receiveI \/ receiveS \/ receiveU
ClientClosing == exitThread \/ CS104_Connection_stopThreadless
ServerReading ==
  HandleI \/ HandleS \/ HandleTestFRAct \/ HandleTestFRCon \/ HandleStartDT \/ HandleStopDT
ServerSending == HandleNoTimeout \/ HandleT2 \/ HandleT3

(* The steps of the system, by what they do to the connection. *)
LEMMA NextCases ==
  ASSUME Next
  PROVE  \/ Connected
         \/ Break
         \/ UNCHANGED masterVars /\ (ClientIdle \/ resetConnection)
         \/ UNCHANGED masterVars /\ ClientReading
         \/ UNCHANGED masterVars /\ ClientWriting
         \/ UNCHANGED masterVars /\ sendASDULocked
         \/ UNCHANGED masterVars /\ ClientClosing
         \/ UNCHANGED clientVars /\ ServerIdle
         \/ UNCHANGED clientVars /\ ServerReading
         \/ UNCHANGED clientVars /\ ServerSending
         \/ UNCHANGED clientVars /\ BypassSend
         \/ UNCHANGED clientVars /\ Reap
<1>1. CASE ClientStep
  BY <1>1 DEF ClientStep, connectionHandlingThread, ClientTimers, apiCallEnds,
              ClientIdle, ClientReading, ClientWriting, ClientClosing
<1>2. CASE MasterStep
  BY <1>2 DEF MasterStep, serverThreads, MasterTimers, ServerIdle, ServerReading, ServerSending
<1> QED
  BY <1>1, <1>2 DEF Next

(* The steps that touch neither the sockets nor the counters. *)
LEMMA IdleUnchanged ==
  ASSUME ClientIdle \/ ServerIdle
  PROVE  UNCHANGED <<socket, counters, got, acked, error>>
<1>1. CASE ClientIdle
  BY <1>1 DEF ClientIdle, createSocket, createSocketFails, connectFails, setInactive, skipLoop,
              receiveNothing, receiveError, CS104_Connection_connect,
              CS104_Connection_startThreadless, CS104_Connection_close, startReturns, startFails,
              oldThreadEnds, connectReturns, closeReturns, sendASDU
<1>2. CASE ServerIdle
  BY <1>2 DEF ServerIdle, HandleNothing, HandleEndOfStream, HandleReceiveError, LeaveReceiving,
              HandleT1, LeaveLoop, BypassQueue
<1> QED
  BY <1>1, <1>2

(* The three ways into SendWaitingASDU. *)
LEMMA ServerSendingCases ==
  ASSUME ServerSending
  PROVE  \E frames : TimerFrames(frames) /\ SendWaitingASDU(frames)
BY DEF ServerSending, HandleNoTimeout, HandleT2, HandleT3, TimerFrames

(* Every step keeps what holds of the two channels. *)
LEMMA ChannelsStep ==
  ASSUME LinkInv, Next
  PROVE  Channels' /\ Domains' /\ AcknowledgedWasReceived'
<1>1. /\ TypeOK /\ Domains /\ Channels /\ AcknowledgedWasReceived /\ ClientInv /\ WireInv
  BY DEF LinkInv, Channels
<1>2. CASE Connected
  BY <1>1, <1>2, Connects
<1>3. CASE Break
  BY <1>1, <1>3, BreakStep
<1>4. CASE ClientIdle \/ ServerIdle
  BY <1>1, <1>4, IdleUnchanged, SameStep
<1>5. CASE resetConnection
  BY <1>1, <1>5, Resets
<1>6. CASE ClientReading
  BY <1>1, <1>6, ClientReads DEF ClientReading
<1>7. CASE ClientWriting
  BY <1>1, <1>7, ClientWrites DEF ClientWriting
<1>8. CASE sendASDULocked
  BY <1>1, <1>8, ClientSends
<1>9. CASE ClientClosing
  BY <1>1, <1>9, ClientCloses DEF ClientClosing
<1>10. CASE ServerReading
  BY <1>1, <1>10, ServerReadsI, ServerReadsS, ServerReadsU DEF ServerReading
<1>11. CASE ServerSending
  BY <1>1, <1>11, ServerSendingCases, ServerTransmits
<1>12. CASE BypassSend
  BY <1>1, <1>12, ServerBypasses
<1>13. CASE Reap
  BY <1>1, <1>13, ServerCloses
<1> QED
  BY <1>2, <1>3, <1>4, <1>5, <1>6, <1>7, <1>8, <1>9, <1>10, <1>11, <1>12, <1>13, NextCases

-----------------------------------------------------------------------------
(* Types and the client's control *)

LinkTypes ==
  /\ link \in [Ends -> {"none", "up", "closed", "lost"}]
  /\ link["client"] = "up" <=> link["server"] = "up"

ControlTypes ==
  /\ pc \in {"none", "reset", "socket", "connect", "opened", "receive", "rest", "last", "exit", "ended"}
  /\ conState \in {"IDLE", "INACTIVE", "ACTIVE"} \cup Waiting
  /\ outstandingTestFRConMessages \in 0..3
  /\ app \in {"idle", "starting", "joining", "connecting", "closing", "sending"}
  /\ thread \in {"none", "receive", "rest", "exit", "ended"}
  /\ state \in {"STOPPED", "STARTED", "UNCONFIRMED_STOPPED"}

CounterTypes == sendCount \in [Ends -> SeqNos] /\ receiveCount \in [Ends -> SeqNos]

UnconfirmedBound == (\A e \in Ends : unconfirmed[e] \in 0..w) /\ unconfirmed["server"] < w

(* nextConState, without the CASE. *)
LEMMA NextState ==
  ASSUME NEW type
  PROVE  nextConState(type) = IF type \in {"STARTDT_ACT", "STARTDT_CON"} THEN "ACTIVE"
                              ELSE IF type = "STOPDT_CON" THEN "INACTIVE" ELSE conState
<1>1. CASE type \in {"STARTDT_ACT", "STARTDT_CON"}
  BY <1>1 DEF nextConState
<1>2. CASE type = "STOPDT_CON"
  BY <1>2 DEF nextConState
<1>3. CASE type \notin {"STARTDT_ACT", "STARTDT_CON"} /\ type # "STOPDT_CON"
  BY <1>3 DEF nextConState
<1> QED
  BY <1>1, <1>2, <1>3

(* The state after HandleStopDT, without the CASE. *)
LEMMA StopState ==
  ASSUME HandleStopDT
  PROVE  state' = IF sentASDUs["server"] = <<>> THEN "STOPPED"
                  ELSE IF state = "STARTED" THEN "UNCONFIRMED_STOPPED" ELSE state
<1>1. CASE sentASDUs["server"] = <<>>
  BY <1>1 DEF HandleStopDT, hasUnconfirmedMessages
<1>2. CASE sentASDUs["server"] # <<>> /\ state = "STARTED"
  BY <1>2 DEF HandleStopDT, hasUnconfirmedMessages
<1>3. CASE sentASDUs["server"] # <<>> /\ state # "STARTED"
  BY <1>3 DEF HandleStopDT, hasUnconfirmedMessages
<1> QED
  BY <1>1, <1>2, <1>3

(* Every step leaves both sockets up or neither. *)
LEMMA LinkTypesStep ==
  ASSUME LinkTypes, ClientInv, Next
  PROVE  LinkTypes'
<1>1. ASSUME NEW e \in Ends, NEW frames, CloseSocket(e, frames)
      PROVE  LinkTypes'
  BY <1>1 DEF LinkTypes, CloseSocket, peer, Ends
<1>2. CASE UNCHANGED link
  BY <1>2 DEF LinkTypes
<1>3. CASE Connected
  BY <1>3 DEF Connected, connectSucceeds, accept, refuse, LinkTypes, ClientInv, Ends
<1>4. CASE Break
  BY <1>4 DEF Break, LinkTypes, Ends
<1>5. CASE ClientIdle \/ ServerIdle
  BY <1>2, <1>5, IdleUnchanged DEF socket
<1>6. CASE resetConnection
  BY <1>2, <1>6 DEF resetConnection, socket
<1>7. CASE ClientReading
  BY <1>2, <1>7 DEF ClientReading, receiveI, receiveS, receiveU
<1>8. CASE ClientWriting
  BY <1>2, <1>8 DEF ClientWriting, noTimeout, timeoutT2, timeoutT3, timeoutEnds, Iterate,
                    sendStartDT, sendStopDT
<1>9. CASE sendASDULocked
  BY <1>2, <1>9 DEF sendASDULocked
<1>10. CASE ClientClosing
  BY <1>1, <1>10 DEF ClientClosing, exitThread, CS104_Connection_stopThreadless, Ends
<1>11. CASE ServerReading
  BY <1>2, <1>11 DEF ServerReading, HandleI, HandleS, HandleTestFRAct, HandleTestFRCon,
                     HandleStartDT, HandleStopDT
<1>12. CASE ServerSending
  BY <1>2, <1>12, ServerSendingCases DEF SendWaitingASDU
<1>13. CASE BypassSend
  BY <1>2, <1>13 DEF BypassSend
<1>14. CASE Reap
  BY <1>1, <1>14 DEF Reap, Ends
<1> QED
  BY <1>3, <1>4, <1>5, <1>6, <1>7, <1>8, <1>9, <1>10, <1>11, <1>12, <1>13, <1>14, NextCases

(* Every step leaves the control states in their ranges. *)
LEMMA ControlTypesStep ==
  ASSUME ControlTypes, Next
  PROVE  ControlTypes'
<1>1. CASE Connected
  BY <1>1 DEF Connected, connectSucceeds, accept, refuse, ControlTypes, timers, masterVars
<1>2. CASE Break
  BY <1>2 DEF Break, ControlTypes, clientVars, masterVars, timers
<1>3. CASE UNCHANGED masterVars /\ ClientIdle
  BY <1>3 DEF ClientIdle, createSocket, createSocketFails, connectFails, setInactive, skipLoop,
              receiveNothing, receiveError, Stop, CS104_Connection_connect,
              CS104_Connection_startThreadless, CS104_Connection_close, startReturns, startFails,
              oldThreadEnds, connectReturns, closeReturns, sendASDU, ControlTypes, masterVars,
              timers, Waiting
<1>4. CASE UNCHANGED masterVars /\ resetConnection
  BY <1>4 DEF resetConnection, ControlTypes, masterVars
<1>5. CASE UNCHANGED masterVars /\ ClientReading
  <2>1. UNCHANGED <<app, thread, state>>
    BY <1>5 DEF ClientReading, receiveI, receiveS, receiveU, masterVars
  <2>2. pc' \in {"rest", "last"}
    BY <1>5 DEF ClientReading, receiveI, receiveS, receiveU, Stop
  <2>3. outstandingTestFRConMessages' \in 0..3
    <3>1. CASE receiveI \/ receiveS
      BY <3>1 DEF receiveI, receiveS, timers, ControlTypes
    <3>2. CASE receiveU
      <4>1. outstandingTestFRConMessages' \in {0, outstandingTestFRConMessages}
        BY <3>2 DEF receiveU
      <4> QED
        BY <4>1 DEF ControlTypes
    <3> QED
      BY <1>5, <3>1, <3>2 DEF ClientReading
  <2>4. conState' \in {"IDLE", "INACTIVE", "ACTIVE"} \cup Waiting
    BY <1>5, NextState DEF ClientReading, receiveI, receiveS, receiveU, ControlTypes
  <2> QED
    BY <2>1, <2>2, <2>3, <2>4 DEF ControlTypes
<1>6. CASE UNCHANGED masterVars /\ ClientWriting
  <2>1. UNCHANGED <<app, thread, state>>
    BY <1>6 DEF ClientWriting, noTimeout, timeoutT2, timeoutT3, timeoutEnds, Iterate,
                sendStartDT, sendStopDT, masterVars
  <2>2. pc' \in {"receive", "exit", pc}
    BY <1>6 DEF ClientWriting, noTimeout, timeoutT2, timeoutT3, timeoutEnds, Iterate,
                sendStartDT, sendStopDT
  <2>3. outstandingTestFRConMessages' \in 0..3
    <3>1. CASE timeoutT3
      BY <3>1 DEF timeoutT3, ControlTypes
    <3>2. CASE noTimeout \/ timeoutT2 \/ timeoutEnds \/ sendStartDT \/ sendStopDT
      BY <3>2 DEF noTimeout, timeoutT2, timeoutEnds, sendStartDT, sendStopDT, timers, ControlTypes
    <3> QED
      BY <1>6, <3>1, <3>2 DEF ClientWriting
  <2>4. conState' \in {"IDLE", "INACTIVE", "ACTIVE"} \cup Waiting
    BY <1>6 DEF ClientWriting, noTimeout, timeoutT2, timeoutT3, timeoutEnds, Iterate,
                sendStartDT, sendStopDT, Waiting, ControlTypes
  <2> QED
    BY <2>1, <2>2, <2>3, <2>4 DEF ControlTypes
<1>7. CASE UNCHANGED masterVars /\ sendASDULocked
  BY <1>7 DEF sendASDULocked, ControlTypes, masterVars, timers
<1>8. CASE UNCHANGED masterVars /\ ClientClosing
  BY <1>8 DEF ClientClosing, exitThread, CS104_Connection_stopThreadless, ControlTypes,
              masterVars, timers
<1>9. CASE UNCHANGED clientVars /\ ServerIdle
  BY <1>9 DEF ServerIdle, HandleNothing, HandleEndOfStream, HandleReceiveError, LeaveReceiving,
              HandleT1, LeaveLoop, BypassQueue, ControlTypes, clientVars, timers
<1>10. CASE UNCHANGED clientVars /\ ServerReading
  <2>1. UNCHANGED <<pc, conState, outstandingTestFRConMessages, app>>
    BY <1>10 DEF clientVars, timers
  <2>2. thread' = "rest"
    BY <1>10 DEF ServerReading, HandleI, HandleS, HandleTestFRAct, HandleTestFRCon,
                 HandleStartDT, HandleStopDT
  <2>3. state' \in {"STOPPED", "STARTED", "UNCONFIRMED_STOPPED"}
    <3>1. CASE HandleStopDT
      BY <3>1, StopState DEF ControlTypes
    <3>2. CASE HandleI \/ HandleS \/ HandleTestFRAct \/ HandleTestFRCon \/ HandleStartDT
      BY <3>2 DEF HandleI, HandleS, HandleTestFRAct, HandleTestFRCon, HandleStartDT, ControlTypes
    <3> QED
      BY <1>10, <3>1, <3>2 DEF ServerReading
  <2> QED
    BY <2>1, <2>2, <2>3 DEF ControlTypes
<1>11. CASE UNCHANGED clientVars /\ ServerSending
  <2>1. UNCHANGED <<pc, conState, outstandingTestFRConMessages, app>>
    BY <1>11 DEF clientVars, timers
  <2>2. thread' \in {"receive", "exit"} /\ state' = state
    BY <1>11, ServerSendingCases DEF SendWaitingASDU
  <2> QED
    BY <2>1, <2>2 DEF ControlTypes
<1>12. CASE UNCHANGED clientVars /\ BypassSend
  BY <1>12 DEF BypassSend, ControlTypes, clientVars, timers
<1>13. CASE UNCHANGED clientVars /\ Reap
  BY <1>13 DEF Reap, ControlTypes, clientVars, timers
<1> QED
  BY <1>1, <1>2, <1>3, <1>4, <1>5, <1>6, <1>7, <1>8, <1>9, <1>10, <1>11, <1>12, <1>13, NextCases

(* How a step changes the two sequence numbers. *)
LEMMA CounterChange ==
  ASSUME Next
  PROVE  \/ UNCHANGED <<sendCount, receiveCount>>
         \/ \E e \in Ends : ResetCounters(e)
         \/ \E e \in Ends : UNCHANGED receiveCount /\ \E id : SendIMessage(e, id)
         \/ \E e \in Ends : UNCHANGED sendCount /\ \E f, confirm : CountIMessage(e, f, confirm)
<1>0. "client" \in Ends /\ "server" \in Ends
  BY DEF Ends
<1>1. CASE Connected
  BY <1>0, <1>1 DEF Connected, accept, refuse, counters
<1>2. CASE Break
  BY <1>2 DEF Break, counters
<1>3. CASE ClientIdle \/ ServerIdle
  BY <1>3, IdleUnchanged DEF counters
<1>4. CASE resetConnection
  BY <1>0, <1>4 DEF resetConnection
<1>5. CASE ClientReading
  BY <1>0, <1>5 DEF ClientReading, receiveI, receiveS, receiveU, counters
<1>6. CASE ClientWriting
  BY <1>6 DEF ClientWriting, noTimeout, timeoutT2, timeoutT3, timeoutEnds, Iterate,
              sendStartDT, sendStopDT, counters
<1>7. CASE sendASDULocked
  BY <1>0, <1>7 DEF sendASDULocked
<1>8. CASE ClientClosing
  BY <1>8 DEF ClientClosing, exitThread, CS104_Connection_stopThreadless
<1>9. CASE ServerReading
  <2>1. CASE HandleI
    BY <1>0, <2>1 DEF HandleI
  <2>2. CASE HandleS \/ HandleTestFRAct \/ HandleTestFRCon \/ HandleStartDT \/ HandleStopDT
    BY <2>2 DEF HandleS, HandleTestFRAct, HandleTestFRCon, HandleStartDT, HandleStopDT, counters
  <2> QED
    BY <1>9, <2>1, <2>2 DEF ServerReading
<1>10. CASE ServerSending
  BY <1>0, <1>10, ServerSendingCases DEF SendWaitingASDU
<1>11. CASE BypassSend
  BY <1>0, <1>11 DEF BypassSend
<1>12. CASE Reap
  BY <1>12 DEF Reap, counters
<1> QED
  BY <1>1, <1>2, <1>3, <1>4, <1>5, <1>6, <1>7, <1>8, <1>9, <1>10, <1>11, <1>12, NextCases

(* Every step leaves the sequence numbers on the circle. *)
LEMMA CounterTypesStep ==
  ASSUME CounterTypes, Next
  PROVE  CounterTypes'
<1>0. 0 \in SeqNos /\ \A n \in SeqNos : (n + 1) % SeqMod \in SeqNos
  BY SeqNoNext, APCIAssumption DEF SeqNos
<1>1. CASE UNCHANGED <<sendCount, receiveCount>>
  BY <1>1 DEF CounterTypes
<1>2. ASSUME NEW e \in Ends, ResetCounters(e)
      PROVE  CounterTypes'
  BY <1>0, <1>2 DEF ResetCounters, CounterTypes
<1>3. ASSUME NEW e \in Ends, NEW id, UNCHANGED receiveCount, SendIMessage(e, id)
      PROVE  CounterTypes'
  <2>1. sendCount[e] \in SeqNos
    BY DEF CounterTypes
  <2>2. PICK n \in SeqNos : n = (sendCount[e] + 1) % SeqMod
    BY <1>0, <2>1
  <2> QED
    BY <1>3, <2>2 DEF SendIMessage, CounterTypes
<1>4. ASSUME NEW e \in Ends, NEW f, NEW confirm, UNCHANGED sendCount, CountIMessage(e, f, confirm)
      PROVE  CounterTypes'
  <2>1. receiveCount[e] \in SeqNos
    BY DEF CounterTypes
  <2>2. PICK n \in SeqNos : n = (receiveCount[e] + 1) % SeqMod
    BY <1>0, <2>1
  <2> QED
    BY <1>4, <2>2 DEF CountIMessage, CounterTypes
<1> QED
  BY <1>1, <1>2, <1>3, <1>4, CounterChange

(* How a step changes what is not confirmed. *)
LEMMA UnconfirmedChange ==
  ASSUME Next
  PROVE  \/ UNCHANGED unconfirmed
         \/ \E e \in Ends : unconfirmed' = [unconfirmed EXCEPT ![e] = 0]
         \/ receiveI \/ HandleI
<1>0. "client" \in Ends /\ "server" \in Ends
  BY DEF Ends
<1>1. CASE Connected
  BY <1>0, <1>1 DEF Connected, accept, refuse, counters, ResetCounters
<1>2. CASE Break
  BY <1>2 DEF Break, counters
<1>3. CASE ClientIdle \/ ServerIdle
  BY <1>3, IdleUnchanged DEF counters
<1>4. CASE resetConnection
  BY <1>0, <1>4 DEF resetConnection, ResetCounters
<1>5. CASE ClientReading
  BY <1>5 DEF ClientReading, receiveS, receiveU, counters
<1>6. CASE ClientWriting
  BY <1>0, <1>6 DEF ClientWriting, noTimeout, timeoutT2, timeoutT3, timeoutEnds, Iterate,
                    sendStartDT, sendStopDT, counters
<1>7. CASE sendASDULocked
  BY <1>0, <1>7 DEF sendASDULocked, SendIMessage
<1>8. CASE ClientClosing
  BY <1>0, <1>8 DEF ClientClosing, exitThread, CS104_Connection_stopThreadless
<1>9. CASE ServerReading
  BY <1>0, <1>9 DEF ServerReading, HandleS, HandleTestFRAct, HandleTestFRCon, HandleStartDT,
                    HandleStopDT, counters
<1>10. CASE ServerSending
  BY <1>0, <1>10, ServerSendingCases DEF SendWaitingASDU, SendIMessage
<1>11. CASE BypassSend
  BY <1>0, <1>11 DEF BypassSend, SendIMessage
<1>12. CASE Reap
  BY <1>12 DEF Reap, counters
<1> QED
  BY <1>1, <1>2, <1>3, <1>4, <1>5, <1>6, <1>7, <1>8, <1>9, <1>10, <1>11, <1>12, NextCases

(* Every step leaves at most w frames unconfirmed. *)
LEMMA UnconfirmedBoundStep ==
  ASSUME UnconfirmedBound, ClientInv, DOMAIN unconfirmed = Ends, Next
  PROVE  UnconfirmedBound'
<1>0. w \in Nat \ {0}
  BY APCIAssumption
<1>1. CASE UNCHANGED unconfirmed
  BY <1>1 DEF UnconfirmedBound
<1>2. ASSUME NEW e \in Ends, unconfirmed' = [unconfirmed EXCEPT ![e] = 0]
      PROVE  UnconfirmedBound'
  BY <1>0, <1>2 DEF UnconfirmedBound
<1>3. CASE receiveI
  <2>1. unconfirmed["client"] < w /\ unconfirmed["client"] \in 0..w
    BY <1>3 DEF receiveI, ClientInv, UnconfirmedBound, Ends
  <2>2. UNCHANGED unconfirmed
        \/ unconfirmed' = [unconfirmed EXCEPT !["client"] = unconfirmed["client"] + 1]
    BY <1>3 DEF receiveI, CountIMessage
  <2> QED
    BY <1>0, <1>1, <2>1, <2>2 DEF UnconfirmedBound, Ends
<1>4. CASE HandleI
  <2>1. unconfirmed["server"] \in 0..w
    BY DEF UnconfirmedBound, Ends
  <2>2. \/ UNCHANGED unconfirmed
        \/ unconfirmed' = [unconfirmed EXCEPT !["server"] =
                             IF unconfirmed["server"] + 1 >= w THEN 0 ELSE unconfirmed["server"] + 1]
    BY <1>4 DEF HandleI, CountIMessage
  <2> QED
    BY <1>0, <1>1, <2>1, <2>2 DEF UnconfirmedBound, Ends
<1> QED
  BY <1>1, <1>2, <1>3, <1>4, UnconfirmedChange

(* What the client's thread and application know of each other. *)
ClientRuns ==
  /\ running => pc \in {"opened", "receive", "rest", "last", "exit"}
  /\ app = "sending" => pc \notin {"reset", "socket", "connect"}
  /\ app = "sending" /\ ~running => pc \in {"ended", "none"}

(* The counters of a connection that is not there yet. *)
ClientFresh ==
  pc \in {"socket", "connect"} =>
    /\ sendCount["client"] = 0 /\ receiveCount["client"] = 0
    /\ sentASDUs["client"] = <<>> /\ unconfirmed["client"] = 0

ClientLink == pc \in {"none", "reset", "socket", "connect", "ended"} => link["client"] = "none"

ClientConfirms == pc \in {"opened", "receive"} => unconfirmed["client"] < w

(* ClientInv is the four invariants of the client. *)
LEMMA ClientInvParts == ClientInv <=> ClientRuns /\ ClientFresh /\ ClientLink /\ ClientConfirms
BY DEF ClientInv, ClientRuns, ClientFresh, ClientLink, ClientConfirms

(* Every step keeps what running says of the thread. *)
LEMMA ClientRunsStep ==
  ASSUME ClientRuns, Next
  PROVE  ClientRuns'
<1>1. CASE Connected
  BY <1>1 DEF Connected, connectSucceeds, ClientRuns
<1>2. CASE UNCHANGED clientVars \/ Break
  BY <1>2 DEF Break, ClientRuns, clientVars, flags
<1>3. CASE ClientIdle
  BY <1>3 DEF ClientIdle, createSocket, createSocketFails, connectFails, setInactive, skipLoop,
              receiveNothing, receiveError, Stop, CS104_Connection_connect,
              CS104_Connection_startThreadless, CS104_Connection_close, startReturns, startFails,
              oldThreadEnds, connectReturns, closeReturns, sendASDU, ClientRuns, flags
<1>4. CASE resetConnection
  BY <1>4 DEF resetConnection, ClientRuns
<1>5. CASE ClientReading
  <2>1. pc = "receive" /\ pc' \in {"rest", "last"} /\ UNCHANGED <<app, running>>
    BY <1>5 DEF ClientReading, receiveI, receiveS, receiveU, Stop, flags
  <2> QED
    BY <2>1 DEF ClientRuns
<1>6. CASE ClientWriting
  <2>1. UNCHANGED <<app, running>> /\ (pc' = pc \/ (pc \in {"rest", "last"} /\ pc' \in {"receive", "exit"}))
    BY <1>6 DEF ClientWriting, noTimeout, timeoutT2, timeoutT3, timeoutEnds, Iterate,
                sendStartDT, sendStopDT, flags
  <2> QED
    BY <2>1 DEF ClientRuns
<1>7. CASE sendASDULocked
  BY <1>7 DEF sendASDULocked, ClientRuns, flags
<1>8. CASE ClientClosing
  BY <1>8 DEF ClientClosing, exitThread, CS104_Connection_stopThreadless, ClientRuns
<1> QED
  BY <1>1, <1>2, <1>3, <1>4, <1>5, <1>6, <1>7, <1>8, NextCases

(* What any step does to pc. *)
LEMMA ProgramCounter ==
  ASSUME Next
  PROVE  \/ pc' = pc
         \/ pc' = "socket" /\ resetConnection
         \/ pc' = "connect" /\ pc = "socket" /\ ClientIdle
         \/ pc' = "opened" /\ pc = "connect" /\ Connected
         \/ pc' = "receive" /\ pc = "opened" /\ ClientIdle
         \/ pc' = "receive" /\ ClientWriting
         \/ pc' = "reset" /\ pc \in {"none", "ended"} /\ ClientIdle
         \/ pc' \in {"none", "ended"} /\ pc \in {"socket", "connect", "ended"} /\ ClientIdle
         \/ pc' \in {"none", "ended"} /\ ClientClosing
         \/ pc' \in {"rest", "last", "exit"}
<1>1. CASE Connected
  BY <1>1 DEF Connected, connectSucceeds
<1>2. CASE UNCHANGED clientVars \/ Break
  BY <1>2 DEF Break, clientVars
<1>3. CASE ClientIdle
  <2>1. \/ pc' = pc
        \/ pc' = "connect" /\ pc = "socket"
        \/ pc' = "receive" /\ pc = "opened"
        \/ pc' = "reset" /\ pc \in {"none", "ended"}
        \/ pc' \in {"none", "ended"} /\ pc \in {"socket", "connect", "ended"}
        \/ pc' \in {"rest", "last", "exit"}
    BY <1>3 DEF ClientIdle, createSocket, createSocketFails, connectFails, setInactive, skipLoop,
              receiveNothing, receiveError, Stop, CS104_Connection_connect,
              CS104_Connection_startThreadless, CS104_Connection_close, startReturns, startFails,
              oldThreadEnds, connectReturns, closeReturns, sendASDU
  <2> QED
    BY <1>3, <2>1
<1>4. CASE resetConnection
  BY <1>4 DEF resetConnection
<1>5. CASE ClientReading
  BY <1>5 DEF ClientReading, receiveI, receiveS, receiveU, Stop
<1>6. CASE ClientWriting
  BY <1>6 DEF ClientWriting, noTimeout, timeoutT2, timeoutT3, timeoutEnds, Iterate,
              sendStartDT, sendStopDT
<1>7. CASE sendASDULocked
  BY <1>7 DEF sendASDULocked
<1>8. CASE ClientClosing
  BY <1>8 DEF ClientClosing, exitThread, CS104_Connection_stopThreadless
<1> QED
  BY <1>1, <1>2, <1>3, <1>4, <1>5, <1>6, <1>7, <1>8, NextCases

(* Every step keeps: no socket where the program has none. *)
LEMMA ClientLinkStep ==
  ASSUME LinkTypes, ClientLink, Next
  PROVE  ClientLink'
<1>0. "client" \in Ends /\ "server" \in Ends /\ peer("client") = "server" /\ peer("server") = "client"
  BY DEF Ends, peer
<1>1. ASSUME link["client"] = "none", ~Connected
      PROVE  link'["client"] = "none"
  <2>1. ASSUME NEW e \in Ends, NEW frames, CloseSocket(e, frames)
        PROVE  link'["client"] = "none"
    BY <1>0, <1>1, <2>1 DEF CloseSocket, LinkTypes, Ends
  <2>2. CASE Break
    BY <1>1, <2>2 DEF Break
  <2>3. CASE ClientIdle \/ ServerIdle
    BY <1>1, <2>3, IdleUnchanged DEF socket
  <2>4. CASE resetConnection
    BY <1>1, <2>4 DEF resetConnection, socket
  <2>5. CASE ClientReading
    BY <1>1, <2>5 DEF ClientReading, receiveI, receiveS, receiveU
  <2>6. CASE ClientWriting
    BY <1>1, <2>6 DEF ClientWriting, noTimeout, timeoutT2, timeoutT3, timeoutEnds, Iterate,
                      sendStartDT, sendStopDT
  <2>7. CASE sendASDULocked
    BY <1>1, <2>7 DEF sendASDULocked
  <2>8. CASE ClientClosing
    BY <1>0, <2>1, <2>8 DEF ClientClosing, exitThread, CS104_Connection_stopThreadless
  <2>9. CASE ServerReading
    BY <1>1, <2>9 DEF ServerReading, HandleI, HandleS, HandleTestFRAct, HandleTestFRCon,
                      HandleStartDT, HandleStopDT
  <2>10. CASE ServerSending
    BY <1>1, <2>10, ServerSendingCases DEF SendWaitingASDU
  <2>11. CASE BypassSend
    BY <1>1, <2>11 DEF BypassSend
  <2>12. CASE Reap
    BY <1>0, <2>1, <2>12 DEF Reap
  <2> QED
    BY <1>1, <2>2, <2>3, <2>4, <2>5, <2>6, <2>7, <2>8, <2>9, <2>10, <2>11, <2>12, NextCases
<1>2. CASE Connected
  BY <1>2 DEF Connected, connectSucceeds, ClientLink
<1>3. CASE ClientClosing
  BY <1>0, <1>3 DEF ClientClosing, exitThread, CS104_Connection_stopThreadless, CloseSocket,
                    LinkTypes, ClientLink
<1>4. CASE ~Connected /\ ~ClientClosing
  <2>1. CASE pc \in {"none", "reset", "socket", "connect", "ended"}
    BY <1>1, <1>4, <2>1 DEF ClientLink
  <2>2. CASE pc \notin {"none", "reset", "socket", "connect", "ended"}
    <3>1. ~resetConnection
      BY <2>2 DEF resetConnection
    <3>2. pc' \notin {"none", "reset", "socket", "connect", "ended"}
      BY <1>4, <2>2, <3>1, ProgramCounter
    <3> QED
      BY <3>2 DEF ClientLink
  <2> QED
    BY <2>1, <2>2
<1> QED
  BY <1>2, <1>3, <1>4

(* No step of the server touches the counters of the client. *)
LEMMA ServerCounters ==
  ASSUME CounterTypes, Domains, ServerReading \/ ServerSending \/ BypassSend \/ Reap
  PROVE  /\ sendCount'["client"] = sendCount["client"]
         /\ receiveCount'["client"] = receiveCount["client"]
         /\ sentASDUs'["client"] = sentASDUs["client"]
         /\ unconfirmed'["client"] = unconfirmed["client"]
<1>0. "client" \in Ends /\ "client" # "server"
  BY DEF Ends
<1>1. ASSUME NEW id, SendIMessage("server", id)
      PROVE  /\ sendCount'["client"] = sendCount["client"]
             /\ sentASDUs'["client"] = sentASDUs["client"]
             /\ unconfirmed'["client"] = unconfirmed["client"]
  BY <1>0, <1>1 DEF SendIMessage, CounterTypes, Domains
<1>2. CASE HandleI
  BY <1>0, <1>2 DEF HandleI, Confirm, CountIMessage, CounterTypes, Domains
<1>3. CASE HandleS
  BY <1>0, <1>3 DEF HandleS, Confirm, Domains
<1>4. CASE HandleStopDT
  BY <1>0, <1>4 DEF HandleStopDT, Domains
<1>5. CASE HandleTestFRAct \/ HandleTestFRCon \/ HandleStartDT
  BY <1>5 DEF HandleTestFRAct, HandleTestFRCon, HandleStartDT, counters
<1>6. CASE ServerSending
  <2>1. /\ receiveCount' = receiveCount
        /\ \/ \E id : SendIMessage("server", id)
           \/ UNCHANGED <<sendCount, sentASDUs>>
              /\ (unconfirmed' = unconfirmed \/ unconfirmed' = [unconfirmed EXCEPT !["server"] = 0])
    BY <1>6, ServerSendingCases DEF SendWaitingASDU
  <2> QED
    BY <1>0, <1>1, <2>1 DEF Domains
<1>7. CASE BypassSend
  BY <1>1, <1>7 DEF BypassSend
<1>8. CASE Reap
  BY <1>8 DEF Reap, counters
<1> QED
  BY <1>2, <1>3, <1>4, <1>5, <1>6, <1>7, <1>8 DEF ServerReading

(* Every step keeps: the counters of a new connection are zero. *)
LEMMA ClientFreshStep ==
  ASSUME CounterTypes, Domains, ClientRuns, ClientFresh, Next
  PROVE  ClientFresh'
<1>0. "client" \in Ends
  BY DEF Ends
<1>1. CASE resetConnection
  BY <1>0, <1>1 DEF resetConnection, ResetCounters, CounterTypes, Domains, ClientFresh
<1>2. CASE pc \in {"socket", "connect"} /\ pc' \in {"socket", "connect"}
  <2>1. ClientFresh'
    <3>1. CASE Connected
      BY <1>2, <3>1 DEF Connected, connectSucceeds
    <3>2. CASE Break
      BY <1>2, <3>2 DEF Break, counters, ClientFresh
    <3>3. CASE ClientIdle \/ ServerIdle
      BY <1>2, <3>3, IdleUnchanged DEF counters, ClientFresh
    <3>4. CASE ClientReading
      BY <1>2, <3>4 DEF ClientReading, receiveI, receiveS, receiveU
    <3>5. CASE ClientWriting
      <4>1. /\ UNCHANGED <<sendCount, receiveCount, sentASDUs>>
            /\ unconfirmed' = unconfirmed \/ unconfirmed' = [unconfirmed EXCEPT !["client"] = 0]
        BY <1>2, <3>5 DEF ClientWriting, noTimeout, timeoutT2, timeoutT3, timeoutEnds, Iterate,
                          sendStartDT, sendStopDT, counters
      <4> QED
        BY <1>0, <1>2, <4>1 DEF ClientFresh, Domains
    <3>6. CASE sendASDULocked
      BY <1>2, <3>6 DEF sendASDULocked, ClientRuns
    <3>7. CASE ClientClosing
      BY <1>2, <3>7 DEF ClientClosing, exitThread, CS104_Connection_stopThreadless
    <3>8. CASE ServerReading \/ ServerSending \/ BypassSend \/ Reap
      BY <1>2, <3>8, ServerCounters DEF ClientFresh
    <3> QED
      BY <1>1, <3>1, <3>2, <3>3, <3>4, <3>5, <3>6, <3>7, <3>8, NextCases
  <2> QED
    BY <2>1
<1>3. CASE pc' \notin {"socket", "connect"}
  BY <1>3 DEF ClientFresh
<1> QED
  BY <1>1, <1>2, <1>3, ProgramCounter

(* Every step keeps: less than w frames are not confirmed when the client  *)
(* reads.                                                                  *)
LEMMA ClientConfirmsStep ==
  ASSUME CounterTypes, Domains, UnconfirmedBound, ClientRuns, ClientFresh, ClientConfirms, Next
  PROVE  ClientConfirms'
<1>0. "client" \in Ends /\ w \in Nat /\ w > 0 /\ unconfirmed["client"] \in 0..w
  BY APCIAssumption DEF Ends, UnconfirmedBound
<1>1. CASE Connected
  <2>1. pc = "connect" /\ pc' = "opened"
    BY <1>1 DEF Connected, connectSucceeds
  <2>2. unconfirmed["client"] = 0 /\ (UNCHANGED unconfirmed \/ unconfirmed' = [unconfirmed EXCEPT !["server"] = 0])
    BY <1>1, <2>1 DEF Connected, accept, refuse, ResetCounters, counters, ClientFresh
  <2> QED
    BY <1>0, <2>1, <2>2 DEF ClientFresh, ClientConfirms, Domains, Ends
<1>2. CASE Break
  BY <1>2 DEF Break, counters, clientVars, ClientConfirms
<1>3. CASE ServerIdle /\ UNCHANGED clientVars
  BY <1>3, IdleUnchanged DEF counters, clientVars, ClientConfirms
<1>4. CASE ClientIdle
  <2>1. UNCHANGED unconfirmed
    BY <1>4, IdleUnchanged DEF counters
  <2>2. pc' \in {"opened", "receive"} => pc \in {"opened", "receive"}
    BY <1>4 DEF ClientIdle, createSocket, createSocketFails, connectFails, setInactive, skipLoop,
                receiveNothing, receiveError, Stop, CS104_Connection_connect,
                CS104_Connection_startThreadless, CS104_Connection_close, startReturns, startFails,
                oldThreadEnds, connectReturns, closeReturns, sendASDU
  <2> QED
    BY <2>1, <2>2 DEF ClientConfirms
<1>5. CASE resetConnection
  BY <1>5 DEF resetConnection, ClientConfirms
<1>6. CASE ClientReading
  BY <1>6 DEF ClientReading, receiveI, receiveS, receiveU, Stop, ClientConfirms
<1>7. CASE ClientWriting
  <2>1. CASE sendStartDT \/ sendStopDT
    <3>1. pc' = pc /\ (unconfirmed' = unconfirmed \/ unconfirmed' = [unconfirmed EXCEPT !["client"] = 0])
      BY <2>1 DEF sendStartDT, sendStopDT, counters
    <3> QED
      BY <1>0, <3>1 DEF ClientConfirms, Domains
  <2>2. ASSUME NEW t2, NEW frames, NEW stop, Iterate(t2, frames, stop)
        PROVE  ClientConfirms'
    <3>1. CASE unconfirmed["client"] >= w
      <4>1. unconfirmed' = [unconfirmed EXCEPT !["client"] = 0]
        BY <2>2, <3>1 DEF Iterate, mustConfirm
      <4> QED
        BY <1>0, <4>1 DEF ClientConfirms, Domains
    <3>2. CASE ~(unconfirmed["client"] >= w)
      <4>1. unconfirmed' = unconfirmed \/ unconfirmed' = [unconfirmed EXCEPT !["client"] = 0]
        BY <2>2 DEF Iterate
      <4> QED
        BY <1>0, <3>2, <4>1 DEF ClientConfirms, Domains
    <3> QED
      BY <3>1, <3>2
  <2> QED
    BY <1>7, <2>1, <2>2 DEF ClientWriting, noTimeout, timeoutT2, timeoutT3, timeoutEnds
<1>8. CASE sendASDULocked
  <2>1. pc' = pc /\ (unconfirmed' = unconfirmed \/ unconfirmed' = [unconfirmed EXCEPT !["client"] = 0])
    BY <1>8 DEF sendASDULocked, SendIMessage
  <2> QED
    BY <1>0, <2>1 DEF ClientConfirms, Domains
<1>9. CASE ClientClosing
  BY <1>9 DEF ClientClosing, exitThread, CS104_Connection_stopThreadless, ClientConfirms
<1>10. CASE UNCHANGED clientVars /\ (ServerReading \/ ServerSending \/ BypassSend \/ Reap)
  BY <1>10, ServerCounters DEF clientVars, ClientConfirms
<1> QED
  BY <1>1, <1>2, <1>3, <1>4, <1>5, <1>6, <1>7, <1>8, <1>9, <1>10, NextCases

(* Reading, writing and closing leave nothing under way to an end without  *)
(* a socket.                                                               *)
LEMMA WireInvShapes ==
  ASSUME LinkTypes, Domains, WireInv, NEW e \in Ends, NEW frames,
         \/ UNCHANGED link /\ wire[e] # <<>> /\ Reply(e, frames)
         \/ UNCHANGED link /\ Transmit(e, frames)
         \/ CloseSocket(e, frames)
  PROVE  WireInv'
<1>1. PICK p \in Ends : p = peer(e) /\ peer(p) = e /\ p # e /\ Ends = {e, p}
  BY DEF Ends, peer
<1>2. link[e] = "up" <=> link[p] = "up"
  BY <1>1 DEF LinkTypes, Ends
<1>3. CASE UNCHANGED link /\ wire[e] # <<>> /\ Reply(e, frames)
  <2>1. link[e] # "none"
    BY <1>3 DEF WireInv
  <2>2. link'[p] = "none" => wire'[p] = <<>>
    BY <1>1, <1>2, <1>3 DEF WireInv, Reply, Domains
  <2> QED
    BY <1>1, <1>3, <2>1, <2>2 DEF WireInv
<1>4. CASE UNCHANGED link /\ Transmit(e, frames)
  BY <1>1, <1>2, <1>4 DEF WireInv, Transmit, Domains
<1>5. CASE CloseSocket(e, frames)
  <2>1. link' = [link EXCEPT ![e] = "none", ![p] = IF link[e] = "up" THEN "closed" ELSE @]
    BY <1>1, <1>5 DEF CloseSocket
  <2>2. link'[p] = "none" => link[e] # "up" /\ link[p] = "none"
    BY <1>1, <2>1 DEF LinkTypes
  <2>3. CASE wire' = [x \in Ends |-> <<>>]
    BY <2>3 DEF WireInv
  <2>4. CASE wire' = [wire EXCEPT ![e] = <<>>, ![p] = IF link[e] = "up" THEN @ \o frames ELSE @]
    BY <1>1, <2>2, <2>4 DEF WireInv, Domains
  <2> QED
    BY <1>1, <1>5, <2>3, <2>4 DEF CloseSocket
<1> QED
  BY <1>3, <1>4, <1>5

(* Every step leaves nothing under way to an end without a socket. *)
LEMMA WireInvStep ==
  ASSUME LinkTypes, Domains, WireInv, ClientLink, Next
  PROVE  WireInv'
<1>0. "client" \in Ends /\ "server" \in Ends
  BY DEF Ends
<1>1. CASE Connected
  <2>1. CASE accept
    BY <2>1 DEF accept, WireInv
  <2>2. CASE refuse
    BY <1>0, <2>2 DEF refuse, WireInv, LinkTypes
  <2> QED
    BY <1>1, <2>1, <2>2 DEF Connected
<1>2. CASE Break
  BY <1>2 DEF Break, WireInv
<1>3. CASE ClientIdle \/ ServerIdle
  BY <1>3, IdleUnchanged DEF socket, WireInv
<1>4. CASE resetConnection
  BY <1>4 DEF resetConnection, socket, WireInv
<1>5. CASE ClientReading
  <2>1. UNCHANGED link /\ wire["client"] # <<>> /\ \E frames : Reply("client", frames)
    BY <1>5 DEF ClientReading, receiveI, receiveS, receiveU, received
  <2> QED
    BY <1>0, <2>1, WireInvShapes
<1>6. CASE ClientWriting
  <2>1. UNCHANGED link /\ \E frames : Transmit("client", frames)
    BY <1>6 DEF ClientWriting, noTimeout, timeoutT2, timeoutT3, timeoutEnds, Iterate,
                sendStartDT, sendStopDT
  <2> QED
    BY <1>0, <2>1, WireInvShapes
<1>7. CASE sendASDULocked
  <2>1. UNCHANGED link /\ (wire' = wire \/ \E frames : Transmit("client", frames))
    BY <1>7 DEF sendASDULocked
  <2> QED
    BY <1>0, <2>1, WireInvShapes DEF WireInv
<1>8. CASE ClientClosing
  BY <1>0, <1>8, WireInvShapes DEF ClientClosing, exitThread, CS104_Connection_stopThreadless
<1>9. CASE ServerReading
  <2>1. UNCHANGED link /\ wire["server"] # <<>> /\ \E frames : Reply("server", frames)
    BY <1>9 DEF ServerReading, HandleI, HandleS, HandleTestFRAct, HandleTestFRCon,
                HandleStartDT, HandleStopDT, received
  <2> QED
    BY <1>0, <2>1, WireInvShapes
<1>10. CASE ServerSending
  <2>1. UNCHANGED link /\ \E frames : Transmit("server", frames)
    BY <1>10, ServerSendingCases DEF SendWaitingASDU
  <2> QED
    BY <1>0, <2>1, WireInvShapes
<1>11. CASE BypassSend
  <2>1. UNCHANGED link /\ (wire' = wire \/ \E frames : Transmit("server", frames))
    BY <1>11 DEF BypassSend
  <2> QED
    BY <1>0, <2>1, WireInvShapes DEF WireInv
<1>12. CASE Reap
  BY <1>0, <1>12, WireInvShapes DEF Reap
<1> QED
  BY <1>1, <1>2, <1>3, <1>4, <1>5, <1>6, <1>7, <1>8, <1>9, <1>10, <1>11, <1>12, NextCases

(* TypeOK is the conjunction of its parts. *)
LEMMA TypeOKParts ==
  TypeOK <=> /\ LinkTypes /\ CounterTypes /\ ControlTypes
             /\ \A e \in Ends : Len(sentASDUs[e]) <= k /\ unconfirmed[e] \in 0..w
BY DEF TypeOK, LinkTypes, CounterTypes, ControlTypes, SeqNos

(* LinkInv is the conjunction of its parts. *)
LEMMA LinkInvParts ==
  LinkInv <=> /\ LinkTypes /\ CounterTypes /\ ControlTypes /\ UnconfirmedBound
              /\ ClientRuns /\ ClientFresh /\ ClientLink /\ ClientConfirms
              /\ Domains /\ WireInv /\ Channels /\ AcknowledgedWasReceived
<1>1. Channels => \A e \in Ends : Len(sentASDUs[e]) <= k
  BY DEF Channels, Channel, ChannelOK
<1> QED
  BY <1>1, TypeOKParts, ClientInvParts DEF LinkInv, UnconfirmedBound, Channels

(* LinkInv is inductive. *)
LEMMA LinkInvStep ==
  ASSUME LinkInv, Next
  PROVE  LinkInv'
<1>1. /\ LinkTypes /\ CounterTypes /\ ControlTypes /\ UnconfirmedBound
      /\ ClientRuns /\ ClientFresh /\ ClientLink /\ ClientConfirms
      /\ Domains /\ WireInv /\ Channels /\ ClientInv
  BY LinkInvParts, ClientInvParts
<1>2. LinkTypes' /\ CounterTypes' /\ ControlTypes'
  BY <1>1, LinkTypesStep, CounterTypesStep, ControlTypesStep
<1>3. UnconfirmedBound'
  BY <1>1, UnconfirmedBoundStep DEF Domains
<1>4. ClientRuns' /\ ClientFresh' /\ ClientLink' /\ ClientConfirms'
  BY <1>1, ClientRunsStep, ClientFreshStep, ClientLinkStep, ClientConfirmsStep
<1>5. WireInv'
  BY <1>1, WireInvStep
<1>6. Channels' /\ Domains' /\ AcknowledgedWasReceived'
  BY ChannelsStep
<1>7. LinkInv' <=> /\ LinkTypes' /\ CounterTypes' /\ ControlTypes' /\ UnconfirmedBound'
                   /\ ClientRuns' /\ ClientFresh' /\ ClientLink' /\ ClientConfirms'
                   /\ Domains' /\ WireInv' /\ Channels' /\ AcknowledgedWasReceived'
  BY LinkInvParts, PTL
<1> QED
  BY <1>2, <1>3, <1>4, <1>5, <1>6, <1>7

(* LinkInv holds initially. *)
LEMMA LinkInvInit ==
  ASSUME Init
  PROVE  LinkInv
<1>1. LinkTypes /\ Domains /\ WireInv /\ ClientLink
  BY DEF Init, APCIInit, ClientInit, LinkTypes, Domains, WireInv, ClientLink, Ends
<1>2. CounterTypes /\ UnconfirmedBound
  BY APCIAssumption DEF Init, APCIInit, CounterTypes, UnconfirmedBound, Ends, SeqNos
<1>3. ControlTypes /\ ClientRuns /\ ClientFresh /\ ClientConfirms
  BY DEF Init, ClientInit, MasterInit, ControlTypes, ClientRuns, ClientFresh, ClientConfirms
<1>4. AcknowledgedWasReceived
  BY DEF Init, APCIInit, AcknowledgedWasReceived, Ends, peer
<1>5. Channels
  <2> SUFFICES ASSUME NEW e \in Ends PROVE Channel(e)
    BY DEF Channels
  <2>1. peer(e) \in Ends
    BY DEF peer, Ends
  <2>2. /\ link[e] = "none" /\ sentASDUs[e] = <<>> /\ sendCount[e] = 0 /\ wire[e] = <<>>
        /\ wire[peer(e)] = <<>> /\ receiveCount[peer(e)] = 0 /\ unconfirmed[peer(e)] = 0
    BY <2>1 DEF Init, APCIInit
  <2>3. PICK none : none = <<>> /\ Frames(none)
    BY EmptyFrames
  <2>4. 0 \in SeqNos /\ 0 \in Nat
    BY APCIAssumption DEF SeqNos
  <2>5. ChannelOK("none", <<>>, 0, <<>>, none, 0, 0, got[peer(e)])
    BY <2>3, <2>4, FreshChannel
  <2> QED
    BY <2>2, <2>3, <2>5 DEF Channel
<1> QED
  BY <1>1, <1>2, <1>3, <1>4, <1>5, LinkInvParts

(* LinkInv depends on the variables of the system only. *)
LEMMA LinkInvStutters ==
  ASSUME LinkInv, UNCHANGED vars
  PROVE  LinkInv'
<1>1. UNCHANGED <<socket, counters, got, acked, error, budget, clientVars, masterVars>>
  BY DEF vars
<1>2. TypeOK' /\ ClientInv'
  BY <1>1 DEF LinkInv, TypeOK, ClientInv, socket, counters, clientVars, flags, timers, masterVars
<1>3. WireInv' /\ unconfirmed'["server"] < w
  BY <1>1 DEF LinkInv, WireInv, socket, counters
<1>4. Channels' /\ Domains' /\ AcknowledgedWasReceived'
  BY <1>1, SameStep DEF LinkInv, Channels
<1> QED
  BY <1>2, <1>3, <1>4 DEF LinkInv, Channels

-----------------------------------------------------------------------------
(* The types, and the bounds of the k-buffers and of what is not confirmed *)
(* yet, hold whatever k, w and the modulus of the sequence numbers are.    *)
THEOREM LinkTypeCorrect == Spec => []TypeOK
<1>1. Init => LinkInv
  BY LinkInvInit
<1>2. LinkInv /\ [Next]_vars => LinkInv'
  BY LinkInvStep, LinkInvStutters
<1>3. LinkInv => TypeOK
  BY DEF LinkInv
<1> QED
  BY <1>1, <1>2, <1>3, PTL DEF Spec

(* A frame leaves the k-buffer as acknowledged only when the application   *)
(* of the other end has received it (checkSequenceNumber, of both ends).   *)
THEOREM AcknowledgedReceived == Spec => []AcknowledgedWasReceived
<1>1. Init => LinkInv
  BY LinkInvInit
<1>2. LinkInv /\ [Next]_vars => LinkInv'
  BY LinkInvStep, LinkInvStutters
<1>3. LinkInv => AcknowledgedWasReceived
  BY DEF LinkInv
<1> QED
  BY <1>1, <1>2, <1>3, PTL DEF Spec

-----------------------------------------------------------------------------
(* Second part: no protocol error while nobody is hasty or raced. *)

Calm == ~error /\ ~hasty /\ ~raced

(* The I frames under way are those expected next, one after the other.    *)
InOrder(l, data, sc, rc) ==
  \E n \in [1..(Len(data) + 1) -> SeqNos] :
    /\ n[1] = rc
    /\ \A i \in 1..Len(data) :
         IF data[i].type = "I"
         THEN data[i].ns = n[i] /\ n[i + 1] = (n[i] + 1) % SeqMod
         ELSE n[i + 1] = n[i]
    /\ l = "up" => n[Len(data) + 1] = sc

Requests == {"STARTDT_ACT", "STOPDT_ACT"}
Answers == {"STARTDT_CON", "STOPDT_CON"}

(* The sequence s has no frame, or at most one, of the types T. *)
Clear(s, T) == \A i \in 1..Len(s) : s[i].type \notin T
Single(s, T) == \A i, j \in 1..Len(s) : s[i].type \in T /\ s[j].type \in T => i = j

(* A command reaches the server while it is started. *)
Commands(s, st) ==
  \A i \in 1..Len(s) : s[i].type = "I" =>
    st = "STARTED" /\ \A j \in 1..Len(s) : j < i => s[j].type \notin Requests

(* While the connection lasts, one request or its answer is under way, and *)
(* the two ends agree on what it is about: ws and wc are the frames that   *)
(* have reached the server and the client, whose states are st and cs.     *)
Exchange(ws, wc, cs, st) ==
  /\ Single(ws, Requests) /\ Single(wc, Answers)
  /\ Clear(ws, Requests) \/ Clear(wc, Answers)
  /\ Clear(ws, {"STARTDT_ACT"}) \/ cs \in {"WAITING_FOR_STARTDT_CON", "INACTIVE"}
  /\ Clear(wc, {"STARTDT_CON"})
     \/ (cs \in {"WAITING_FOR_STARTDT_CON", "INACTIVE"} /\ st = "STARTED")
  /\ Clear(ws, {"STOPDT_ACT"}) \/ (cs = "WAITING_FOR_STOPDT_CON" /\ st = "STARTED")
  /\ Clear(wc, {"STOPDT_CON"}) \/ (cs = "WAITING_FOR_STOPDT_CON" /\ st = "STOPPED")
  /\ cs = "ACTIVE" => st = "STARTED" /\ Clear(ws, Requests) /\ Clear(wc, Answers)
  /\ st = "UNCONFIRMED_STOPPED" =>
       cs = "WAITING_FOR_STOPDT_CON" /\ Clear(ws, Requests) /\ Clear(wc, Answers)

OrderInv == \A e \in Ends : InOrder(link[e], wire[peer(e)], sendCount[e], receiveCount[peer(e)])
CommandsInv == Commands(wire["server"], state)
StoppedInv == state = "STOPPED" /\ thread # "none" => sentASDUs["server"] = <<>>
AnswersInv == Clear(wire["client"], Requests)
Phases == link["client"] = "up" => Exchange(wire["server"], wire["client"], conState, state)
OpeningInv == pc \in {"socket", "connect", "opened"} => conState \in {"IDLE", "WAITING_FOR_STARTDT_CON"}

ProtocolInv ==
  OrderInv /\ CommandsInv /\ StoppedInv /\ AnswersInv /\ Phases /\ OpeningInv

IInv == LinkInv /\ NoProtocolError /\ (Calm => ProtocolInv)

(* Nothing under way is in order when both ends have the same number. *)
LEMMA OrderEmpty ==
  ASSUME NEW l, NEW s, Len(s) = 0, NEW sc \in SeqNos, NEW rc \in SeqNos, l = "up" => sc = rc
  PROVE  InOrder(l, s, sc, rc)
<1> DEFINE n == [i \in 1..(Len(s) + 1) |-> rc]
<1>1. n \in [1..(Len(s) + 1) -> SeqNos] /\ n[1] = rc
  OBVIOUS
<1> HIDE DEF n
<1> QED
  BY <1>1 DEF InOrder

(* When the connection ends nothing is asked of the last number any more. *)
LEMMA OrderOfEnds ==
  ASSUME NEW l, NEW l1, NEW s, NEW sc, NEW sc1, NEW rc, InOrder(l, s, sc, rc), l1 # "up"
  PROVE  InOrder(l1, s, sc1, rc)
BY DEF InOrder

(* The I frame that is read is the one expected, and the rest follows it. *)
LEMMA OrderTail ==
  ASSUME NEW l, NEW s, NEW sc, NEW rc, IsSeq(s), s # <<>>, InOrder(l, s, sc, rc)
  PROVE  /\ Head(s).type = "I" => Head(s).ns = rc /\ InOrder(l, Tail(s), sc, (rc + 1) % SeqMod)
         /\ Head(s).type # "I" => InOrder(l, Tail(s), sc, rc)
<1>1. /\ IsSeq(Tail(s)) /\ Len(s) \in Nat /\ Len(s) > 0 /\ Len(Tail(s)) = Len(s) - 1
      /\ Head(s) = s[1]
      /\ \A i \in 1..(Len(s) - 1) : Tail(s)[i] = s[i + 1]
  BY SeqTail
<1>2. PICK n \in [1..(Len(s) + 1) -> SeqNos] :
        /\ n[1] = rc
        /\ \A i \in 1..Len(s) :
             IF s[i].type = "I"
             THEN s[i].ns = n[i] /\ n[i + 1] = (n[i] + 1) % SeqMod
             ELSE n[i + 1] = n[i]
        /\ l = "up" => n[Len(s) + 1] = sc
  BY DEF InOrder
<1> DEFINE m == [i \in 1..Len(s) |-> n[i + 1]]
<1>3. m \in [1..(Len(Tail(s)) + 1) -> SeqNos]
  BY <1>1
<1>4. \A i \in 1..Len(s) : m[i] = n[i + 1]
  OBVIOUS
<1> HIDE DEF m
<1>5. ASSUME NEW i \in 1..Len(Tail(s))
      PROVE  IF Tail(s)[i].type = "I"
             THEN Tail(s)[i].ns = m[i] /\ m[i + 1] = (m[i] + 1) % SeqMod
             ELSE m[i + 1] = m[i]
  <2>1. PICK j \in 2..Len(s) : j = i + 1
    BY <1>1
  <2>2. Tail(s)[i] = s[j] /\ m[i] = n[j] /\ m[i + 1] = n[j + 1]
    BY <1>1, <1>4, <2>1
  <2>3. j \in 1..Len(s)
    BY <2>1
  <2>4. IF s[j].type = "I"
        THEN s[j].ns = n[j] /\ n[j + 1] = (n[j] + 1) % SeqMod
        ELSE n[j + 1] = n[j]
    BY <1>2, <2>3
  <2> QED
    BY <2>2, <2>4
<1>6. l = "up" => m[Len(Tail(s)) + 1] = sc
  BY <1>1, <1>2, <1>4
<1>7. InOrder(l, Tail(s), sc, m[1])
  BY <1>3, <1>5, <1>6 DEF InOrder
<1>8. m[1] = n[2] /\ 1 \in 1..Len(s)
  BY <1>1, <1>4
<1>9. IF s[1].type = "I"
      THEN s[1].ns = rc /\ n[2] = (rc + 1) % SeqMod
      ELSE n[2] = rc
  BY <1>2, <1>8
<1> QED
  BY <1>1, <1>7, <1>8, <1>9

(* Frames in order, and then more that continue them, are in order. *)
LEMMA OrderConcat ==
  ASSUME NEW l, NEW s, NEW t, NEW sc, NEW sc1, NEW rc, IsSeq(s), IsSeq(t),
         InOrder("up", s, sc, rc), InOrder(l, t, sc1, sc)
  PROVE  InOrder(l, s \o t, sc1, rc)
<1> DEFINE z == s \o t
<1>1. /\ IsSeq(z) /\ Len(s) \in Nat /\ Len(t) \in Nat /\ Len(z) = Len(s) + Len(t)
      /\ \A i \in 1..Len(s) : z[i] = s[i]
      /\ \A i \in 1..Len(t) : z[Len(s) + i] = t[i]
  BY SeqConcat
<1>2. PICK n \in [1..(Len(s) + 1) -> SeqNos] :
        /\ n[1] = rc
        /\ \A i \in 1..Len(s) :
             IF s[i].type = "I"
             THEN s[i].ns = n[i] /\ n[i + 1] = (n[i] + 1) % SeqMod
             ELSE n[i + 1] = n[i]
        /\ n[Len(s) + 1] = sc
  BY DEF InOrder
<1>3. PICK m \in [1..(Len(t) + 1) -> SeqNos] :
        /\ m[1] = sc
        /\ \A i \in 1..Len(t) :
             IF t[i].type = "I"
             THEN t[i].ns = m[i] /\ m[i + 1] = (m[i] + 1) % SeqMod
             ELSE m[i + 1] = m[i]
        /\ l = "up" => m[Len(t) + 1] = sc1
  BY DEF InOrder
<1> HIDE DEF z
<1> DEFINE q == [i \in 1..(Len(z) + 1) |-> IF i <= Len(s) THEN n[i] ELSE m[i - Len(s)]]
<1>4. q \in [1..(Len(z) + 1) -> SeqNos]
  <2>1. ASSUME NEW i \in 1..(Len(z) + 1)
        PROVE  (IF i <= Len(s) THEN n[i] ELSE m[i - Len(s)]) \in SeqNos
    <3>1. CASE i <= Len(s)
      BY <1>1, <3>1
    <3>2. CASE i > Len(s)
      <4>1. i - Len(s) \in 1..(Len(t) + 1)
        BY <1>1, <3>2
      <4> QED
        BY <1>1, <3>2, <4>1
    <3> QED
      BY <1>1, <3>1, <3>2
  <2> QED
    BY <2>1
<1>5. \A i \in 1..(Len(s) + 1) : q[i] = n[i]
  <2>1. ASSUME NEW i \in 1..(Len(s) + 1)
        PROVE  q[i] = n[i]
    <3>1. CASE i <= Len(s)
      BY <1>1, <3>1
    <3>2. CASE i = Len(s) + 1
      <4>1. q[i] = m[i - Len(s)] /\ i - Len(s) = 1
        BY <1>1, <3>2
      <4> QED
        BY <1>2, <1>3, <3>2, <4>1
    <3> QED
      BY <1>1, <3>1, <3>2
  <2> QED
    BY <2>1
<1>6. \A i \in 1..(Len(t) + 1) : q[Len(s) + i] = m[i]
  BY <1>1
<1> HIDE DEF q
<1>7. ASSUME NEW i \in 1..Len(z)
      PROVE  IF z[i].type = "I"
             THEN z[i].ns = q[i] /\ q[i + 1] = (q[i] + 1) % SeqMod
             ELSE q[i + 1] = q[i]
  <2>1. CASE i <= Len(s)
    <3>1. i \in 1..Len(s) /\ z[i] = s[i] /\ q[i] = n[i] /\ q[i + 1] = n[i + 1]
      BY <1>1, <1>5, <2>1
    <3> QED
      BY <1>2, <3>1
  <2>2. CASE i > Len(s)
    <3>0. i - Len(s) \in 1..Len(t)
      BY <1>1, <2>2
    <3>1. PICK j \in 1..Len(t) : j = i - Len(s)
      BY <3>0
    <3>2. i = Len(s) + j /\ i + 1 = Len(s) + (j + 1) /\ j + 1 \in 1..(Len(t) + 1)
      BY <1>1, <3>1
    <3>3. z[i] = t[j] /\ q[i] = m[j] /\ q[i + 1] = m[j + 1]
      BY <1>1, <1>6, <3>1, <3>2
    <3> QED
      BY <1>3, <3>1, <3>3
  <2> QED
    BY <1>1, <2>1, <2>2
<1>8. q[1] = rc
  BY <1>1, <1>2, <1>5
<1>9. l = "up" => q[Len(z) + 1] = sc1
  <2>1. Len(z) + 1 = Len(s) + (Len(t) + 1) /\ Len(t) + 1 \in 1..(Len(t) + 1)
    BY <1>1
  <2> QED
    BY <1>3, <1>6, <2>1
<1>10. InOrder(l, z, sc1, rc)
  BY <1>4, <1>7, <1>8, <1>9 DEF InOrder
<1> QED
  BY <1>10 DEF z

(* Frames without an I frame, and those that are neither a request nor an  *)
(* answer to one.                                                          *)
NoI(s) == Clear(s, {"I"})
Quiet(s) == Clear(s, Requests \cup Answers)

(* Frames that are not I frames do not count. *)
LEMMA OrderPlain ==
  ASSUME NEW l, NEW s, IsSeq(s), NoI(s), NEW sc \in SeqNos
  PROVE  InOrder(l, s, sc, sc)
<1> DEFINE n == [i \in 1..(Len(s) + 1) |-> sc]
<1>1. Len(s) \in Nat
  BY SeqFacts
<1>2. /\ n \in [1..(Len(s) + 1) -> SeqNos] /\ n[1] = sc /\ n[Len(s) + 1] = sc
      /\ \A i \in 1..Len(s) : n[i] = sc /\ n[i + 1] = sc
  BY <1>1
<1> HIDE DEF n
<1> QED
  BY <1>2 DEF InOrder, NoI, Clear

(* One I frame continues the order by one. *)
LEMMA OrderOneI ==
  ASSUME NEW l, NEW f, f.type = "I", NEW sc \in SeqNos, f.ns = sc
  PROVE  IsSeq(<<f>>) /\ InOrder(l, <<f>>, (sc + 1) % SeqMod, sc)
<1>1. PICK sc1 \in SeqNos : sc1 = (sc + 1) % SeqMod
  BY SeqNoNext
<1> DEFINE n == [i \in 1..2 |-> IF i = 1 THEN sc ELSE sc1]
<1>2. n \in [1..2 -> SeqNos] /\ n[1] = sc /\ n[2] = sc1
  OBVIOUS
<1>3. PICK s : s = <<f>>
  OBVIOUS
<1>4. Len(s) = 1 /\ s[1] = f /\ \A i \in 1..1 : i = 1
  BY <1>3
<1>5. s \in Seq({f})
  BY <1>3
<1> HIDE DEF n
<1>6. InOrder(l, s, sc1, sc)
  BY <1>1, <1>2, <1>4 DEF InOrder
<1> QED
  BY <1>1, <1>3, <1>5, <1>6, IsSeqOf

(* A prefix of frames in order is in order. *)
LEMMA OrderPrefix ==
  ASSUME NEW l, NEW l1, NEW s, NEW s1, NEW sc, NEW sc1, NEW rc, InOrder(l, s, sc, rc), l1 # "up",
         IsSeq(s), IsSeq(s1), Len(s1) <= Len(s), \A i \in 1..Len(s1) : s1[i] = s[i]
  PROVE  InOrder(l1, s1, sc1, rc)
<1>1. Len(s) \in Nat /\ Len(s1) \in Nat
  BY SeqFacts
<1>2. PICK n \in [1..(Len(s) + 1) -> SeqNos] :
        /\ n[1] = rc
        /\ \A i \in 1..Len(s) :
             IF s[i].type = "I"
             THEN s[i].ns = n[i] /\ n[i + 1] = (n[i] + 1) % SeqMod
             ELSE n[i + 1] = n[i]
  BY DEF InOrder
<1> DEFINE m == [i \in 1..(Len(s1) + 1) |-> n[i]]
<1>3. m \in [1..(Len(s1) + 1) -> SeqNos]
  BY <1>1
<1>4. m[1] = rc /\ \A i \in 1..Len(s1) : m[i] = n[i] /\ m[i + 1] = n[i + 1] /\ i \in 1..Len(s)
  BY <1>1, <1>2
<1> HIDE DEF m
<1>5. ASSUME NEW i \in 1..Len(s1)
      PROVE  IF s1[i].type = "I"
             THEN s1[i].ns = m[i] /\ m[i + 1] = (m[i] + 1) % SeqMod
             ELSE m[i + 1] = m[i]
  <2>1. i \in 1..Len(s) /\ s1[i] = s[i] /\ m[i] = n[i] /\ m[i + 1] = n[i + 1]
    BY <1>4
  <2>2. IF s[i].type = "I"
        THEN s[i].ns = n[i] /\ n[i + 1] = (n[i] + 1) % SeqMod
        ELSE n[i + 1] = n[i]
    BY <1>2, <2>1
  <2> QED
    BY <2>1, <2>2
<1> QED
  BY <1>3, <1>4, <1>5 DEF InOrder

OrderAt(x) == InOrder(link[x], wire[peer(x)], sendCount[x], receiveCount[peer(x)])

(* The order holds when it holds at one end and at the other. *)
LEMMA OrderAtBoth ==
  ASSUME NEW e \in Ends
  PROVE  OrderInv <=> OrderAt(e) /\ OrderAt(peer(e))
BY Peers DEF OrderInv, OrderAt

(* The end e reads a frame and answers. *)
LEMMA OrderReply ==
  ASSUME NEW e \in Ends, NEW fs, LinkTypes, CounterTypes, Domains, Channels, OrderInv,
         wire[e] # <<>>, UNCHANGED <<link, sendCount>>, Reply(e, fs), IsSeq(fs), NoI(fs),
         IF Head(wire[e]).type = "I"
         THEN receiveCount' = [receiveCount EXCEPT ![e] = (receiveCount[e] + 1) % SeqMod]
         ELSE receiveCount' = receiveCount
  PROVE  OrderInv'
<1>1. PICK p \in Ends : p = peer(e) /\ peer(p) = e /\ p # e
  BY Peers
<1>2. OrderAt(e) /\ OrderAt(p)
  BY <1>1, OrderAtBoth
<1>3. IsSeq(wire[e]) /\ IsSeq(wire[p]) /\ sendCount[e] \in SeqNos
  BY <1>1, ChannelTypes DEF Frames, CounterTypes
<1>4. wire'[e] = Tail(wire[e]) /\ wire'[p] = IF link[e] = "up" THEN wire[p] \o fs ELSE wire[p]
  BY <1>1 DEF Reply, Domains
<1>5. OrderAt(p)'
  <2>1. InOrder(link[p], wire[e], sendCount[p], receiveCount[e])
    BY <1>1, <1>2 DEF OrderAt
  <2>2. InOrder(link[p], Tail(wire[e]), sendCount[p], receiveCount'[e])
    <3>1. CASE Head(wire[e]).type = "I"
      <4>1. receiveCount'[e] = (receiveCount[e] + 1) % SeqMod
        BY <3>1 DEF CounterTypes
      <4> QED
        BY <1>3, <2>1, <3>1, <4>1, OrderTail
    <3>2. CASE Head(wire[e]).type # "I"
      BY <1>3, <2>1, <3>2, OrderTail
    <3> QED
      BY <3>1, <3>2
  <2> QED
    BY <1>1, <1>4, <2>2 DEF OrderAt
<1>6. OrderAt(e)'
  <2>1. receiveCount'[p] = receiveCount[p]
    BY <1>1 DEF CounterTypes
  <2>2. InOrder(link[e], wire[p], sendCount[e], receiveCount[p])
    BY <1>1, <1>2 DEF OrderAt
  <2>3. InOrder(link[e], wire'[p], sendCount[e], receiveCount[p])
    <3>1. CASE link[e] = "up"
      <4>1. InOrder("up", fs, sendCount[e], sendCount[e])
        BY <1>3, OrderPlain
      <4>2. InOrder("up", wire[p] \o fs, sendCount[e], receiveCount[p])
        BY <1>3, <2>2, <3>1, <4>1, OrderConcat
      <4> QED
        BY <1>4, <3>1, <4>2
    <3>2. CASE link[e] # "up"
      BY <1>4, <2>2, <3>2
    <3> QED
      BY <3>1, <3>2
  <2> QED
    BY <1>1, <2>1, <2>3 DEF OrderAt
<1>7. OrderInv' <=> OrderAt(e)' /\ OrderAt(peer(e))'
  BY <1>1, Peers DEF OrderInv, OrderAt
<1> QED
  BY <1>1, <1>5, <1>6, <1>7

(* The end e writes. *)
LEMMA OrderTransmit ==
  ASSUME NEW e \in Ends, NEW fs, LinkTypes, CounterTypes, Domains, Channels, OrderInv,
         UNCHANGED <<link, receiveCount>>, Transmit(e, fs), IsSeq(fs),
         link[e] = "up" => InOrder("up", fs, sendCount'[e], sendCount[e]),
         sendCount'[peer(e)] = sendCount[peer(e)]
  PROVE  OrderInv'
<1>1. PICK p \in Ends : p = peer(e) /\ peer(p) = e /\ p # e
  BY Peers
<1>2. OrderAt(e) /\ OrderAt(p)
  BY <1>1, OrderAtBoth
<1>3. IsSeq(wire[p])
  BY <1>1, ChannelTypes DEF Frames
<1>4. wire'[e] = wire[e] /\ wire'[p] = IF link[e] = "up" THEN wire[p] \o fs ELSE wire[p]
  BY <1>1 DEF Transmit, Domains
<1>5. OrderAt(p)'
  BY <1>1, <1>2, <1>4 DEF OrderAt
<1>6. OrderAt(e)'
  <2>1. InOrder(link[e], wire[p], sendCount[e], receiveCount[p])
    BY <1>1, <1>2 DEF OrderAt
  <2>2. InOrder(link[e], wire'[p], sendCount'[e], receiveCount[p])
    <3>1. CASE link[e] = "up"
      <4>1. InOrder("up", wire[p], sendCount[e], receiveCount[p])
        BY <2>1, <3>1
      <4>2. PICK sc1 : sc1 = sendCount'[e]
        OBVIOUS
      <4>3. InOrder("up", fs, sc1, sendCount[e])
        BY <3>1, <4>2
      <4>4. InOrder("up", wire[p] \o fs, sc1, receiveCount[p])
        BY <1>3, <4>1, <4>3, OrderConcat
      <4> QED
        BY <1>4, <3>1, <4>2, <4>4
    <3>2. CASE link[e] # "up"
      BY <1>4, <2>1, <3>2, OrderOfEnds
    <3> QED
      BY <3>1, <3>2
  <2> QED
    BY <1>1, <2>2 DEF OrderAt
<1>7. OrderInv' <=> OrderAt(e)' /\ OrderAt(peer(e))'
  BY <1>1, Peers DEF OrderInv, OrderAt
<1> QED
  BY <1>1, <1>5, <1>6, <1>7

(* The end e closes its socket. *)
LEMMA OrderClose ==
  ASSUME NEW e \in Ends, NEW fs, LinkTypes, CounterTypes, Domains, Channels, OrderInv,
         UNCHANGED <<sendCount, receiveCount>>, CloseSocket(e, fs), IsSeq(fs), NoI(fs)
  PROVE  OrderInv'
<1>1. PICK p \in Ends : p = peer(e) /\ peer(p) = e /\ p # e /\ Ends = {e, p}
  BY DEF Ends, peer
<1>2. OrderAt(e) /\ OrderAt(p)
  BY <1>1, OrderAtBoth
<1>3. IsSeq(wire[p]) /\ sendCount[e] \in SeqNos /\ sendCount[p] \in SeqNos
      /\ receiveCount[e] \in SeqNos /\ receiveCount[p] \in SeqNos
  BY <1>1, ChannelTypes DEF Frames, CounterTypes
<1>4. link'[e] # "up" /\ link'[p] # "up"
  <2>1. link' = [link EXCEPT ![e] = "none", ![p] = IF link[e] = "up" THEN "closed" ELSE @]
    BY <1>1 DEF CloseSocket
  <2>2. link[e] = "up" <=> link[p] = "up"
    BY <1>1 DEF LinkTypes, Ends
  <2> QED
    BY <1>1, <2>1, <2>2 DEF LinkTypes
<1>5. /\ wire'[e] = <<>>
      /\ wire'[p] = <<>> \/ wire'[p] = wire[p] \/ (link[e] = "up" /\ wire'[p] = wire[p] \o fs)
  BY <1>1 DEF CloseSocket, Domains
<1>6. OrderAt(p)'
  BY <1>1, <1>3, <1>4, <1>5, OrderEmpty DEF OrderAt
<1>7. OrderAt(e)'
  <2>1. InOrder(link[e], wire[p], sendCount[e], receiveCount[p])
    BY <1>1, <1>2 DEF OrderAt
  <2>2. PICK l1 : l1 = link'[e] /\ l1 # "up"
    BY <1>4
  <2>3. CASE wire'[p] = <<>>
    BY <1>1, <1>3, <2>2, <2>3, OrderEmpty DEF OrderAt
  <2>4. CASE wire'[p] = wire[p]
    BY <1>1, <2>1, <2>2, <2>4, OrderOfEnds DEF OrderAt
  <2>5. CASE link[e] = "up" /\ wire'[p] = wire[p] \o fs
    <3>1. InOrder("up", fs, sendCount[e], sendCount[e])
      BY <1>3, OrderPlain
    <3>2. InOrder("up", wire[p] \o fs, sendCount[e], receiveCount[p])
      BY <1>3, <2>1, <2>5, <3>1, OrderConcat
    <3>3. InOrder(l1, wire[p] \o fs, sendCount[e], receiveCount[p])
      BY <2>2, <3>2, OrderOfEnds
    <3> QED
      BY <1>1, <2>2, <2>5, <3>3 DEF OrderAt
  <2> QED
    BY <1>5, <2>3, <2>4, <2>5
<1>8. OrderInv' <=> OrderAt(e)' /\ OrderAt(peer(e))'
  BY <1>1, Peers DEF OrderInv, OrderAt
<1> QED
  BY <1>1, <1>6, <1>7, <1>8

(* The empty sequence is clear of every type. *)
LEMMA ClearEmpty == \A T : IsSeq(<<>>) /\ Clear(<<>>, T) /\ Single(<<>>, T)
BY EmptyFrames DEF Clear, Single

(* One frame is clear of the types it has not. *)
LEMMA ClearOne ==
  ASSUME NEW f, NEW T
  PROVE  IsSeq(<<f>>) /\ Single(<<f>>, T) /\ (f.type \notin T => Clear(<<f>>, T))
<1>1. PICK s : s = <<f>>
  OBVIOUS
<1>2. s \in Seq({f}) /\ Len(s) = 1 /\ s[1] = f /\ \A i \in 1..1 : i = 1
  BY <1>1
<1>3. IsSeq(s)
  BY <1>2, IsSeqOf
<1>4. Single(s, T) /\ (f.type \notin T => Clear(s, T))
  BY <1>2 DEF Single, Clear
<1> QED
  BY <1>1, <1>3, <1>4

(* Reading a frame brings no type back; the only one of its types was the  *)
(* last.                                                                   *)
LEMMA ClearTail ==
  ASSUME NEW s, NEW T, IsSeq(s), s # <<>>
  PROVE  /\ Clear(s, T) => Clear(Tail(s), T) /\ Head(s).type \notin T
         /\ Single(s, T) => Single(Tail(s), T)
         /\ Single(s, T) /\ Head(s).type \in T => Clear(Tail(s), T)
<1>1. /\ Len(s) \in Nat /\ Len(s) > 0 /\ Len(Tail(s)) = Len(s) - 1
      /\ Head(s) = s[1]
      /\ \A i \in 1..(Len(s) - 1) : Tail(s)[i] = s[i + 1]
  BY SeqTail
<1>2. ASSUME NEW i \in 1..Len(Tail(s))
      PROVE  i + 1 \in 1..Len(s) /\ i + 1 # 1 /\ Tail(s)[i] = s[i + 1]
  BY <1>1
<1>3. Clear(s, T) => Clear(Tail(s), T) /\ Head(s).type \notin T
  <2>1. 1 \in 1..Len(s)
    BY <1>1
  <2> QED
    BY <1>1, <1>2, <2>1 DEF Clear
<1>4. ASSUME Single(s, T), NEW i \in 1..Len(Tail(s)), NEW j \in 1..Len(Tail(s)),
             Tail(s)[i].type \in T, Tail(s)[j].type \in T
      PROVE  i = j
  <2>1. PICK i1 \in 1..Len(s) : i1 = i + 1 /\ Tail(s)[i] = s[i1]
    BY <1>2
  <2>2. PICK j1 \in 1..Len(s) : j1 = j + 1 /\ Tail(s)[j] = s[j1]
    BY <1>2
  <2>3. i1 = j1
    BY <1>4, <2>1, <2>2 DEF Single
  <2> QED
    BY <1>1, <2>1, <2>2, <2>3
<1>5. ASSUME Single(s, T), Head(s).type \in T, NEW i \in 1..Len(Tail(s)), Tail(s)[i].type \in T
      PROVE  FALSE
  <2>1. PICK i1 \in 1..Len(s) : i1 = i + 1 /\ i1 # 1 /\ Tail(s)[i] = s[i1]
    BY <1>2
  <2>2. 1 \in 1..Len(s) /\ s[1].type \in T /\ s[i1].type \in T
    BY <1>1, <1>5, <2>1
  <2> QED
    BY <1>5, <2>1, <2>2 DEF Single
<1>6. Single(s, T) => Single(Tail(s), T)
  BY <1>4 DEF Single
<1>7. Single(s, T) /\ Head(s).type \in T => Clear(Tail(s), T)
  BY <1>5 DEF Clear
<1> QED
  BY <1>3, <1>6, <1>7

(* A sequence is clear of types when both its parts are. *)
LEMMA ClearConcat ==
  ASSUME NEW s, NEW t, NEW T, IsSeq(s), IsSeq(t)
  PROVE  /\ IsSeq(s \o t)
         /\ Clear(s \o t, T) <=> Clear(s, T) /\ Clear(t, T)
         /\ Single(s, T) /\ Clear(t, T) => Single(s \o t, T)
         /\ Clear(s, T) /\ Single(t, T) => Single(s \o t, T)
<1> DEFINE z == s \o t
<1>1. /\ IsSeq(z) /\ Len(s) \in Nat /\ Len(t) \in Nat /\ Len(z) = Len(s) + Len(t)
      /\ \A i \in 1..Len(s) : z[i] = s[i]
      /\ \A i \in 1..Len(t) : z[Len(s) + i] = t[i]
  BY SeqConcat
<1> HIDE DEF z
<1>2. ASSUME NEW i \in 1..Len(z)
      PROVE  \/ i \in 1..Len(s) /\ z[i] = s[i]
             \/ \E j \in 1..Len(t) : i = Len(s) + j /\ z[i] = t[j]
  <2>1. CASE i <= Len(s)
    BY <1>1, <2>1
  <2>2. CASE i > Len(s)
    <3>1. i - Len(s) \in 1..Len(t)
      BY <1>1, <2>2
    <3>2. PICK j \in 1..Len(t) : j = i - Len(s)
      BY <3>1
    <3>3. i = Len(s) + j
      BY <1>1, <3>2
    <3> QED
      BY <1>1, <3>3
  <2> QED
    BY <1>1, <2>1, <2>2
<1>3. Clear(s, T) /\ Clear(t, T) => Clear(z, T)
  BY <1>2 DEF Clear
<1>4. Clear(z, T) => Clear(s, T)
  BY <1>1 DEF Clear
<1>5. Clear(z, T) => Clear(t, T)
  <2>1. \A i \in 1..Len(t) : Len(s) + i \in 1..Len(z)
    BY <1>1
  <2> QED
    BY <1>1, <2>1 DEF Clear
<1>6. Single(s, T) /\ Clear(t, T) => Single(z, T)
  <2>1. ASSUME Clear(t, T), NEW i \in 1..Len(z), z[i].type \in T
        PROVE  i \in 1..Len(s) /\ z[i] = s[i]
    BY <1>2, <2>1 DEF Clear
  <2> QED
    BY <2>1 DEF Single
<1>7. Clear(s, T) /\ Single(t, T) => Single(z, T)
  <2>1. ASSUME Clear(s, T), NEW i \in 1..Len(z), z[i].type \in T
        PROVE  \E j \in 1..Len(t) : i = Len(s) + j /\ z[i] = t[j]
    BY <1>2, <2>1 DEF Clear
  <2>2. ASSUME Clear(s, T), Single(t, T), NEW i \in 1..Len(z), NEW j \in 1..Len(z),
               z[i].type \in T, z[j].type \in T
        PROVE  i = j
    <3>1. PICK i1 \in 1..Len(t) : i = Len(s) + i1 /\ z[i] = t[i1]
      BY <2>1, <2>2
    <3>2. PICK j1 \in 1..Len(t) : j = Len(s) + j1 /\ z[j] = t[j1]
      BY <2>1, <2>2
    <3>3. i1 = j1
      BY <2>2, <3>1, <3>2 DEF Single
    <3> QED
      BY <3>1, <3>2, <3>3
  <2> QED
    BY <2>2 DEF Single
<1>8. /\ IsSeq(z) /\ (Clear(z, T) <=> Clear(s, T) /\ Clear(t, T))
      /\ Single(s, T) /\ Clear(t, T) => Single(z, T)
      /\ Clear(s, T) /\ Single(t, T) => Single(z, T)
  BY <1>1, <1>3, <1>4, <1>5, <1>6, <1>7
<1> QED
  BY <1>8 DEF z

(* s1 has no other requests and answers than s. *)
Quieter(s1, s) ==
  \A T \in SUBSET (Requests \cup Answers) :
    (Clear(s, T) => Clear(s1, T)) /\ (Single(s, T) => Single(s1, T))

(* Reading a frame leaves it as quiet. *)
LEMMA QuieterTail ==
  ASSUME NEW s, IsSeq(s), s # <<>>
  PROVE  Quieter(Tail(s), s)
BY ClearTail DEF Quieter

(* Frames that are neither requests nor answers leave it as quiet. *)
LEMMA QuieterConcat ==
  ASSUME NEW s, NEW t, IsSeq(s), IsSeq(t), Quiet(t)
  PROVE  Quieter(s \o t, s)
<1> SUFFICES ASSUME NEW T \in SUBSET (Requests \cup Answers)
             PROVE  (Clear(s, T) => Clear(s \o t, T)) /\ (Single(s, T) => Single(s \o t, T))
  BY DEF Quieter
<1>1. Clear(t, T)
  BY DEF Quiet, Clear
<1> QED
  BY <1>1, ClearConcat

(* The same frames are as quiet. *)
LEMMA QuieterSame ==
  ASSUME NEW s
  PROVE  Quieter(s, s)
BY DEF Quieter

(* Fewer requests and answers under way do not disturb the exchange. *)
LEMMA ExchangeQuiet ==
  ASSUME NEW ws, NEW wc, NEW cs, NEW st, Exchange(ws, wc, cs, st),
         NEW ws1, Quieter(ws1, ws), NEW wc1, Quieter(wc1, wc)
  PROVE  Exchange(ws1, wc1, cs, st)
<1>1. \A T \in {Requests, Answers, {"STARTDT_ACT"}, {"STARTDT_CON"}, {"STOPDT_ACT"}, {"STOPDT_CON"}} :
        T \in SUBSET (Requests \cup Answers)
  BY DEF Requests, Answers
<1>2. /\ \A T \in {Requests, {"STARTDT_ACT"}, {"STOPDT_ACT"}} : Clear(ws, T) => Clear(ws1, T)
      /\ \A T \in {Answers, {"STARTDT_CON"}, {"STOPDT_CON"}} : Clear(wc, T) => Clear(wc1, T)
      /\ Single(ws, Requests) => Single(ws1, Requests)
      /\ Single(wc, Answers) => Single(wc1, Answers)
  BY <1>1 DEF Quieter
<1> QED
  BY <1>2 DEF Exchange

(* A command is read in state STARTED, and none follows a request. *)
LEMMA CommandsTail ==
  ASSUME NEW s, NEW st, IsSeq(s), s # <<>>, Commands(s, st)
  PROVE  /\ Commands(Tail(s), st)
         /\ Head(s).type = "I" => st = "STARTED"
         /\ Head(s).type \in Requests => NoI(Tail(s))
<1>1. /\ Len(s) \in Nat /\ Len(s) > 0 /\ Len(Tail(s)) = Len(s) - 1
      /\ Head(s) = s[1]
      /\ \A i \in 1..(Len(s) - 1) : Tail(s)[i] = s[i + 1]
  BY SeqTail
<1>2. ASSUME NEW i \in 1..Len(Tail(s))
      PROVE  i + 1 \in 1..Len(s) /\ 1 < i + 1 /\ Tail(s)[i] = s[i + 1]
  BY <1>1
<1>3. Commands(Tail(s), st)
  <2>1. ASSUME NEW i \in 1..Len(Tail(s)), Tail(s)[i].type = "I"
        PROVE  st = "STARTED" /\ \A j \in 1..Len(Tail(s)) : j < i => Tail(s)[j].type \notin Requests
    <3>1. PICK i1 \in 1..Len(s) : i1 = i + 1 /\ Tail(s)[i] = s[i1]
      BY <1>2
    <3>2. st = "STARTED" /\ \A j \in 1..Len(s) : j < i1 => s[j].type \notin Requests
      BY <2>1, <3>1 DEF Commands
    <3>3. ASSUME NEW j \in 1..Len(Tail(s)), j < i
          PROVE  Tail(s)[j].type \notin Requests
      <4>1. PICK j1 \in 1..Len(s) : j1 = j + 1 /\ Tail(s)[j] = s[j1]
        BY <1>2
      <4>2. j1 < i1
        BY <1>1, <3>1, <3>3, <4>1
      <4> QED
        BY <3>2, <4>1, <4>2
    <3> QED
      BY <3>2, <3>3
  <2> QED
    BY <2>1 DEF Commands
<1>4. Head(s).type = "I" => st = "STARTED"
  <2>1. 1 \in 1..Len(s)
    BY <1>1
  <2> QED
    BY <1>1, <2>1 DEF Commands
<1>5. ASSUME Head(s).type \in Requests, NEW i \in 1..Len(Tail(s)), Tail(s)[i].type = "I"
      PROVE  FALSE
  <2>1. PICK i1 \in 1..Len(s) : 1 < i1 /\ Tail(s)[i] = s[i1]
    BY <1>2
  <2>2. 1 \in 1..Len(s)
    BY <1>1
  <2>3. s[1].type \notin Requests
    BY <1>5, <2>1, <2>2 DEF Commands
  <2> QED
    BY <1>1, <1>5, <2>3
<1>6. Head(s).type \in Requests => NoI(Tail(s))
  BY <1>5 DEF NoI, Clear
<1> QED
  BY <1>3, <1>4, <1>6

(* Without I frames there is no command. *)
LEMMA CommandsNoI ==
  ASSUME NEW s, NEW st, NoI(s)
  PROVE  Commands(s, st)
BY DEF NoI, Clear, Commands

(* Commands may follow while no request is under way. *)
LEMMA CommandsConcat ==
  ASSUME NEW s, NEW t, NEW st, IsSeq(s), IsSeq(t), Commands(s, st),
         NoI(t) \/ (st = "STARTED" /\ Clear(s, Requests) /\ Clear(t, Requests))
  PROVE  Commands(s \o t, st)
<1> DEFINE z == s \o t
<1>1. /\ IsSeq(z) /\ Len(s) \in Nat /\ Len(t) \in Nat /\ Len(z) = Len(s) + Len(t)
      /\ \A i \in 1..Len(s) : z[i] = s[i]
      /\ \A i \in 1..Len(t) : z[Len(s) + i] = t[i]
  BY SeqConcat
<1>2. Clear(z, Requests) <=> Clear(s, Requests) /\ Clear(t, Requests)
  BY ClearConcat
<1> HIDE DEF z
<1>3. ASSUME st = "STARTED" /\ Clear(s, Requests) /\ Clear(t, Requests)
      PROVE  Commands(z, st)
  BY <1>2, <1>3 DEF Commands, Clear
<1>4. ASSUME NoI(t)
      PROVE  Commands(z, st)
  <2>1. ASSUME NEW i \in 1..Len(z), z[i].type = "I"
        PROVE  i \in 1..Len(s) /\ z[i] = s[i]
    <3>1. CASE i <= Len(s)
      BY <1>1, <3>1
    <3>2. CASE i > Len(s)
      <4>1. i - Len(s) \in 1..Len(t)
        BY <1>1, <3>2
      <4>2. PICK j \in 1..Len(t) : j = i - Len(s)
        BY <4>1
      <4>3. i = Len(s) + j
        BY <1>1, <4>2
      <4>4. z[i] = t[j]
        BY <1>1, <4>3
      <4>5. t[j].type # "I"
        BY <1>4 DEF NoI, Clear
      <4> QED
        BY <2>1, <4>4, <4>5
    <3> QED
      BY <1>1, <3>1, <3>2
  <2>2. ASSUME NEW i \in 1..Len(z), z[i].type = "I"
        PROVE  st = "STARTED" /\ \A j \in 1..Len(z) : j < i => z[j].type \notin Requests
    <3>1. i \in 1..Len(s) /\ z[i] = s[i]
      BY <2>1, <2>2
    <3>2. st = "STARTED" /\ \A j \in 1..Len(s) : j < i => s[j].type \notin Requests
      BY <2>2, <3>1 DEF Commands
    <3>3. \A j \in 1..Len(z) : j < i => j \in 1..Len(s) /\ z[j] = s[j]
      BY <1>1, <3>1
    <3> QED
      BY <3>2, <3>3
  <2> QED
    BY <2>2 DEF Commands
<1>5. Commands(z, st)
  BY <1>3, <1>4
<1> QED
  BY <1>5 DEF z

(* A prefix of the frames has no more commands. *)
LEMMA CommandsPrefix ==
  ASSUME NEW s, NEW st, NEW s1, IsSeq(s), IsSeq(s1), Commands(s, st),
         Len(s1) <= Len(s), \A i \in 1..Len(s1) : s1[i] = s[i]
  PROVE  Commands(s1, st)
<1>1. Len(s) \in Nat /\ Len(s1) \in Nat
  BY SeqFacts
<1>2. \A i \in 1..Len(s1) : i \in 1..Len(s)
  BY <1>1
<1> QED
  BY <1>2 DEF Commands

(* The types of the frames that are written. *)
LEMMA FrameTypes ==
  /\ \A e : S(e).type = "S"
  /\ \A e, id : I(e, id).type = "I" /\ I(e, id).ns = sendCount[e]
  /\ \A t : U(t).type = t
BY DEF S, I, U

(* An N(R) is always plausible, and an S frame acknowledges a frame. *)
LEMMA PlausibleNR ==
  ASSUME Channels, NEW e \in Ends, wire[e] # <<>>, Acknowledges(Head(wire[e]))
  PROVE  /\ seqNoIsValid(e, Head(wire[e]).nr)
         /\ Head(wire[e]).type = "S" => sentASDUs[e] # <<>>
<1> DEFINE ids == sentASDUs[e]
           sc == sendCount[e]
           acks == wire[e]
<1>1. PICK R \in 0..Len(ids) : AcknowledgedUpTo(R, ids, sc, acks, got[peer(e)])
  BY DEF Channels, Channel, ChannelOK
<1>2. IsSeq(ids) /\ Len(ids) <= k /\ sc \in SeqNos /\ Frames(acks)
  BY DEF Channels, Channel, ChannelOK
<1>3. Len(ids) \in Nat
  BY <1>2, SeqFacts
<1>4. Head(acks) = acks[1] /\ 1 \in 1..Len(acks) /\ FrameOK(acks[1])
  BY <1>2, FramesTail
<1>5. acks[1].nr \in SeqNos
  BY <1>4 DEF FrameOK
<1>6. Distance(ids, sc, acks[1].nr) <= R /\ (acks[1].type = "S" => Distance(ids, sc, acks[1].nr) > 0)
  BY <1>1, <1>4 DEF AcknowledgedUpTo
<1>7. PICK d \in Int : d = Distance(ids, sc, acks[1].nr)
  <2>1. Len(ids) \in 0..k
    BY <1>2, <1>3, APCIAssumption
  <2> QED
    BY <1>2, <1>5, <2>1, DistanceValue, APCIAssumption DEF Distance, SeqNos
<1>8. acknowledges(e, Head(acks).nr) = d
  BY <1>4, <1>7 DEF acknowledges, Distance
<1>9. d <= Len(ids)
  BY <1>3, <1>6, <1>7
<1>10. ids = <<>> => Len(ids) = 0
  OBVIOUS
<1> QED
  BY <1>3, <1>4, <1>6, <1>7, <1>8, <1>9, <1>10 DEF seqNoIsValid

(* While nobody was hasty or raced, the I frame that is read is the one    *)
(* expected.                                                               *)
LEMMA ExpectedI ==
  ASSUME Channels, OrderInv, NEW e \in Ends, wire[e] # <<>>, Head(wire[e]).type = "I"
  PROVE  Head(wire[e]).ns = receiveCount[e]
<1>1. PICK p \in Ends : p = peer(e) /\ peer(p) = e
  BY Peers
<1>2. InOrder(link[p], wire[e], sendCount[p], receiveCount[e])
  BY <1>1 DEF OrderInv
<1>3. IsSeq(wire[e])
  BY ChannelTypes DEF Frames
<1> QED
  BY <1>2, <1>3, OrderTail

(* A frame that is read is accepted. *)
LEMMA Accepts ==
  ASSUME Channels, Domains, OrderInv, CommandsInv, StoppedInv
  PROVE  /\ receiveI => /\ CountIMessage("client", Head(wire["client"]), FALSE)
                        /\ Confirm("client", Head(wire["client"]).nr)
                        /\ UNCHANGED error
         /\ receiveS => Confirm("client", Head(wire["client"]).nr) /\ UNCHANGED error
         /\ HandleI => /\ state = "STARTED"
                       /\ Confirm("server", Head(wire["server"]).nr)
                       /\ \E c : CountIMessage("server", Head(wire["server"]), c)
                       /\ UNCHANGED error
         /\ HandleS => /\ state # "STOPPED"
                       /\ Confirm("server", Head(wire["server"]).nr)
                       /\ UNCHANGED error
<1>0. "client" \in Ends /\ "server" \in Ends
  BY DEF Ends
<1>1. ASSUME receiveI
      PROVE  /\ CountIMessage("client", Head(wire["client"]), FALSE)
             /\ Confirm("client", Head(wire["client"]).nr)
             /\ UNCHANGED error
  <2>1. wire["client"] # <<>> /\ Head(wire["client"]).type = "I"
    BY <1>1 DEF receiveI, received
  <2>2. Head(wire["client"]).ns = receiveCount["client"] /\ seqNoIsValid("client", Head(wire["client"]).nr)
    BY <1>0, <2>1, ExpectedI, PlausibleNR DEF Acknowledges
  <2> QED
    BY <1>1, <2>2 DEF receiveI
<1>2. ASSUME receiveS
      PROVE  Confirm("client", Head(wire["client"]).nr) /\ UNCHANGED error
  <2>1. wire["client"] # <<>> /\ Head(wire["client"]).type = "S"
    BY <1>2 DEF receiveS, received
  <2>2. seqNoIsValid("client", Head(wire["client"]).nr)
    BY <1>0, <2>1, PlausibleNR DEF Acknowledges
  <2> QED
    BY <1>2, <2>2 DEF receiveS
<1>3. ASSUME HandleI
      PROVE  /\ state = "STARTED"
             /\ Confirm("server", Head(wire["server"]).nr)
             /\ \E c : CountIMessage("server", Head(wire["server"]), c)
             /\ UNCHANGED error
  <2>1. wire["server"] # <<>> /\ Head(wire["server"]).type = "I"
    BY <1>3 DEF HandleI, received
  <2>2. Head(wire["server"]).ns = receiveCount["server"] /\ seqNoIsValid("server", Head(wire["server"]).nr)
    BY <1>0, <2>1, ExpectedI, PlausibleNR DEF Acknowledges
  <2>3. state = "STARTED"
    <3>1. IsSeq(wire["server"])
      BY <1>0, ChannelTypes DEF Frames
    <3> QED
      BY <2>1, <3>1, CommandsTail DEF CommandsInv
  <2> QED
    BY <1>3, <2>2, <2>3 DEF HandleI
<1>4. ASSUME HandleS
      PROVE  /\ state # "STOPPED"
             /\ Confirm("server", Head(wire["server"]).nr)
             /\ UNCHANGED error
  <2>1. wire["server"] # <<>> /\ Head(wire["server"]).type = "S" /\ thread = "receive"
    BY <1>4 DEF HandleS, received
  <2>2. seqNoIsValid("server", Head(wire["server"]).nr) /\ sentASDUs["server"] # <<>>
    BY <1>0, <2>1, PlausibleNR DEF Acknowledges
  <2>3. state # "STOPPED"
    BY <2>1, <2>2 DEF StoppedInv
  <2> QED
    BY <1>4, <2>2, <2>3 DEF HandleS
<1> QED
  BY <1>1, <1>2, <1>3, <1>4

(* No step ends a connection for what was received. *)
LEMMA NoErrorStep ==
  ASSUME Channels, Domains, OrderInv, CommandsInv, StoppedInv, Next
  PROVE  UNCHANGED error
<1>1. CASE Connected \/ Break
  BY <1>1 DEF Connected, connectSucceeds, Break
<1>2. CASE ClientIdle \/ ServerIdle
  BY <1>2, IdleUnchanged
<1>3. CASE resetConnection
  BY <1>3 DEF resetConnection
<1>4. CASE ClientReading
  BY <1>4, Accepts DEF ClientReading, receiveU
<1>5. CASE ClientWriting
  BY <1>5 DEF ClientWriting, noTimeout, timeoutT2, timeoutT3, timeoutEnds, Iterate,
              sendStartDT, sendStopDT
<1>6. CASE sendASDULocked \/ ClientClosing
  BY <1>6 DEF sendASDULocked, ClientClosing, exitThread, CS104_Connection_stopThreadless
<1>7. CASE ServerReading
  BY <1>7, Accepts DEF ServerReading, HandleTestFRAct, HandleTestFRCon, HandleStartDT, HandleStopDT
<1>8. CASE ServerSending
  BY <1>8, ServerSendingCases DEF SendWaitingASDU
<1>9. CASE BypassSend \/ Reap
  BY <1>9 DEF BypassSend, Reap
<1> QED
  BY <1>1, <1>2, <1>3, <1>4, <1>5, <1>6, <1>7, <1>8, <1>9, NextCases

(* Append is the concatenation with one element. *)
LEMMA AppendConcat ==
  ASSUME NEW s, NEW x, IsSeq(s)
  PROVE  Append(s, x) = s \o <<x>>
<1> DEFINE T == {s[i] : i \in DOMAIN s} \cup {x}
<1>1. s \in Seq(T)
  BY DEF IsSeq
<1>2. x \in T
  OBVIOUS
<1> HIDE DEF T
<1> QED
  BY <1>1, <1>2, AppendIsConcat

(* Frames that are neither commands nor about starting and stopping. *)
Control(fs) == IsSeq(fs) /\ NoI(fs) /\ Quiet(fs)

(* S frames and the frames of the test are control frames. *)
LEMMA ControlFrames ==
  /\ Control(<<>>)
  /\ \A e : Control(<<S(e)>>)
  /\ Control(<<U("TESTFR_ACT")>>) /\ Control(<<U("TESTFR_CON")>>)
<1>1. ASSUME NEW f, f.type \in {"S", "TESTFR_ACT", "TESTFR_CON"}
      PROVE  Control(<<f>>)
  <2>1. f.type \notin {"I"} /\ f.type \notin Requests \cup Answers
    BY <1>1 DEF Requests, Answers
  <2>2. IsSeq(<<f>>) /\ Clear(<<f>>, {"I"})
    BY <2>1, ClearOne
  <2>3. Clear(<<f>>, Requests \cup Answers)
    BY <2>1, ClearOne
  <2> QED
    BY <2>2, <2>3 DEF Control, NoI, Quiet
<1>2. Control(<<>>)
  BY ClearEmpty DEF Control, NoI, Quiet
<1> QED
  BY <1>1, <1>2, FrameTypes

(* Control frames after control frames. *)
LEMMA ControlConcat ==
  ASSUME NEW s, NEW t, Control(s), Control(t)
  PROVE  Control(s \o t)
BY ClearConcat DEF Control, NoI, Quiet

(* What receiveI, receiveS and receiveU do to the connection. *)
LEMMA ClientReadingShape ==
  ASSUME ClientReading
  PROVE  /\ UNCHANGED <<link, sendCount, hasty>> /\ wire["client"] # <<>> /\ pc = "receive"
         /\ \E fs : Reply("client", fs)
         /\ receiveI \/ receiveS => Reply("client", <<>>) /\ UNCHANGED conState
         /\ receiveU => Head(wire["client"]).type \notin {"I", "S"}
                        /\ conState' = nextConState(Head(wire["client"]).type)
<1>1. CASE receiveI \/ receiveS
  BY <1>1, ControlFrames, FrameTypes DEF receiveI, receiveS, received, modes, receiveU
<1>2. CASE receiveU
  <2>1. /\ UNCHANGED <<link, sendCount, hasty>> /\ wire["client"] # <<>> /\ pc = "receive"
        /\ Head(wire["client"]).type \notin {"I", "S"}
        /\ conState' = nextConState(Head(wire["client"]).type)
    BY <1>2 DEF receiveU, counters, modes
  <2>2. ~receiveI /\ ~receiveS
    BY <2>1 DEF receiveI, receiveS, received
  <2>3. \E fs : Reply("client", fs)
    BY <1>2 DEF receiveU
  <2> QED
    BY <2>1, <2>2, <2>3
<1> QED
  BY <1>1, <1>2 DEF ClientReading

(* The client never has to confirm a STARTDT_ACT: all that it writes when  *)
(* it has read a frame are control frames.                                 *)
LEMMA ClientReplies ==
  ASSUME ClientReading, IsSeq(wire["client"]), AnswersInv
  PROVE  \E fs : Control(fs) /\ Reply("client", fs)
<1>1. CASE receiveI \/ receiveS
  BY <1>1, ClientReadingShape, ControlFrames
<1>2. CASE receiveU
  <2>1. Head(wire["client"]).type # "STARTDT_ACT"
    <3>1. PICK wc, T : wc = wire["client"] /\ T = Requests
      OBVIOUS
    <3>2. IsSeq(wc) /\ wc # <<>> /\ Clear(wc, T)
      BY <3>1, ClientReadingShape DEF AnswersInv
    <3>3. Head(wc).type \notin T
      BY <3>2, ClearTail
    <3> QED
      BY <3>1, <3>3 DEF Requests
  <2>2. PICK fs : fs = ClientFrames(conState, confirmationOf(Head(wire["client"]).type))
    OBVIOUS
  <2>3. fs = <<>> \/ fs = <<U("TESTFR_CON")>>
    BY <2>1, <2>2, ConfirmationOf DEF ClientFrames
  <2> QED
    BY <1>2, <2>2, <2>3, ControlFrames DEF receiveU
<1> QED
  BY <1>1, <1>2 DEF ClientReading

ClientTimeouts == noTimeout \/ timeoutT2 \/ timeoutT3 \/ timeoutEnds

(* What the timers of the client do to the connection. *)
LEMMA ClientTimeoutsShape ==
  ASSUME ClientTimeouts
  PROVE  /\ UNCHANGED <<link, sendCount, receiveCount, sentASDUs, conState, hasty>>
         /\ \E fs : Control(fs) /\ Transmit("client", fs)
         /\ pc \in {"rest", "last"} /\ pc' \in {"receive", "exit"}
<1>1. ASSUME NEW t2, NEW frames, NEW stop, Iterate(t2, frames, stop), Control(frames)
      PROVE  /\ UNCHANGED <<link, sendCount, receiveCount, sentASDUs, conState, hasty>>
             /\ \E fs : Control(fs) /\ Transmit("client", fs)
             /\ pc \in {"rest", "last"} /\ pc' \in {"receive", "exit"}
  <2>1. PICK c : c = IF mustConfirm \/ t2 THEN <<S("client")>> ELSE <<>>
    OBVIOUS
  <2>2. Control(c)
    BY <2>1, ControlFrames
  <2>3. Control(c \o frames)
    BY <1>1, <2>2, ControlConcat
  <2>4. Control(ClientFrames(conState, c \o frames))
    BY <2>3, ControlFrames DEF ClientFrames
  <2>5. Transmit("client", ClientFrames(conState, c \o frames))
    BY <1>1, <2>1 DEF Iterate
  <2> QED
    BY <1>1, <2>4, <2>5 DEF Iterate, modes
<1> QED
  BY <1>1, ControlFrames DEF ClientTimeouts, noTimeout, timeoutT2, timeoutT3, timeoutEnds

(* What sendStopDT writes: perhaps an S frame, and STOPDT_ACT. *)
LEMMA SendStopShape ==
  ASSUME sendStopDT
  PROVE  \E c : Control(c) /\ Transmit("client", c \o <<U("STOPDT_ACT")>>)
BY ControlFrames DEF sendStopDT, ClientFrames

(* HandleI, HandleTestFRAct and HandleTestFRCon answer with control frames. *)
LEMMA ServerConfirmShape ==
  ASSUME HandleI \/ HandleTestFRAct \/ HandleTestFRCon
  PROVE  /\ UNCHANGED <<link, sendCount, state>> /\ wire["server"] # <<>> /\ thread = "receive"
         /\ \E fs : Control(fs) /\ Reply("server", fs)
<1>1. CASE HandleI
  <2>1. /\ UNCHANGED <<link, sendCount, state>> /\ wire["server"] # <<>> /\ thread = "receive"
    BY <1>1 DEF HandleI, received
  <2>2. \A n : Control(<<[type |-> "S", nr |-> n]>>)
    <3>1. ASSUME NEW n PROVE Control(<<[type |-> "S", nr |-> n]>>)
      <4>1. PICK f : f = [type |-> "S", nr |-> n]
        OBVIOUS
      <4>2. f.type \notin {"I"} /\ f.type \notin Requests \cup Answers
        BY <4>1 DEF Requests, Answers
      <4>3. IsSeq(<<f>>) /\ Clear(<<f>>, {"I"})
        BY <4>2, ClearOne
      <4>4. Clear(<<f>>, Requests \cup Answers)
        BY <4>2, ClearOne
      <4> QED
        BY <4>1, <4>3, <4>4 DEF Control, NoI, Quiet
    <3> QED
      BY <3>1
  <2>3. \E fs : Control(fs) /\ Reply("server", fs)
    BY <1>1, <2>2, ControlFrames DEF HandleI
  <2> QED
    BY <2>1, <2>3
<1>2. CASE HandleTestFRAct \/ HandleTestFRCon
  BY <1>2, ControlFrames DEF HandleTestFRAct, HandleTestFRCon, received, counters
<1> QED
  BY <1>1, <1>2

(* What HandleStopDT answers: perhaps an S frame, perhaps STOPDT_CON. *)
LEMMA HandleStopShape ==
  ASSUME HandleStopDT
  PROVE  \E c : /\ Control(c)
                /\ Reply("server", c \o (IF sentASDUs["server"] # <<>> THEN <<>> ELSE <<U("STOPDT_CON")>>))
BY ControlFrames DEF HandleStopDT, hasUnconfirmedMessages

(* What SendWaitingASDU writes: the frames of the timers, and perhaps one  *)
(* I frame.                                                                *)
LEMMA SendingShape ==
  ASSUME NEW frames, TimerFrames(frames), SendWaitingASDU(frames)
  PROVE  /\ UNCHANGED <<link, receiveCount, state>> /\ Control(frames) /\ thread = "rest"
         /\ \/ Transmit("server", frames) /\ UNCHANGED <<sendCount, sentASDUs>>
            \/ \E id : /\ SendIMessage("server", id) /\ state = "STARTED"
                       /\ Transmit("server", frames \o <<I("server", id)>>)
<1>1. Control(frames)
  BY ControlFrames DEF TimerFrames
<1>2. \A x : Append(frames, x) = frames \o <<x>>
  <2>1. IsSeq(frames)
    BY <1>1 DEF Control
  <2> QED
    BY <2>1, AppendConcat
<1> QED
  BY <1>1, <1>2 DEF SendWaitingASDU

(* A command that is being sent over a connection belongs to a running     *)
(* thread.                                                                 *)
LEMMA ClientUp ==
  ASSUME LinkTypes, ClientRuns, ClientLink, app = "sending", link["client"] = "up"
  PROVE  running
BY DEF ClientRuns, ClientLink

(* A command is written when it is counted. *)
LEMMA SendCommandShape ==
  ASSUME LinkTypes, ClientRuns, ClientLink, sendASDULocked, ~hasty'
  PROVE  \/ UNCHANGED <<wire, sendCount, sentASDUs, unconfirmed>>
         \/ \E id, fs : /\ SendIMessage("client", id)
                        /\ Transmit("client", fs)
                        /\ fs = <<>> \/ fs = <<I("client", id)>>
                        /\ link["client"] = "up" => conState = "ACTIVE" /\ fs = <<I("client", id)>>
<1>1. link["client"] = "up" => conState = "ACTIVE"
  BY ClientUp DEF sendASDULocked
<1>2. CASE isSentBufferFull("client")
  BY <1>2 DEF sendASDULocked
<1>3. CASE ~isSentBufferFull("client")
  BY <1>1, <1>3 DEF sendASDULocked, ClientFrames
<1> QED
  BY <1>2, <1>3

(* The order does not change with what has nothing to do with it. *)
LEMMA OrderSame ==
  ASSUME OrderInv, UNCHANGED <<sendCount, receiveCount>>,
         UNCHANGED wire, \A e \in Ends : link'[e] = "up" => link[e] = "up"
  PROVE  OrderInv'
<1> SUFFICES ASSUME NEW e \in Ends
             PROVE  InOrder(link'[e], wire[peer(e)], sendCount[e], receiveCount[peer(e)])
  BY DEF OrderInv
<1>1. InOrder(link[e], wire[peer(e)], sendCount[e], receiveCount[peer(e)])
  BY DEF OrderInv
<1> QED
  BY <1>1 DEF InOrder

(* A new connection starts in order. *)
LEMMA OrderConnects ==
  ASSUME LinkTypes, CounterTypes, Domains, ClientFresh, ClientLink, OrderInv, Connected
  PROVE  OrderInv'
<1>0. "client" \in Ends /\ "server" \in Ends /\ 0 \in SeqNos
  BY APCIAssumption DEF Ends, SeqNos
<1>1. pc = "connect" /\ link["client"] = "none" /\ link["server"] # "up"
  BY DEF Connected, connectSucceeds, ClientLink, LinkTypes
<1>2. CASE refuse
  <2>1. link' = [link EXCEPT !["client"] = "closed"] /\ UNCHANGED <<wire, sendCount, receiveCount>>
    BY <1>2 DEF refuse, counters
  <2>2. \A e \in Ends : link'[e] # "up"
    BY <1>1, <2>1 DEF LinkTypes, Ends
  <2> QED
    BY <2>1, <2>2, OrderSame
<1>3. CASE accept
  <2>1. /\ ResetCounters("server") /\ link' = [e \in Ends |-> "up"] /\ wire' = [e \in Ends |-> <<>>]
        /\ sendCount["client"] = 0 /\ receiveCount["client"] = 0
    BY <1>1, <1>3 DEF accept, ClientFresh
  <2>2. \A e \in Ends : sendCount'[e] = 0 /\ receiveCount'[e] = 0 /\ wire'[e] = <<>>
    BY <1>0, <2>1 DEF ResetCounters, CounterTypes, Ends
  <2> SUFFICES ASSUME NEW e \in Ends
               PROVE  InOrder(link'[e], wire'[peer(e)], sendCount'[e], receiveCount'[peer(e)])
    BY DEF OrderInv
  <2>3. peer(e) \in Ends
    BY Peers
  <2>4. InOrder(link'[e], <<>>, 0, 0)
    BY <1>0, OrderEmpty
  <2> QED
    BY <2>2, <2>3, <2>4
<1> QED
  BY <1>2, <1>3 DEF Connected

(* resetConnection disturbs no order: there is no connection. *)
LEMMA OrderResets ==
  ASSUME LinkTypes, CounterTypes, Domains, ClientLink, WireInv, OrderInv, resetConnection
  PROVE  OrderInv'
<1>0. "client" \in Ends /\ "server" \in Ends /\ 0 \in SeqNos
      /\ peer("client") = "server" /\ peer("server") = "client"
  BY APCIAssumption DEF Ends, SeqNos, peer
<1>1. link["client"] = "none" /\ link["server"] # "up" /\ wire["client"] = <<>>
  BY <1>0 DEF resetConnection, ClientLink, LinkTypes, WireInv
<1>2. /\ UNCHANGED <<link, wire>> /\ receiveCount'["server"] = receiveCount["server"]
      /\ sendCount'["server"] = sendCount["server"] /\ receiveCount'["client"] = 0
  BY <1>0 DEF resetConnection, ResetCounters, socket, CounterTypes
<1>3. InOrder(link'["client"], wire'["server"], sendCount'["client"], receiveCount'["server"])
  <2>1. InOrder(link["client"], wire["server"], sendCount["client"], receiveCount["server"])
    BY <1>0 DEF OrderInv
  <2> QED
    BY <1>1, <1>2, <2>1, OrderOfEnds
<1>4. InOrder(link'["server"], wire'["client"], sendCount'["server"], receiveCount'["client"])
  <2>1. sendCount["server"] \in SeqNos
    BY <1>0 DEF CounterTypes
  <2> QED
    BY <1>0, <1>1, <1>2, <2>1, OrderEmpty
<1> QED
  BY <1>0, <1>3, <1>4 DEF OrderInv, Ends

(* What is left of the frames when the connection breaks is in order. *)
LEMMA OrderBreak ==
  ASSUME Domains, Channels, OrderInv, Break
  PROVE  OrderInv'
<1> SUFFICES ASSUME NEW e \in Ends
             PROVE  InOrder(link'[e], wire'[peer(e)], sendCount[e], receiveCount[peer(e)])
  BY DEF OrderInv, Break, counters
<1>1. PICK p \in Ends : p = peer(e)
  BY Peers
<1>2. IsSeq(wire[p]) /\ Len(wire[p]) \in Nat
  BY ChannelTypes, SeqFacts DEF Frames
<1>3. PICK n \in 0..(2 * k) : wire'[p] = SubSeq(wire[p], 1, IF n < Len(wire[p]) THEN n ELSE Len(wire[p]))
  BY DEF Break
<1>4. PICK m \in 0..Len(wire[p]) : m = IF n < Len(wire[p]) THEN n ELSE Len(wire[p])
  BY <1>2, APCIAssumption
<1>5. wire'[p] = SubSeq(wire[p], 1, m)
  BY <1>3, <1>4
<1>6. PICK s : s = SubSeq(wire[p], 1, m)
  OBVIOUS
<1>7. IsSeq(s) /\ Len(s) = m /\ \A i \in 1..m : s[i] = wire[p][i]
  BY <1>2, <1>6, SeqPrefix
<1>8. link'[e] # "up" /\ Len(s) <= Len(wire[p])
  BY <1>2, <1>4, <1>7 DEF Break
<1>9. InOrder(link[e], wire[p], sendCount[e], receiveCount[p])
  BY <1>1 DEF OrderInv
<1>10. InOrder(link'[e], s, sendCount[e], receiveCount[p])
  BY <1>2, <1>7, <1>8, <1>9, OrderPrefix
<1> QED
  BY <1>1, <1>5, <1>6, <1>10

(* Every step keeps the I frames in order while nobody is hasty. *)
LEMMA OrderInvStep ==
  ASSUME LinkInv, ProtocolInv, Next, ~hasty'
  PROVE  OrderInv'
<1>0. "client" \in Ends /\ "server" \in Ends /\ peer("client") = "server" /\ peer("server") = "client"
  BY DEF Ends, peer
<1>1. /\ LinkTypes /\ CounterTypes /\ Domains /\ Channels /\ WireInv
      /\ ClientRuns /\ ClientFresh /\ ClientLink
      /\ OrderInv /\ CommandsInv /\ StoppedInv /\ AnswersInv
  BY LinkInvParts DEF ProtocolInv
<1>2. sendCount["client"] \in SeqNos /\ sendCount["server"] \in SeqNos
  BY <1>0, <1>1 DEF CounterTypes
<1>3. CASE Connected
  BY <1>1, <1>3, OrderConnects
<1>4. CASE Break
  BY <1>1, <1>4, OrderBreak
<1>5. CASE ClientIdle \/ ServerIdle
  BY <1>1, <1>5, IdleUnchanged, OrderSame DEF socket, counters
<1>6. CASE resetConnection
  BY <1>1, <1>6, OrderResets
<1>7. CASE ClientReading
  <2>1. UNCHANGED <<link, sendCount>> /\ wire["client"] # <<>>
    BY <1>7, ClientReadingShape
  <2>2. PICK fs : IsSeq(fs) /\ NoI(fs) /\ Reply("client", fs)
    <3>1. IsSeq(wire["client"])
      BY <1>0, <1>1, ChannelTypes DEF Frames
    <3> QED
      BY <1>1, <1>7, <3>1, ClientReplies DEF Control
  <2>3. IF Head(wire["client"]).type = "I"
        THEN receiveCount' = [receiveCount EXCEPT !["client"] = (receiveCount["client"] + 1) % SeqMod]
        ELSE receiveCount' = receiveCount
    <3>1. CASE receiveI
      BY <1>1, <3>1, Accepts DEF receiveI, received, CountIMessage
    <3>2. CASE receiveS \/ receiveU
      BY <3>2 DEF receiveS, receiveU, received, counters
    <3> QED
      BY <1>7, <3>1, <3>2 DEF ClientReading
  <2> QED
    BY <1>0, <1>1, <2>1, <2>2, <2>3, OrderReply
<1>8. CASE ClientTimeouts
  <2>1. UNCHANGED <<link, sendCount, receiveCount>>
    BY <1>8, ClientTimeoutsShape
  <2>2. PICK fs : IsSeq(fs) /\ NoI(fs) /\ Transmit("client", fs)
    BY <1>8, ClientTimeoutsShape DEF Control
  <2>3. InOrder("up", fs, sendCount["client"], sendCount["client"])
    BY <1>2, <2>2, OrderPlain
  <2> QED
    BY <1>0, <1>1, <2>1, <2>2, <2>3, OrderTransmit
<1>9. CASE sendStartDT \/ sendStopDT
  <2>1. UNCHANGED <<link, sendCount, receiveCount>>
    BY <1>9 DEF sendStartDT, sendStopDT, counters
  <2>2. PICK fs : IsSeq(fs) /\ NoI(fs) /\ Transmit("client", fs)
    <3>1. ASSUME NEW t, t # "I"
          PROVE  IsSeq(<<U(t)>>) /\ NoI(<<U(t)>>)
      BY <3>1, ClearOne, FrameTypes DEF NoI
    <3>2. CASE sendStartDT
      BY <3>1, <3>2 DEF sendStartDT
    <3>3. CASE sendStopDT
      <4>1. PICK c : Control(c) /\ Transmit("client", c \o <<U("STOPDT_ACT")>>)
        BY <3>3, SendStopShape
      <4> QED
        BY <3>1, <4>1, ClearConcat DEF Control, NoI
    <3> QED
      BY <1>9, <3>2, <3>3
  <2>3. InOrder("up", fs, sendCount["client"], sendCount["client"])
    BY <1>2, <2>2, OrderPlain
  <2> QED
    BY <1>0, <1>1, <2>1, <2>2, <2>3, OrderTransmit
<1>10. CASE sendASDULocked
  <2>1. UNCHANGED <<link, receiveCount>>
    BY <1>10 DEF sendASDULocked
  <2>2. CASE UNCHANGED <<wire, sendCount, sentASDUs, unconfirmed>>
    BY <1>1, <2>1, <2>2, OrderSame
  <2>3. ASSUME NEW id, NEW fs, SendIMessage("client", id), Transmit("client", fs),
               fs = <<>> \/ fs = <<I("client", id)>>,
               link["client"] = "up" => fs = <<I("client", id)>>
        PROVE  OrderInv'
    <3>1. /\ sendCount'["client"] = (sendCount["client"] + 1) % SeqMod
          /\ sendCount'["server"] = sendCount["server"]
      BY <1>0, <1>1, <2>3 DEF SendIMessage, CounterTypes
    <3>2. PICK f : f = I("client", id) /\ f.type = "I" /\ f.ns = sendCount["client"]
      BY FrameTypes
    <3>3. IsSeq(<<f>>) /\ InOrder("up", <<f>>, (sendCount["client"] + 1) % SeqMod, sendCount["client"])
      BY <1>2, <3>2, OrderOneI
    <3>4. IsSeq(fs)
      BY <2>3, <3>2, <3>3, ClearEmpty
    <3>5. link["client"] = "up" => InOrder("up", fs, sendCount'["client"], sendCount["client"])
      BY <2>3, <3>1, <3>2, <3>3
    <3> QED
      BY <1>0, <1>1, <2>1, <2>3, <3>1, <3>4, <3>5, OrderTransmit
  <2> QED
    BY <1>1, <1>10, <2>2, <2>3, SendCommandShape
<1>11. CASE ClientClosing
  <2>1. UNCHANGED <<sendCount, receiveCount>>
    BY <1>11 DEF ClientClosing, exitThread, CS104_Connection_stopThreadless
  <2>2. PICK fs : IsSeq(fs) /\ NoI(fs) /\ CloseSocket("client", fs)
    BY <1>11, ControlFrames DEF ClientClosing, exitThread, CS104_Connection_stopThreadless, Control
  <2> QED
    BY <1>0, <1>1, <2>1, <2>2, OrderClose
<1>12. CASE ServerReading
  <2>1. UNCHANGED <<link, sendCount>> /\ wire["server"] # <<>>
    BY <1>12, ServerConfirmShape DEF ServerReading, HandleS, HandleStartDT, HandleStopDT, counters, received
  <2>2. PICK fs : IsSeq(fs) /\ NoI(fs) /\ Reply("server", fs)
    <3>1. ASSUME NEW t, t # "I"
          PROVE  IsSeq(<<U(t)>>) /\ NoI(<<U(t)>>)
      BY <3>1, ClearOne, FrameTypes DEF NoI
    <3>2. IsSeq(<<>>) /\ NoI(<<>>)
      BY ClearEmpty DEF NoI
    <3>3. CASE HandleI \/ HandleTestFRAct \/ HandleTestFRCon
      BY <3>3, ServerConfirmShape DEF Control
    <3>4. CASE HandleS \/ HandleStartDT
      BY <3>1, <3>2, <3>4 DEF HandleS, HandleStartDT
    <3>5. CASE HandleStopDT
      <4>1. PICK c : /\ Control(c)
                     /\ Reply("server", c \o (IF sentASDUs["server"] # <<>> THEN <<>> ELSE <<U("STOPDT_CON")>>))
        BY <3>5, HandleStopShape
      <4>2. PICK t : t = IF sentASDUs["server"] # <<>> THEN <<>> ELSE <<U("STOPDT_CON")>>
        OBVIOUS
      <4>3. IsSeq(t) /\ NoI(t)
        BY <3>1, <3>2, <4>2
      <4>4. IsSeq(c \o t) /\ NoI(c \o t)
        BY <4>1, <4>3, ClearConcat DEF Control, NoI
      <4> QED
        BY <4>1, <4>2, <4>4
    <3> QED
      BY <1>12, <3>3, <3>4, <3>5 DEF ServerReading
  <2>3. IF Head(wire["server"]).type = "I"
        THEN receiveCount' = [receiveCount EXCEPT !["server"] = (receiveCount["server"] + 1) % SeqMod]
        ELSE receiveCount' = receiveCount
    <3>1. CASE HandleI
      BY <1>1, <3>1, Accepts DEF HandleI, received, CountIMessage
    <3>2. CASE HandleS \/ HandleTestFRAct \/ HandleTestFRCon \/ HandleStartDT \/ HandleStopDT
      BY <3>2 DEF HandleS, HandleTestFRAct, HandleTestFRCon, HandleStartDT, HandleStopDT, received, counters
    <3> QED
      BY <1>12, <3>1, <3>2 DEF ServerReading
  <2> QED
    BY <1>0, <1>1, <2>1, <2>2, <2>3, OrderReply
<1>13. ASSUME NEW fs, IsSeq(fs), NoI(fs), NEW id, SendIMessage("server", id),
              Transmit("server", fs \o <<I("server", id)>>), UNCHANGED <<link, receiveCount>>
       PROVE  OrderInv'
  <2>1. /\ sendCount'["server"] = (sendCount["server"] + 1) % SeqMod
        /\ sendCount'["client"] = sendCount["client"]
    BY <1>0, <1>1, <1>13 DEF SendIMessage, CounterTypes
  <2>2. PICK f : f = I("server", id) /\ f.type = "I" /\ f.ns = sendCount["server"]
    BY FrameTypes
  <2>3. IsSeq(<<f>>) /\ InOrder("up", <<f>>, (sendCount["server"] + 1) % SeqMod, sendCount["server"])
    BY <1>2, <2>2, OrderOneI
  <2>4. InOrder("up", fs, sendCount["server"], sendCount["server"])
    BY <1>2, <1>13, OrderPlain
  <2>5. PICK g : g = fs \o <<f>>
    OBVIOUS
  <2>6. IsSeq(g) /\ InOrder("up", g, (sendCount["server"] + 1) % SeqMod, sendCount["server"])
    BY <1>13, <2>3, <2>4, <2>5, OrderConcat, SeqConcat
  <2>7. Transmit("server", g)
    BY <1>13, <2>2, <2>5
  <2> QED
    BY <1>0, <1>1, <1>13, <2>1, <2>6, <2>7, OrderTransmit
<1>14. CASE ServerSending
  <2>1. PICK frames : TimerFrames(frames) /\ SendWaitingASDU(frames)
    BY <1>14, ServerSendingCases
  <2>2. UNCHANGED <<link, receiveCount>> /\ IsSeq(frames) /\ NoI(frames)
    BY <2>1, SendingShape DEF Control
  <2>3. CASE Transmit("server", frames) /\ UNCHANGED <<sendCount, sentASDUs>>
    <3>1. InOrder("up", frames, sendCount["server"], sendCount["server"])
      BY <1>2, <2>2, OrderPlain
    <3> QED
      BY <1>0, <1>1, <2>2, <2>3, <3>1, OrderTransmit
  <2>4. CASE \E id : SendIMessage("server", id) /\ Transmit("server", frames \o <<I("server", id)>>)
    BY <1>13, <2>2, <2>4
  <2> QED
    BY <2>1, <2>3, <2>4, SendingShape
<1>15. CASE BypassSend
  <2>1. UNCHANGED <<link, receiveCount>>
    BY <1>15 DEF BypassSend
  <2>2. CASE UNCHANGED <<wire, sendCount>>
    BY <1>1, <2>1, <2>2, OrderSame
  <2>3. CASE SendIMessage("server", 0) /\ Transmit("server", <<I("server", 0)>>)
    <3>1. IsSeq(<<>>) /\ NoI(<<>>) /\ IsSeq(<<I("server", 0)>>)
      BY ClearEmpty, ClearOne DEF NoI
    <3>2. <<>> \o <<I("server", 0)>> = <<I("server", 0)>>
      BY <3>1, ConcatEmpty
    <3> QED
      BY <1>13, <2>1, <2>3, <3>1, <3>2
  <2> QED
    BY <1>15, <2>2, <2>3 DEF BypassSend
<1>16. CASE Reap
  <2>1. UNCHANGED <<sendCount, receiveCount>> /\ CloseSocket("server", <<>>)
    BY <1>16 DEF Reap, counters
  <2>2. IsSeq(<<>>) /\ NoI(<<>>)
    BY ClearEmpty DEF NoI
  <2> QED
    BY <1>0, <1>1, <2>1, <2>2, OrderClose
<1>17. ClientWriting => ClientTimeouts \/ sendStartDT \/ sendStopDT
  BY DEF ClientWriting, ClientTimeouts
<1> QED
  BY <1>3, <1>4, <1>5, <1>6, <1>7, <1>8, <1>9, <1>10, <1>11, <1>12, <1>14, <1>15, <1>16, <1>17, NextCases


(* A prefix of what was under way survives a broken connection. *)
LEMMA BreakPrefix ==
  ASSUME Channels, Break, NEW e \in Ends
  PROVE  \E s : /\ s = wire'[e] /\ IsSeq(s) /\ IsSeq(wire[e]) /\ Len(s) <= Len(wire[e])
                /\ \A i \in 1..Len(s) : s[i] = wire[e][i]
<1>2. IsSeq(wire[e]) /\ Len(wire[e]) \in Nat
  BY ChannelTypes, SeqFacts DEF Frames
<1>3. PICK n \in 0..(2 * k) : wire'[e] = SubSeq(wire[e], 1, IF n < Len(wire[e]) THEN n ELSE Len(wire[e]))
  BY DEF Break
<1>4. PICK m \in 0..Len(wire[e]) : m = IF n < Len(wire[e]) THEN n ELSE Len(wire[e])
  BY <1>2, APCIAssumption
<1>5. PICK s : s = SubSeq(wire[e], 1, m)
  OBVIOUS
<1>6. IsSeq(s) /\ Len(s) = m /\ \A i \in 1..m : s[i] = wire[e][i]
  BY <1>2, <1>5, SeqPrefix
<1>7. wire'[e] = s
  BY <1>3, <1>4, <1>5
<1>8. Len(s) <= Len(wire[e])
  BY <1>2, <1>6
<1> QED
  BY <1>2, <1>6, <1>7, <1>8

(* Every step keeps: commands reach a server that is started. *)
LEMMA CommandsStep ==
  ASSUME LinkInv, ProtocolInv, Next, ~hasty'
  PROVE  CommandsInv'
<1>0. "client" \in Ends /\ "server" \in Ends /\ peer("client") = "server" /\ peer("server") = "client"
      /\ "client" # "server"
  BY DEF Ends, peer
<1>1. /\ LinkTypes /\ CounterTypes /\ Domains /\ Channels /\ WireInv
      /\ ClientRuns /\ ClientFresh /\ ClientLink
      /\ OrderInv /\ CommandsInv /\ StoppedInv /\ AnswersInv /\ Phases
  BY LinkInvParts DEF ProtocolInv
<1>2. IsSeq(wire["server"]) /\ IsSeq(wire["client"])
  BY <1>0, <1>1, ChannelTypes DEF Frames
<1> DEFINE ws == wire["server"]
<1>3. Commands(ws, state)
  BY <1>1 DEF CommandsInv
<1>4. ASSUME wire'["server"] = <<>>
      PROVE  CommandsInv'
  <2>1. Commands(<<>>, state')
    BY ClearEmpty, CommandsNoI DEF NoI
  <2> QED
    BY <1>4, <2>1 DEF CommandsInv
<1>5. ASSUME wire'["server"] = ws, UNCHANGED state
      PROVE  CommandsInv'
  BY <1>3, <1>5 DEF CommandsInv
<1>6. ASSUME NEW t, IsSeq(t), wire'["server"] = ws \o t, UNCHANGED state,
             NoI(t) \/ (state = "STARTED" /\ Clear(ws, Requests) /\ Clear(t, Requests))
      PROVE  CommandsInv'
  <2>1. Commands(ws \o t, state)
    BY <1>2, <1>3, <1>6, CommandsConcat
  <2> QED
    BY <1>6, <2>1 DEF CommandsInv
<1>7. ASSUME NEW t, UNCHANGED state, Transmit("client", t), IsSeq(t), NoI(t)
      PROVE  CommandsInv'
  <2>1. wire'["server"] = ws \o t \/ wire'["server"] = ws
    BY <1>0, <1>1, <1>7 DEF Transmit, Domains
  <2> QED
    BY <1>5, <1>6, <1>7, <2>1
<1>8. ASSUME NEW t, UNCHANGED state, Transmit("server", t) \/ wire' = wire
      PROVE  CommandsInv'
  <2>1. wire'["server"] = ws
    BY <1>0, <1>1, <1>8 DEF Transmit, Domains
  <2> QED
    BY <1>5, <1>8, <2>1
<1>9. CASE Connected
  <2>1. CASE accept
    BY <1>0, <1>4, <2>1 DEF accept
  <2>2. CASE refuse
    BY <1>5, <2>2 DEF refuse, masterVars
  <2> QED
    BY <1>9, <2>1, <2>2 DEF Connected
<1>10. CASE Break
  <2>1. PICK s : /\ s = wire'["server"] /\ IsSeq(s) /\ Len(s) <= Len(ws)
                 /\ \A i \in 1..Len(s) : s[i] = ws[i]
    BY <1>0, <1>1, <1>10, BreakPrefix
  <2>2. Commands(s, state)
    BY <1>2, <1>3, <2>1, CommandsPrefix
  <2>3. UNCHANGED state
    BY <1>10 DEF Break, masterVars
  <2> QED
    BY <2>1, <2>2, <2>3 DEF CommandsInv
<1>11. CASE (ClientIdle \/ ServerIdle \/ resetConnection) /\ UNCHANGED state
  <2>1. UNCHANGED wire
    BY <1>11, IdleUnchanged DEF socket, resetConnection
  <2> QED
    BY <1>5, <1>11, <2>1
<1>12. CASE ClientReading /\ UNCHANGED masterVars
  <2>1. PICK t : IsSeq(t) /\ NoI(t) /\ Reply("client", t)
    BY <1>1, <1>2, <1>12, ClientReplies DEF Control
  <2>2. wire'["server"] = ws \o t \/ wire'["server"] = ws
    BY <1>0, <1>1, <2>1 DEF Reply, Domains
  <2>3. UNCHANGED state
    BY <1>12 DEF masterVars
  <2> QED
    BY <1>5, <1>6, <2>1, <2>2, <2>3
<1>13. CASE ClientWriting /\ UNCHANGED masterVars
  <2>0. UNCHANGED state
    BY <1>13 DEF masterVars
  <2>1. ASSUME NEW t, t # "I"
        PROVE  IsSeq(<<U(t)>>) /\ NoI(<<U(t)>>)
    BY <2>1, ClearOne, FrameTypes DEF NoI
  <2>2. CASE ClientTimeouts
    BY <1>7, <2>0, <2>2, ClientTimeoutsShape DEF Control
  <2>3. CASE sendStartDT
    BY <1>7, <2>0, <2>1, <2>3 DEF sendStartDT
  <2>4. CASE sendStopDT
    <3>1. PICK c : Control(c) /\ Transmit("client", c \o <<U("STOPDT_ACT")>>)
      BY <2>4, SendStopShape
    <3>2. IsSeq(c \o <<U("STOPDT_ACT")>>) /\ NoI(c \o <<U("STOPDT_ACT")>>)
      BY <2>1, <3>1, ClearConcat DEF Control, NoI
    <3> QED
      BY <1>7, <2>0, <3>1, <3>2
  <2> QED
    BY <1>13, <2>2, <2>3, <2>4 DEF ClientWriting, ClientTimeouts
<1>14. CASE sendASDULocked /\ UNCHANGED masterVars
  <2>0. UNCHANGED state
    BY <1>14 DEF masterVars
  <2>1. CASE wire' = wire
    BY <1>5, <2>0, <2>1
  <2>2. ASSUME NEW id, NEW fs, Transmit("client", fs), link["client"] = "up" => conState = "ACTIVE",
               link["client"] = "up" => fs = <<I("client", id)>>
        PROVE  CommandsInv'
    <3>1. CASE link["client"] # "up"
      BY <1>5, <2>0, <2>2, <3>1 DEF Transmit
    <3>2. CASE link["client"] = "up"
      <4>1. state = "STARTED" /\ Clear(ws, Requests)
        BY <1>1, <2>2, <3>2 DEF Phases, Exchange
      <4>2. IsSeq(fs) /\ Clear(fs, Requests)
        <5>1. "I" \notin Requests
          BY DEF Requests
        <5> QED
          BY <2>2, <3>2, <5>1, ClearOne, FrameTypes
      <4>3. wire'["server"] = ws \o fs
        BY <1>0, <1>1, <2>2, <3>2 DEF Transmit, Domains
      <4> QED
        BY <1>6, <2>0, <4>1, <4>2, <4>3
    <3> QED
      BY <3>1, <3>2
  <2> QED
    BY <1>1, <1>14, <2>1, <2>2, SendCommandShape
<1>15. CASE ClientClosing /\ UNCHANGED masterVars
  <2>0. UNCHANGED state
    BY <1>15 DEF masterVars
  <2>1. PICK t : IsSeq(t) /\ NoI(t) /\ CloseSocket("client", t)
    BY <1>15, ControlFrames DEF ClientClosing, exitThread, CS104_Connection_stopThreadless, Control
  <2>2. wire'["server"] = <<>> \/ wire'["server"] = ws \/ wire'["server"] = ws \o t
    BY <1>0, <1>1, <2>1 DEF CloseSocket, Domains
  <2> QED
    BY <1>4, <1>5, <1>6, <2>0, <2>1, <2>2
<1>16. CASE ServerReading
  <2>1. ws # <<>> /\ \E t : Reply("server", t)
    BY <1>16 DEF ServerReading, HandleI, HandleS, HandleTestFRAct, HandleTestFRCon,
                 HandleStartDT, HandleStopDT, received
  <2>2. wire'["server"] = Tail(ws)
    BY <1>0, <1>1, <2>1 DEF Reply, Domains
  <2>3. Commands(Tail(ws), state)
    BY <1>2, <1>3, <2>1, CommandsTail
  <2>4. CASE UNCHANGED state
    BY <2>2, <2>3, <2>4 DEF CommandsInv
  <2>5. CASE HandleStartDT \/ HandleStopDT
    <3>1. Head(ws).type \in Requests
      BY <2>5 DEF HandleStartDT, HandleStopDT, received, Requests
    <3>2. NoI(Tail(ws))
      BY <1>2, <1>3, <2>1, <3>1, CommandsTail
    <3> QED
      BY <2>2, <3>2, CommandsNoI DEF CommandsInv
  <2>6. CASE HandleS /\ state' # state
    <3>1. state = "UNCONFIRMED_STOPPED"
      BY <2>6 DEF HandleS
    <3>2. NoI(Tail(ws))
      BY <2>3, <3>1 DEF Commands, NoI, Clear
    <3> QED
      BY <2>2, <3>2, CommandsNoI DEF CommandsInv
  <2> QED
    BY <1>16, <2>4, <2>5, <2>6, ServerConfirmShape DEF ServerReading
<1>17. CASE ServerSending
  <2>1. PICK frames : TimerFrames(frames) /\ SendWaitingASDU(frames)
    BY <1>17, ServerSendingCases
  <2> QED
    BY <1>8, <2>1, SendingShape
<1>18. CASE BypassSend
  <2>1. UNCHANGED state /\ (wire' = wire \/ \E t : Transmit("server", t))
    BY <1>18 DEF BypassSend
  <2> QED
    BY <1>8, <2>1
<1>19. CASE Reap
  <2>1. wire'["server"] = <<>>
    BY <1>0, <1>1, <1>19 DEF Reap, CloseSocket, Domains
  <2> QED
    BY <1>4, <2>1
<1>20. UNCHANGED masterVars \/ ServerIdle => UNCHANGED state
  BY DEF masterVars, ServerIdle, HandleNothing, HandleEndOfStream, HandleReceiveError,
         LeaveReceiving, HandleT1, LeaveLoop, BypassQueue
<1> QED
  BY <1>9, <1>10, <1>11, <1>12, <1>13, <1>14, <1>15, <1>16, <1>17, <1>18, <1>19, <1>20, NextCases

(* Every step keeps: a stopped server has nothing in its k-buffer. *)
LEMMA StoppedStep ==
  ASSUME LinkInv, ProtocolInv, Next, ~raced'
  PROVE  StoppedInv'
<1>0. "client" \in Ends /\ "server" \in Ends /\ "client" # "server"
  BY DEF Ends
<1>1. /\ LinkTypes /\ CounterTypes /\ ControlTypes /\ Domains /\ Channels
      /\ OrderInv /\ CommandsInv /\ StoppedInv
  BY LinkInvParts DEF ProtocolInv
<1>2. ASSUME sentASDUs'["server"] = sentASDUs["server"], UNCHANGED state, thread = "none" => thread' = "none"
      PROVE  StoppedInv'
  BY <1>1, <1>2 DEF StoppedInv
<1>3. ASSUME sentASDUs'["server"] = sentASDUs["server"], UNCHANGED masterVars
      PROVE  StoppedInv'
  BY <1>2, <1>3 DEF masterVars
<1>4. CASE Connected
  <2>1. CASE accept
    BY <1>0, <1>1, <2>1 DEF accept, ResetCounters, StoppedInv, Domains
  <2>2. CASE refuse
    BY <1>3, <2>2 DEF refuse, counters
  <2> QED
    BY <1>4, <2>1, <2>2 DEF Connected
<1>5. CASE Break
  BY <1>3, <1>5 DEF Break, counters
<1>6. CASE UNCHANGED masterVars /\ ClientIdle
  BY <1>3, <1>6, IdleUnchanged DEF counters
<1>7. CASE UNCHANGED masterVars /\ resetConnection
  <2>1. sentASDUs'["server"] = sentASDUs["server"]
    BY <1>0, <1>1, <1>7 DEF resetConnection, ResetCounters, Domains
  <2> QED
    BY <1>3, <1>7, <2>1
<1>8. CASE UNCHANGED masterVars /\ ClientReading
  <2>1. sentASDUs'["server"] = sentASDUs["server"]
    BY <1>0, <1>1, <1>8 DEF ClientReading, receiveI, receiveS, receiveU, Confirm, counters, Domains
  <2> QED
    BY <1>3, <1>8, <2>1
<1>9. CASE UNCHANGED masterVars /\ ClientWriting
  <2>1. sentASDUs' = sentASDUs
    BY <1>9 DEF ClientWriting, noTimeout, timeoutT2, timeoutT3, timeoutEnds, Iterate,
                sendStartDT, sendStopDT, counters
  <2> QED
    BY <1>3, <1>9, <2>1
<1>10. CASE UNCHANGED masterVars /\ sendASDULocked
  <2>1. sentASDUs'["server"] = sentASDUs["server"]
    BY <1>0, <1>1, <1>10 DEF sendASDULocked, SendIMessage, Domains
  <2> QED
    BY <1>3, <1>10, <2>1
<1>11. CASE UNCHANGED masterVars /\ ClientClosing
  <2>1. sentASDUs' = sentASDUs
    BY <1>11 DEF ClientClosing, exitThread, CS104_Connection_stopThreadless
  <2> QED
    BY <1>3, <1>11, <2>1
<1>12. CASE ServerIdle
  <2>1. sentASDUs' = sentASDUs
    BY <1>12, IdleUnchanged DEF counters
  <2>2. UNCHANGED state /\ (thread = "none" => thread' = "none")
    BY <1>12 DEF ServerIdle, HandleNothing, HandleEndOfStream, HandleReceiveError,
                 LeaveReceiving, HandleT1, LeaveLoop, BypassQueue
  <2> QED
    BY <1>2, <2>1, <2>2
<1>13. CASE HandleI
  BY <1>1, <1>13, Accepts, ServerConfirmShape DEF StoppedInv
<1>14. CASE HandleTestFRAct \/ HandleTestFRCon
  BY <1>2, <1>14 DEF HandleTestFRAct, HandleTestFRCon, counters
<1>15. CASE HandleStartDT
  BY <1>15 DEF HandleStartDT, StoppedInv
<1>16. CASE HandleStopDT
  <2>1. sentASDUs' = sentASDUs /\ thread = "receive"
    BY <1>16 DEF HandleStopDT
  <2> QED
    BY <1>1, <1>16, <2>1, StopState DEF StoppedInv
<1>17. CASE HandleS
  <2>1. state # "STOPPED"
    BY <1>1, <1>17, Accepts
  <2>2. state' = "STOPPED" => ~hasUnconfirmedMessages(sentASDUs'["server"])
    BY <1>17, <2>1 DEF HandleS
  <2> QED
    BY <2>2 DEF StoppedInv, hasUnconfirmedMessages
<1>18. CASE ServerSending
  <2>1. PICK frames : TimerFrames(frames) /\ SendWaitingASDU(frames)
    BY <1>18, ServerSendingCases
  <2>2. UNCHANGED state /\ thread = "rest" /\ (sentASDUs' = sentASDUs \/ state = "STARTED")
    BY <2>1, SendingShape
  <2> QED
    BY <1>1, <2>2 DEF StoppedInv
<1>19. CASE BypassSend
  <2>1. UNCHANGED <<state, thread>> /\ (sentASDUs' = sentASDUs \/ state = "STARTED")
    BY <1>19 DEF BypassSend
  <2> QED
    BY <1>1, <2>1 DEF StoppedInv
<1>20. CASE Reap
  BY <1>20 DEF Reap, StoppedInv
<1> QED
  BY <1>4, <1>5, <1>6, <1>7, <1>8, <1>9, <1>10, <1>11, <1>12, <1>13, <1>14, <1>15, <1>16, <1>17,
     <1>18, <1>19, <1>20, NextCases DEF ServerReading

(* Every step keeps the states that a connection can be opened in. *)
LEMMA OpeningStep ==
  ASSUME LinkInv, ProtocolInv, Next, ~hasty'
  PROVE  OpeningInv'
<1>1. OpeningInv
  BY DEF ProtocolInv
<1>2. CASE UNCHANGED clientVars \/ Break
  BY <1>1, <1>2 DEF Break, clientVars, OpeningInv
<1>3. CASE Connected
  BY <1>1, <1>3 DEF Connected, connectSucceeds, OpeningInv
<1>4. CASE ClientIdle
  BY <1>1, <1>4 DEF ClientIdle, createSocket, createSocketFails, connectFails, setInactive, skipLoop,
              receiveNothing, receiveError, Stop, CS104_Connection_connect,
              CS104_Connection_startThreadless, CS104_Connection_close, startReturns, startFails,
              oldThreadEnds, connectReturns, closeReturns, sendASDU, OpeningInv
<1>5. CASE resetConnection
  BY <1>5 DEF resetConnection, OpeningInv
<1>6. CASE ClientReading
  BY <1>6 DEF ClientReading, receiveI, receiveS, receiveU, Stop, OpeningInv
<1>7. CASE ClientTimeouts
  BY <1>7, ClientTimeoutsShape DEF OpeningInv
<1>8. CASE sendStartDT
  BY <1>8 DEF sendStartDT, OpeningInv
<1>9. CASE sendStopDT
  BY <1>1, <1>9 DEF sendStopDT, OpeningInv
<1>10. CASE sendASDULocked
  BY <1>1, <1>10 DEF sendASDULocked, OpeningInv
<1>11. CASE ClientClosing
  BY <1>11 DEF ClientClosing, exitThread, CS104_Connection_stopThreadless, OpeningInv
<1>12. ClientWriting => ClientTimeouts \/ sendStartDT \/ sendStopDT
  BY DEF ClientWriting, ClientTimeouts
<1> QED
  BY <1>2, <1>3, <1>4, <1>5, <1>6, <1>7, <1>8, <1>9, <1>10, <1>11, <1>12, NextCases

(* What the server writes when it reads a frame. *)
LEMMA ServerAnswers ==
  ASSUME ServerReading
  PROVE  /\ wire["server"] # <<>>
         /\ \E t : IsSeq(t) /\ Clear(t, Requests) /\ Reply("server", t)
<1>1. wire["server"] # <<>>
  BY DEF ServerReading, HandleI, HandleS, HandleTestFRAct, HandleTestFRCon,
         HandleStartDT, HandleStopDT, received
<1>2. \A t : Control(t) => IsSeq(t) /\ Clear(t, Requests)
  BY DEF Control, Quiet, Clear
<1>3. ASSUME NEW u \in Answers
      PROVE  IsSeq(<<U(u)>>) /\ Clear(<<U(u)>>, Requests)
  <2>1. u \notin Requests
    BY DEF Requests, Answers
  <2> QED
    BY <2>1, ClearOne, FrameTypes
<1>4. IsSeq(<<U("STARTDT_CON")>>) /\ Clear(<<U("STARTDT_CON")>>, Requests)
      /\ IsSeq(<<U("STOPDT_CON")>>) /\ Clear(<<U("STOPDT_CON")>>, Requests)
  BY <1>3 DEF Answers
<1>5. CASE HandleI \/ HandleTestFRAct \/ HandleTestFRCon
  BY <1>1, <1>2, <1>5, ServerConfirmShape
<1>6. CASE HandleS \/ HandleStartDT
  BY <1>1, <1>4, <1>6, ClearEmpty DEF HandleS, HandleStartDT
<1>7. CASE HandleStopDT
  <2>1. PICK c : /\ Control(c)
                 /\ Reply("server", c \o (IF sentASDUs["server"] # <<>> THEN <<>> ELSE <<U("STOPDT_CON")>>))
    BY <1>7, HandleStopShape
  <2>2. PICK t : t = IF sentASDUs["server"] # <<>> THEN <<>> ELSE <<U("STOPDT_CON")>>
    OBVIOUS
  <2>3. IsSeq(t) /\ Clear(t, Requests)
    BY <1>4, <2>2, ClearEmpty
  <2>4. IsSeq(c \o t) /\ Clear(c \o t, Requests)
    BY <1>2, <2>1, <2>3, ClearConcat
  <2> QED
    BY <1>1, <2>1, <2>2, <2>4
<1> QED
  BY <1>5, <1>6, <1>7 DEF ServerReading

(* Every step keeps: no request is ever on its way to the client. *)
LEMMA AnswersStep ==
  ASSUME LinkInv, ProtocolInv, Next
  PROVE  AnswersInv'
<1>0. "client" \in Ends /\ "server" \in Ends /\ peer("client") = "server" /\ peer("server") = "client"
      /\ "client" # "server"
  BY DEF Ends, peer
<1>1. LinkTypes /\ Domains /\ Channels /\ AnswersInv
  BY LinkInvParts DEF ProtocolInv
<1>2. IsSeq(wire["client"])
  BY <1>0, <1>1, ChannelTypes DEF Frames
<1> DEFINE wc == wire["client"]
<1>3. Clear(wc, Requests)
  BY <1>1 DEF AnswersInv
<1>4. ASSUME wire'["client"] = <<>>
      PROVE  AnswersInv'
  BY <1>4, ClearEmpty DEF AnswersInv
<1>5. ASSUME wire'["client"] = wc
      PROVE  AnswersInv'
  BY <1>3, <1>5 DEF AnswersInv
<1>6. ASSUME NEW t, IsSeq(t), Clear(t, Requests), wire'["client"] = wc \o t \/ wire'["client"] = wc
      PROVE  AnswersInv'
  <2>1. Clear(wc \o t, Requests)
    BY <1>2, <1>3, <1>6, ClearConcat
  <2> QED
    BY <1>3, <1>6, <2>1 DEF AnswersInv
<1>7. ASSUME NEW t, IsSeq(t), Clear(t, Requests), Transmit("server", t)
      PROVE  AnswersInv'
  <2>1. wire'["client"] = wc \o t \/ wire'["client"] = wc
    BY <1>0, <1>1, <1>7 DEF Transmit, Domains
  <2> QED
    BY <1>6, <1>7, <2>1
<1>8. ASSUME NEW t, Transmit("client", t) \/ wire' = wire
      PROVE  AnswersInv'
  <2>1. wire'["client"] = wc
    BY <1>0, <1>1, <1>8 DEF Transmit, Domains
  <2> QED
    BY <1>5, <2>1
<1>9. CASE Connected
  BY <1>0, <1>4, <1>5, <1>9 DEF Connected, accept, refuse
<1>10. CASE Break
  <2>1. PICK s : /\ s = wire'["client"] /\ IsSeq(s) /\ Len(s) <= Len(wc)
                 /\ \A i \in 1..Len(s) : s[i] = wc[i]
    BY <1>0, <1>1, <1>10, BreakPrefix
  <2>2. Len(wc) \in Nat /\ Len(s) \in Nat
    BY <1>2, <2>1, SeqFacts
  <2>3. \A i \in 1..Len(s) : i \in 1..Len(wc)
    BY <2>1, <2>2
  <2> QED
    BY <1>3, <2>1, <2>3 DEF AnswersInv, Clear
<1>11. CASE ClientIdle \/ ServerIdle \/ resetConnection
  <2>1. UNCHANGED wire
    BY <1>11, IdleUnchanged DEF socket, resetConnection
  <2> QED
    BY <1>5, <2>1
<1>12. CASE ClientReading
  <2>1. wc # <<>> /\ \E t : Reply("client", t)
    BY <1>12, ClientReadingShape
  <2>2. wire'["client"] = Tail(wc)
    BY <1>0, <1>1, <2>1 DEF Reply, Domains
  <2>3. Clear(Tail(wc), Requests)
    BY <1>2, <1>3, <2>1, ClearTail
  <2> QED
    BY <2>2, <2>3 DEF AnswersInv
<1>13. CASE ClientWriting \/ sendASDULocked
  <2>1. wire' = wire \/ \E t : Transmit("client", t)
    BY <1>13 DEF ClientWriting, noTimeout, timeoutT2, timeoutT3, timeoutEnds, Iterate,
                 sendStartDT, sendStopDT, sendASDULocked
  <2> QED
    BY <1>8, <2>1
<1>14. CASE ClientClosing
  <2>1. wire'["client"] = <<>>
    BY <1>0, <1>1, <1>14 DEF ClientClosing, exitThread, CS104_Connection_stopThreadless, CloseSocket, Domains
  <2> QED
    BY <1>4, <2>1
<1>15. CASE ServerReading
  <2>1. PICK t : IsSeq(t) /\ Clear(t, Requests) /\ Reply("server", t)
    BY <1>15, ServerAnswers
  <2>2. wire'["client"] = wc \o t \/ wire'["client"] = wc
    BY <1>0, <1>1, <2>1 DEF Reply, Domains
  <2> QED
    BY <1>6, <2>1, <2>2
<1>16. \A id : IsSeq(<<I("server", id)>>) /\ Clear(<<I("server", id)>>, Requests)
  <2>1. "I" \notin Requests
    BY DEF Requests
  <2> QED
    BY <2>1, ClearOne, FrameTypes
<1>17. CASE ServerSending
  <2>1. PICK frames : TimerFrames(frames) /\ SendWaitingASDU(frames)
    BY <1>17, ServerSendingCases
  <2>2. IsSeq(frames) /\ Clear(frames, Requests)
    BY <2>1, SendingShape DEF Control, Quiet, Clear
  <2>3. \A id : IsSeq(frames \o <<I("server", id)>>) /\ Clear(frames \o <<I("server", id)>>, Requests)
    BY <1>16, <2>2, ClearConcat
  <2> QED
    BY <1>7, <2>1, <2>2, <2>3, SendingShape
<1>18. CASE BypassSend
  <2>1. wire' = wire \/ Transmit("server", <<I("server", 0)>>)
    BY <1>18 DEF BypassSend
  <2> QED
    BY <1>7, <1>8, <1>16, <2>1
<1>19. CASE Reap
  <2>1. CloseSocket("server", <<>>)
    BY <1>19 DEF Reap
  <2>2. wc \o <<>> = wc
    BY <1>2, ConcatEmpty
  <2>3. wire'["client"] = wc \/ wire'["client"] = <<>>
    BY <1>0, <1>1, <2>1, <2>2 DEF CloseSocket, Domains
  <2> QED
    BY <1>4, <1>5, <2>3
<1> QED
  BY <1>9, <1>10, <1>11, <1>12, <1>13, <1>14, <1>15, <1>17, <1>18, <1>19, NextCases

(* Reading, and writing control frames and commands, brings no request or  *)
(* answer.                                                                 *)
LEMMA QuietWires ==
  ASSUME Domains, Channels, NEW e \in Ends, NEW fs, IsSeq(fs), Quiet(fs),
         (wire[e] # <<>> /\ Reply(e, fs)) \/ Transmit(e, fs) \/ wire' = wire
  PROVE  \A x \in Ends : Quieter(wire'[x], wire[x])
<1>1. PICK p \in Ends : p = peer(e) /\ p # e /\ \A x \in Ends : x = e \/ x = p
  BY Peers
<1>2. IsSeq(wire[e]) /\ IsSeq(wire[p])
  BY ChannelTypes DEF Frames
<1>3. \/ wire'[e] = wire[e]
      \/ wire[e] # <<>> /\ wire'[e] = Tail(wire[e])
  BY <1>1 DEF Reply, Transmit, Domains
<1>4. wire'[p] = wire[p] \/ wire'[p] = wire[p] \o fs
  BY <1>1 DEF Reply, Transmit, Domains
<1>5. Quieter(wire'[e], wire[e])
  BY <1>2, <1>3, QuieterTail, QuieterSame
<1>6. Quieter(wire'[p], wire[p])
  BY <1>2, <1>4, QuieterConcat, QuieterSame
<1> QED
  BY <1>1, <1>5, <1>6

(* A step that writes neither request nor answer keeps the exchange. *)
LEMMA PhasesQuiet ==
  ASSUME Phases, \A x \in Ends : Quieter(wire'[x], wire[x]), UNCHANGED <<link, conState, state>>
  PROVE  Phases'
<1>1. "client" \in Ends /\ "server" \in Ends
  BY DEF Ends
<1> SUFFICES ASSUME link["client"] = "up"
             PROVE  Exchange(wire'["server"], wire'["client"], conState, state)
  BY DEF Phases
<1>2. Exchange(wire["server"], wire["client"], conState, state)
  BY DEF Phases
<1> QED
  BY <1>1, <1>2, ExchangeQuiet

(* A step that writes nothing keeps the exchange. *)
LEMMA PhasesSame ==
  ASSUME Phases, link'["client"] = link["client"], UNCHANGED <<wire, conState, state>>
  PROVE  Phases'
BY DEF Phases

(* STARTDT and STOPDT are requested. *)
LEMMA PhasesRequested ==
  ASSUME Domains, Channels, Phases, UNCHANGED state, sendStartDT \/ sendStopDT, ~hasty'
  PROVE  Phases'
<1>0. "client" \in Ends /\ "server" \in Ends /\ peer("client") = "server" /\ "client" # "server"
  BY DEF Ends, peer
<1>1. PICK ws, wc : ws = wire["server"] /\ wc = wire["client"] /\ IsSeq(ws) /\ IsSeq(wc)
  BY <1>0, ChannelTypes DEF Frames
<1> SUFFICES ASSUME link'["client"] = "up"
             PROVE  Exchange(wire'["server"], wire'["client"], conState', state)
  BY DEF Phases
<1>2. link["client"] = "up"
  BY DEF sendStartDT, sendStopDT
<1>3. Exchange(ws, wc, conState, state)
  BY <1>1, <1>2 DEF Phases
<1>4. ASSUME NEW u \in Requests
      PROVE  /\ IsSeq(<<U(u)>>) /\ Single(<<U(u)>>, Requests)
             /\ \A v \in Requests \ {u} : Clear(<<U(u)>>, {v})
  BY ClearOne, FrameTypes
<1>5. CASE sendStartDT
  <2>1. Clear(ws, {"STARTDT_ACT"}) /\ Clear(wc, {"STARTDT_CON"}) /\ conState \notin Waiting
    BY <1>1, <1>5, SeqFacts DEF sendStartDT, Clear
  <2>2. /\ conState # "WAITING_FOR_STOPDT_CON" /\ state # "UNCONFIRMED_STOPPED"
        /\ Clear(ws, {"STOPDT_ACT"}) /\ Clear(wc, {"STOPDT_CON"})
    BY <1>3, <2>1 DEF Exchange, Waiting
  <2>3. Clear(ws, Requests) /\ Clear(wc, Answers)
    BY <2>1, <2>2 DEF Clear, Requests, Answers
  <2>4. PICK t : t = <<U("STARTDT_ACT")>> /\ IsSeq(t) /\ Single(t, Requests) /\ Clear(t, {"STOPDT_ACT"})
    BY <1>4 DEF Requests
  <2>5. wire'["server"] = ws \o t /\ wire'["client"] = wc /\ conState' = "WAITING_FOR_STARTDT_CON"
    BY <1>0, <1>1, <1>2, <1>5, <2>4 DEF sendStartDT, Transmit, Domains
  <2>6. Single(ws \o t, Requests) /\ Clear(ws \o t, {"STOPDT_ACT"})
    BY <1>1, <2>2, <2>3, <2>4, ClearConcat
  <2>7. Exchange(ws \o t, wc, "WAITING_FOR_STARTDT_CON", state)
    BY <1>3, <2>1, <2>2, <2>3, <2>6 DEF Exchange
  <2> QED
    BY <2>5, <2>7
<1>6. CASE sendStopDT
  <2>1. conState = "ACTIVE"
    BY <1>6 DEF sendStopDT
  <2>2. state = "STARTED" /\ Clear(ws, Requests) /\ Clear(wc, Answers)
    BY <1>3, <2>1 DEF Exchange
  <2>3. PICK u : u = <<U("STOPDT_ACT")>> /\ IsSeq(u) /\ Single(u, Requests) /\ Clear(u, {"STARTDT_ACT"})
    BY <1>4 DEF Requests
  <2>4. PICK c : Control(c) /\ Transmit("client", c \o u)
    BY <1>6, <2>3, SendStopShape
  <2>5. IsSeq(c) /\ Clear(c, Requests) /\ Clear(c, {"STARTDT_ACT"})
    BY <2>4 DEF Control, Quiet, Clear, Requests
  <2>6. PICK t : t = c \o u /\ IsSeq(t) /\ Single(t, Requests) /\ Clear(t, {"STARTDT_ACT"})
    BY <2>3, <2>5, ClearConcat
  <2>7. wire'["server"] = ws \o t /\ wire'["client"] = wc /\ conState' = "WAITING_FOR_STOPDT_CON"
    BY <1>0, <1>1, <1>2, <1>6, <2>4, <2>6 DEF sendStopDT, Transmit, Domains
  <2>8. Clear(ws, {"STARTDT_ACT"}) /\ Clear(wc, {"STARTDT_CON"}) /\ Clear(wc, {"STOPDT_CON"})
    BY <2>2 DEF Clear, Requests, Answers
  <2>9. Single(ws \o t, Requests) /\ Clear(ws \o t, {"STARTDT_ACT"})
    BY <1>1, <2>2, <2>6, <2>8, ClearConcat
  <2>10. Exchange(ws \o t, wc, "WAITING_FOR_STOPDT_CON", state)
    BY <1>3, <2>2, <2>8, <2>9 DEF Exchange
  <2> QED
    BY <2>7, <2>10
<1> QED
  BY <1>5, <1>6

(* The exchange after the answer is written, postponed or read. *)
LEMMA ExchangeAnswered ==
  ASSUME NEW ws, NEW wc, NEW cs, NEW st, Clear(ws, Requests), Single(wc, Answers),
         \/ /\ cs \in {"WAITING_FOR_STARTDT_CON", "INACTIVE"} /\ st = "STARTED"
            /\ Clear(wc, {"STOPDT_CON"})
         \/ cs = "WAITING_FOR_STOPDT_CON" /\ st = "STOPPED" /\ Clear(wc, {"STARTDT_CON"})
         \/ /\ Clear(wc, Answers)
            /\ \/ cs = "WAITING_FOR_STOPDT_CON" /\ st = "UNCONFIRMED_STOPPED"
               \/ cs = "ACTIVE" /\ st = "STARTED"
               \/ cs = "INACTIVE" /\ st = "STOPPED"
  PROVE  Exchange(ws, wc, cs, st)
<1>1. /\ Single(ws, Requests) /\ Clear(ws, {"STARTDT_ACT"}) /\ Clear(ws, {"STOPDT_ACT"})
  BY DEF Clear, Single, Requests
<1>2. Clear(wc, Answers) => Clear(wc, {"STARTDT_CON"}) /\ Clear(wc, {"STOPDT_CON"})
  BY DEF Clear, Answers
<1> QED
  BY <1>1, <1>2 DEF Exchange

(* The server answers STARTDT, answers STOPDT at once or later. *)
LEMMA PhasesAnswered ==
  ASSUME Domains, Channels, OrderInv, CommandsInv, StoppedInv, LinkTypes, Phases,
         UNCHANGED conState, HandleStartDT \/ HandleStopDT \/ HandleS
  PROVE  Phases'
<1>0. "client" \in Ends /\ "server" \in Ends /\ peer("server") = "client" /\ "client" # "server"
  BY DEF Ends, peer
<1>1. PICK ws, wc : ws = wire["server"] /\ wc = wire["client"] /\ IsSeq(ws) /\ IsSeq(wc)
  BY <1>0, ChannelTypes DEF Frames
<1>2. ws # <<>> /\ UNCHANGED link
  BY <1>1 DEF HandleStartDT, HandleStopDT, HandleS, received
<1> SUFFICES ASSUME link["client"] = "up"
             PROVE  Exchange(wire'["server"], wire'["client"], conState, state')
  BY <1>2 DEF Phases
<1>3. Exchange(ws, wc, conState, state)
  BY <1>1 DEF Phases
<1>4. link["server"] = "up"
  BY DEF LinkTypes
<1>5. ASSUME NEW t, Reply("server", t)
      PROVE  wire'["server"] = Tail(ws) /\ wire'["client"] = wc \o t
  BY <1>0, <1>1, <1>4, <1>5 DEF Reply, Domains
<1>6. PICK z : z = Tail(ws)
  OBVIOUS
<1>7. /\ \A T : Clear(ws, T) => Clear(z, T)
      /\ Single(z, Requests)
      /\ Head(ws).type \in Requests => Clear(z, Requests)
  BY <1>1, <1>2, <1>3, <1>6, ClearTail DEF Exchange
<1>8. ASSUME NEW u \in Answers
      PROVE  /\ IsSeq(<<U(u)>>) /\ Single(<<U(u)>>, Answers)
             /\ \A v \in Answers \ {u} : Clear(<<U(u)>>, {v})
  BY ClearOne, FrameTypes
<1>9. \A T : Head(ws).type \in T => ~Clear(ws, T)
  BY <1>1, <1>2, ClearTail
<1>10. \A s : (Clear(s, Requests) <=> Clear(s, {"STARTDT_ACT"}) /\ Clear(s, {"STOPDT_ACT"}))
              /\ (Clear(s, Answers) <=> Clear(s, {"STARTDT_CON"}) /\ Clear(s, {"STOPDT_CON"}))
  BY DEF Clear, Requests, Answers
<1>11. CASE HandleStartDT
  <2>1. Head(ws).type = "STARTDT_ACT" /\ state' = "STARTED"
    BY <1>1, <1>11 DEF HandleStartDT, received
  <2>2. conState \in {"WAITING_FOR_STARTDT_CON", "INACTIVE"} /\ Clear(wc, Answers) /\ Clear(z, Requests)
    BY <1>3, <1>7, <1>9, <2>1 DEF Exchange, Requests
  <2>3. PICK t : t = <<U("STARTDT_CON")>> /\ IsSeq(t) /\ Single(t, Answers) /\ Clear(t, {"STOPDT_CON"})
    BY <1>8 DEF Answers
  <2>4. wire'["server"] = z /\ wire'["client"] = wc \o t
    BY <1>5, <1>6, <1>11, <2>3 DEF HandleStartDT
  <2>5. Single(wc \o t, Answers) /\ Clear(wc \o t, {"STOPDT_CON"})
    BY <1>1, <1>10, <2>2, <2>3, ClearConcat
  <2>6. Exchange(z, wc \o t, conState, "STARTED")
    BY <2>2, <2>5, ExchangeAnswered
  <2> QED
    BY <2>1, <2>4, <2>6
<1>12. CASE HandleStopDT
  <2>1. Head(ws).type = "STOPDT_ACT"
    BY <1>1, <1>12 DEF HandleStopDT, received
  <2>2. /\ conState = "WAITING_FOR_STOPDT_CON" /\ state = "STARTED"
        /\ Clear(wc, Answers) /\ Clear(z, Requests)
    BY <1>3, <1>7, <1>9, <2>1 DEF Exchange, Requests
  <2>3. state' = IF sentASDUs["server"] = <<>> THEN "STOPPED" ELSE "UNCONFIRMED_STOPPED"
    BY <1>12, <2>2, StopState
  <2>4. PICK c : /\ Control(c)
                 /\ Reply("server", c \o (IF sentASDUs["server"] # <<>> THEN <<>> ELSE <<U("STOPDT_CON")>>))
    BY <1>12, HandleStopShape
  <2>5. IsSeq(c) /\ Clear(c, Answers) /\ Clear(c, {"STARTDT_CON"})
    BY <2>4 DEF Control, Quiet, Clear, Answers
  <2>6. CASE sentASDUs["server"] = <<>>
    <3>1. PICK u : u = <<U("STOPDT_CON")>> /\ IsSeq(u) /\ Single(u, Answers) /\ Clear(u, {"STARTDT_CON"})
      BY <1>8 DEF Answers
    <3>2. PICK t : t = c \o u /\ IsSeq(t) /\ Single(t, Answers) /\ Clear(t, {"STARTDT_CON"})
      BY <2>5, <3>1, ClearConcat
    <3>3. wire'["server"] = z /\ wire'["client"] = wc \o t
      BY <1>5, <1>6, <2>4, <2>6, <3>1, <3>2
    <3>4. Single(wc \o t, Answers) /\ Clear(wc \o t, {"STARTDT_CON"})
      BY <1>1, <1>10, <2>2, <3>2, ClearConcat
    <3>5. Exchange(z, wc \o t, conState, "STOPPED")
      BY <2>2, <3>4, ExchangeAnswered
    <3> QED
      BY <2>3, <2>6, <3>3, <3>5
  <2>7. CASE sentASDUs["server"] # <<>>
    <3>1. c \o <<>> = c
      BY <2>5, ConcatEmpty
    <3>2. wire'["server"] = z /\ wire'["client"] = wc \o c
      BY <1>5, <1>6, <2>4, <2>7, <3>1
    <3>3. Clear(wc \o c, Answers) /\ Single(wc \o c, Answers)
      BY <1>1, <1>3, <2>2, <2>5, ClearConcat DEF Exchange
    <3>4. Exchange(z, wc \o c, conState, "UNCONFIRMED_STOPPED")
      BY <2>2, <3>3, ExchangeAnswered
    <3> QED
      BY <2>3, <2>7, <3>2, <3>4
  <2> QED
    BY <2>6, <2>7
<1>13. CASE HandleS
  <2>1. PICK stopped \in BOOLEAN :
          stopped = (state = "UNCONFIRMED_STOPPED" /\ ~hasUnconfirmedMessages(sentASDUs'["server"]))
    OBVIOUS
  <2>2. seqNoIsValid("server", Head(wire["server"]).nr)
    BY <1>0, <1>1, <1>2, <1>13, PlausibleNR DEF HandleS, received, Acknowledges
  <2>3. /\ Reply("server", IF stopped THEN <<U("STOPDT_CON")>> ELSE <<>>)
        /\ state' = IF stopped THEN "STOPPED" ELSE state
    BY <1>13, <2>1, <2>2 DEF HandleS
  <2>4. CASE stopped
    <3>1. conState = "WAITING_FOR_STOPDT_CON" /\ Clear(ws, Requests) /\ Clear(wc, Answers)
      BY <1>3, <2>1, <2>4 DEF Exchange
    <3>2. PICK t : t = <<U("STOPDT_CON")>> /\ IsSeq(t) /\ Single(t, Answers) /\ Clear(t, {"STARTDT_CON"})
      BY <1>8 DEF Answers
    <3>3. wire'["server"] = z /\ wire'["client"] = wc \o t
      BY <1>5, <1>6, <2>3, <2>4, <3>2
    <3>4. Single(wc \o t, Answers) /\ Clear(wc \o t, {"STARTDT_CON"})
      BY <1>1, <1>10, <3>1, <3>2, ClearConcat
    <3>5. Exchange(z, wc \o t, conState, "STOPPED")
      BY <1>7, <3>1, <3>4, ExchangeAnswered
    <3> QED
      BY <2>3, <2>4, <3>3, <3>5
  <2>5. CASE ~stopped
    <3>1. wc \o <<>> = wc
      BY <1>1, ConcatEmpty
    <3>2. wire'["server"] = z /\ wire'["client"] = wc /\ state' = state
      BY <1>5, <1>6, <2>3, <2>5, <3>1
    <3>3. Quieter(z, ws) /\ Quieter(wc, wc)
      BY <1>1, <1>2, <1>6, QuieterTail, QuieterSame
    <3>4. Exchange(z, wc, conState, state)
      BY <1>3, <3>3, ExchangeQuiet
    <3> QED
      BY <3>2, <3>4
  <2> QED
    BY <2>4, <2>5
<1> QED
  BY <1>11, <1>12, <1>13

(* The client reads the answer to its request: it is settled.              *)
LEMMA PhasesConfirmed ==
  ASSUME Domains, Channels, AnswersInv, Phases, UNCHANGED state, receiveU
  PROVE  Phases'
<1>0. "client" \in Ends /\ "server" \in Ends /\ peer("client") = "server" /\ "client" # "server"
  BY DEF Ends, peer
<1>1. PICK ws, wc : ws = wire["server"] /\ wc = wire["client"] /\ IsSeq(ws) /\ IsSeq(wc)
  BY <1>0, ChannelTypes DEF Frames
<1>2. /\ wc # <<>> /\ UNCHANGED link
      /\ \E fs : Control(fs) /\ Reply("client", fs)
      /\ conState' = nextConState(Head(wc).type)
  BY <1>1, ClientReadingShape, ClientReplies DEF ClientReading
<1> SUFFICES ASSUME link["client"] = "up"
             PROVE  Exchange(wire'["server"], wire'["client"], conState', state)
  BY <1>2 DEF Phases
<1>3. Exchange(ws, wc, conState, state)
  BY <1>1 DEF Phases
<1>4. \A T : Head(wc).type \in T => ~Clear(wc, T)
  BY <1>1, <1>2, ClearTail
<1>5. Head(wc).type \notin Requests
  BY <1>1, <1>4 DEF AnswersInv
<1>6. PICK z : z = Tail(wc)
  OBVIOUS
<1>7. PICK fs : Control(fs) /\ Reply("client", fs)
  BY <1>2
<1>8. wire'["client"] = z /\ wire'["server"] = ws \o fs
  BY <1>0, <1>1, <1>6, <1>7 DEF Reply, Domains
<1>9. Quieter(z, wc) /\ Quieter(ws \o fs, ws)
  BY <1>1, <1>2, <1>6, <1>7, QuieterTail, QuieterConcat DEF Control
<1>10. CASE Head(wc).type \notin Answers
  <2>1. conState' = conState
    BY <1>2, <1>5, <1>10, NextState DEF Requests, Answers
  <2> QED
    BY <1>3, <1>8, <1>9, <2>1, ExchangeQuiet
<1>11. CASE Head(wc).type \in Answers
  <2>1. Single(z, Answers) /\ Clear(z, Answers)
    BY <1>1, <1>2, <1>3, <1>6, <1>11, ClearTail DEF Exchange
  <2>2. Clear(ws, Requests)
    BY <1>3, <1>4, <1>11 DEF Exchange
  <2>3. Clear(fs, Requests)
    BY <1>7 DEF Control, Quiet, Clear
  <2>4. IsSeq(fs)
    BY <1>7 DEF Control
  <2>5. Clear(ws \o fs, Requests)
    BY <1>1, <2>2, <2>3, <2>4, ClearConcat
  <2>6. CASE Head(wc).type = "STARTDT_CON"
    <3>1. state = "STARTED" /\ conState' = "ACTIVE"
      BY <1>2, <1>3, <1>4, <2>6, NextState DEF Exchange
    <3>2. Exchange(ws \o fs, z, "ACTIVE", "STARTED")
      BY <2>1, <2>5, ExchangeAnswered
    <3> QED
      BY <1>8, <3>1, <3>2
  <2>7. CASE Head(wc).type = "STOPDT_CON"
    <3>1. state = "STOPPED" /\ conState' = "INACTIVE"
      BY <1>2, <1>3, <1>4, <2>7, NextState DEF Exchange
    <3>2. Exchange(ws \o fs, z, "INACTIVE", "STOPPED")
      BY <2>1, <2>5, ExchangeAnswered
    <3> QED
      BY <1>8, <3>1, <3>2
  <2> QED
    BY <1>11, <2>6, <2>7 DEF Answers
<1> QED
  BY <1>10, <1>11

(* Nothing is asked on a connection that has just been opened, or only the *)
(* start: setInactive takes nothing back that the exchange needs.          *)
LEMMA PhasesOpened ==
  ASSUME Phases, OpeningInv, UNCHANGED state, setInactive
  PROVE  Phases'
<1>1. UNCHANGED <<link, wire>> /\ conState' = "INACTIVE"
      /\ conState \in {"IDLE", "WAITING_FOR_STARTDT_CON"}
  BY DEF setInactive, socket, OpeningInv
<1> SUFFICES ASSUME link["client"] = "up"
             PROVE  Exchange(wire["server"], wire["client"], "INACTIVE", state)
  BY <1>1 DEF Phases
<1>2. Exchange(wire["server"], wire["client"], conState, state)
  BY DEF Phases
<1> QED
  BY <1>1, <1>2 DEF Exchange

(* The server takes a new connection. *)
LEMMA PhasesConnected ==
  ASSUME LinkTypes, Phases, OpeningInv, Connected
  PROVE  Phases'
<1>1. "client" \in Ends /\ "server" \in Ends
  BY DEF Ends
<1>2. CASE accept
  <2>1. /\ wire'["client"] = <<>> /\ wire'["server"] = <<>> /\ state' = "STOPPED"
        /\ conState' \in {"IDLE", "WAITING_FOR_STARTDT_CON"}
    BY <1>1, <1>2 DEF accept, Connected, connectSucceeds, OpeningInv
  <2>2. \A T : Clear(<<>>, T) /\ Single(<<>>, T)
    BY ClearEmpty
  <2> QED
    BY <2>1, <2>2 DEF Phases, Exchange
<1>3. CASE refuse
  BY <1>1, <1>3 DEF refuse, LinkTypes, Phases
<1> QED
  BY <1>2, <1>3 DEF Connected

(* Every step leaves the two ends agreed on whether data is transferred.   *)
LEMMA PhasesStep ==
  ASSUME LinkInv, ProtocolInv, Next, ~hasty'
  PROVE  Phases'
<1>0. "client" \in Ends /\ "server" \in Ends /\ peer("client") = "server" /\ peer("server") = "client"
      /\ "client" # "server"
  BY DEF Ends, peer
<1>1. /\ LinkTypes /\ Domains /\ Channels /\ ClientLink /\ ClientRuns
      /\ OrderInv /\ CommandsInv /\ StoppedInv /\ AnswersInv /\ Phases /\ OpeningInv
  BY LinkInvParts DEF ProtocolInv
<1>2. LinkTypes'
  BY LinkTypesStep, LinkInvParts, ClientInvParts
<1>3. UNCHANGED masterVars => UNCHANGED state
  BY DEF masterVars
<1>4. UNCHANGED clientVars => UNCHANGED conState
  BY DEF clientVars
<1>5. CASE Connected
  BY <1>1, <1>5, PhasesConnected
<1>6. CASE Break \/ ClientClosing \/ Reap
  <2>1. link'["client"] # "up"
    BY <1>0, <1>1, <1>2, <1>6 DEF Break, ClientClosing, exitThread, CS104_Connection_stopThreadless,
                                  Reap, CloseSocket, LinkTypes
  <2> QED
    BY <2>1 DEF Phases
<1>7. CASE resetConnection
  <2>1. link'["client"] = "none"
    BY <1>1, <1>7 DEF resetConnection, socket, ClientLink
  <2> QED
    BY <2>1 DEF Phases
<1>8. CASE UNCHANGED masterVars /\ ClientIdle
  <2>1. CASE setInactive
    BY <1>1, <1>3, <1>8, <2>1, PhasesOpened
  <2>2. CASE ~setInactive
    <3>1. UNCHANGED <<link, wire>>
      BY <1>8, IdleUnchanged DEF socket
    <3>2. UNCHANGED conState
      BY <1>8, <2>2 DEF ClientIdle, createSocket, createSocketFails, connectFails, skipLoop,
              receiveNothing, receiveError, CS104_Connection_connect,
              CS104_Connection_startThreadless, CS104_Connection_close, startReturns, startFails,
              oldThreadEnds, connectReturns, closeReturns, sendASDU
    <3> QED
      BY <1>1, <1>3, <1>8, <3>1, <3>2, PhasesSame
  <2> QED
    BY <2>1, <2>2
<1>9. CASE UNCHANGED clientVars /\ ServerIdle
  <2>1. UNCHANGED <<link, wire>>
    BY <1>9, IdleUnchanged DEF socket
  <2>2. UNCHANGED state
    BY <1>9 DEF ServerIdle, HandleNothing, HandleEndOfStream, HandleReceiveError, LeaveReceiving,
                HandleT1, LeaveLoop, BypassQueue
  <2> QED
    BY <1>1, <1>4, <1>9, <2>1, <2>2, PhasesSame
<1>10. ASSUME NEW e \in Ends, NEW fs, Control(fs), UNCHANGED <<link, conState, state>>,
              (wire[e] # <<>> /\ Reply(e, fs)) \/ Transmit(e, fs) \/ wire' = wire
       PROVE  Phases'
  <2>1. IsSeq(fs) /\ Quiet(fs)
    BY <1>10 DEF Control
  <2>2. \A x \in Ends : Quieter(wire'[x], wire[x])
    BY <1>1, <1>10, <2>1, QuietWires
  <2> QED
    BY <1>1, <1>10, <2>2, PhasesQuiet
<1>11. CASE UNCHANGED masterVars /\ (receiveI \/ receiveS)
  <2>1. UNCHANGED <<link, conState>> /\ wire["client"] # <<>> /\ Reply("client", <<>>)
    BY <1>11, ClientReadingShape DEF ClientReading
  <2> QED
    BY <1>0, <1>3, <1>10, <1>11, <2>1, ControlFrames
<1>12. CASE UNCHANGED masterVars /\ receiveU
  BY <1>1, <1>3, <1>12, PhasesConfirmed
<1>13. CASE UNCHANGED masterVars /\ ClientTimeouts
  BY <1>0, <1>3, <1>10, <1>13, ClientTimeoutsShape
<1>14. CASE UNCHANGED masterVars /\ (sendStartDT \/ sendStopDT)
  BY <1>1, <1>3, <1>14, PhasesRequested
<1>15. ASSUME NEW e \in Ends, NEW fs, NEW id, Control(fs), UNCHANGED <<link, conState, state>>,
              Transmit(e, fs \o <<I(e, id)>>)
       PROVE  Phases'
  <2>1. IsSeq(<<I(e, id)>>) /\ Quiet(<<I(e, id)>>)
    BY ClearOne, FrameTypes DEF Quiet, Requests, Answers
  <2>2. IsSeq(fs \o <<I(e, id)>>) /\ Quiet(fs \o <<I(e, id)>>)
    BY <1>15, <2>1, ClearConcat DEF Control, Quiet
  <2>3. \A x \in Ends : Quieter(wire'[x], wire[x])
    BY <1>1, <1>15, <2>2, QuietWires
  <2> QED
    BY <1>1, <1>15, <2>3, PhasesQuiet
<1>16. ASSUME NEW e \in Ends, NEW id, UNCHANGED <<link, conState, state>>, Transmit(e, <<I(e, id)>>)
       PROVE  Phases'
  <2>1. IsSeq(<<I(e, id)>>)
    BY ClearOne
  <2>2. <<>> \o <<I(e, id)>> = <<I(e, id)>>
    BY <2>1, ConcatEmpty
  <2> QED
    BY <1>15, <1>16, <2>2, ControlFrames
<1>17. CASE UNCHANGED masterVars /\ sendASDULocked
  <2>1. UNCHANGED <<link, conState>>
    BY <1>17 DEF sendASDULocked
  <2>2. \/ wire' = wire
        \/ \E id : Transmit("client", <<I("client", id)>>)
        \/ Transmit("client", <<>>)
    BY <1>1, <1>17, SendCommandShape
  <2> QED
    BY <1>0, <1>3, <1>10, <1>16, <1>17, <2>1, <2>2, ControlFrames
<1>18. CASE UNCHANGED clientVars /\ (HandleI \/ HandleTestFRAct \/ HandleTestFRCon)
  BY <1>0, <1>4, <1>10, <1>18, ServerConfirmShape
<1>19. CASE UNCHANGED clientVars /\ (HandleStartDT \/ HandleStopDT \/ HandleS)
  BY <1>1, <1>4, <1>19, PhasesAnswered
<1>20. CASE UNCHANGED clientVars /\ ServerSending
  <2>1. PICK frames : TimerFrames(frames) /\ SendWaitingASDU(frames)
    BY <1>20, ServerSendingCases
  <2>2. UNCHANGED <<link, state>> /\ Control(frames)
    BY <2>1, SendingShape
  <2>3. CASE Transmit("server", frames)
    BY <1>0, <1>4, <1>10, <1>20, <2>2, <2>3
  <2>4. CASE \E id : Transmit("server", frames \o <<I("server", id)>>)
    BY <1>0, <1>4, <1>15, <1>20, <2>2, <2>4
  <2> QED
    BY <2>1, <2>3, <2>4, SendingShape
<1>21. CASE UNCHANGED clientVars /\ BypassSend
  <2>1. UNCHANGED <<link, state>> /\ (wire' = wire \/ Transmit("server", <<I("server", 0)>>))
    BY <1>21 DEF BypassSend
  <2> QED
    BY <1>0, <1>4, <1>10, <1>16, <1>21, <2>1, ControlFrames
<1>22. ClientWriting => ClientTimeouts \/ sendStartDT \/ sendStopDT
  BY DEF ClientWriting, ClientTimeouts
<1> QED
  BY <1>5, <1>6, <1>7, <1>8, <1>9, <1>11, <1>12, <1>13, <1>14, <1>17, <1>18, <1>19, <1>20, <1>21,
     <1>22, NextCases DEF ClientReading, ServerReading

(* The second part of the invariant holds initially. *)
LEMMA ProtocolInvInit ==
  ASSUME Init
  PROVE  ProtocolInv
<1>1. /\ \A e \in Ends : wire[e] = <<>> /\ sentASDUs[e] = <<>> /\ link[e] = "none"
      /\ \A e \in Ends : sendCount[e] = 0 /\ receiveCount[e] = 0
      /\ pc = "none" /\ thread = "none"
  BY DEF Init, APCIInit, ClientInit, MasterInit
<1>2. /\ 0 \in SeqNos /\ "client" \in Ends /\ "server" \in Ends /\ Len(<<>>) = 0
      /\ \A e \in Ends : peer(e) \in Ends
  BY APCIAssumption, EmptyFrames DEF SeqNos, Ends, peer
<1>3. OrderInv
  BY <1>1, <1>2, OrderEmpty DEF OrderInv
<1>4. CommandsInv /\ AnswersInv
  BY <1>1, <1>2, ClearEmpty, CommandsNoI DEF CommandsInv, AnswersInv, NoI
<1>5. StoppedInv /\ Phases /\ OpeningInv
  BY <1>1, <1>2 DEF StoppedInv, Phases, OpeningInv
<1> QED
  BY <1>3, <1>4, <1>5 DEF ProtocolInv

(* Who was hasty remains so. *)
LEMMA HistoryKept ==
  ASSUME Next
  PROVE  (hasty => hasty') /\ (raced => raced')
<1>1. CASE Connected \/ Break
  BY <1>1 DEF Connected, connectSucceeds, accept, refuse, modes, Break, clientVars, masterVars
<1>2. CASE UNCHANGED masterVars /\ (ClientIdle \/ resetConnection)
  BY <1>2 DEF masterVars, modes, resetConnection, ClientIdle, createSocket, createSocketFails,
              connectFails, setInactive, skipLoop, receiveNothing, receiveError, CS104_Connection_connect,
              CS104_Connection_startThreadless, CS104_Connection_close, startReturns, startFails,
              oldThreadEnds, connectReturns, closeReturns, sendASDU
<1>3. CASE UNCHANGED masterVars /\ ClientReading
  BY <1>3, ClientReadingShape DEF masterVars
<1>4. CASE UNCHANGED masterVars /\ ClientTimeouts
  BY <1>4, ClientTimeoutsShape DEF masterVars
<1>5. CASE UNCHANGED masterVars /\ (sendStartDT \/ sendStopDT \/ sendASDULocked)
  BY <1>5 DEF masterVars, sendStartDT, sendStopDT, sendASDULocked
<1>6. CASE UNCHANGED masterVars /\ ClientClosing
  BY <1>6 DEF masterVars, ClientClosing, exitThread, CS104_Connection_stopThreadless, modes
<1>7. CASE UNCHANGED clientVars /\ (ServerIdle \/ Reap)
  BY <1>7 DEF clientVars, modes, ServerIdle, HandleNothing, HandleEndOfStream, HandleReceiveError,
              LeaveReceiving, HandleT1, LeaveLoop, BypassQueue, Reap
<1>8. CASE UNCHANGED clientVars /\ ServerReading
  BY <1>8 DEF clientVars, modes, ServerReading, HandleI, HandleS, HandleTestFRAct, HandleTestFRCon,
              HandleStartDT, HandleStopDT
<1>9. CASE UNCHANGED clientVars /\ ServerSending
  BY <1>9 DEF clientVars, modes, ServerSending, HandleNoTimeout, HandleT2, HandleT3, SendWaitingASDU
<1>10. CASE UNCHANGED clientVars /\ BypassSend
  BY <1>10 DEF clientVars, modes, BypassSend
<1>11. ClientWriting => ClientTimeouts \/ sendStartDT \/ sendStopDT
  BY DEF ClientWriting, ClientTimeouts
<1> QED
  BY <1>1, <1>2, <1>3, <1>4, <1>5, <1>6, <1>7, <1>8, <1>9, <1>10, <1>11, NextCases

(* IInv is inductive. *)
LEMMA IInvStep ==
  ASSUME IInv, Next
  PROVE  IInv'
<1>1. LinkInv /\ LinkInv'
  BY LinkInvStep DEF IInv
<1>2. CASE hasty' \/ raced'
  BY <1>1, <1>2 DEF IInv, NoProtocolError, Calm
<1>3. CASE ~hasty' /\ ~raced'
  <2>1. Calm /\ ProtocolInv
    BY <1>3, HistoryKept DEF IInv, NoProtocolError, Calm
  <2>2. Channels /\ Domains /\ OrderInv /\ CommandsInv /\ StoppedInv
    BY <1>1, <2>1, LinkInvParts DEF ProtocolInv
  <2>3. error' = error
    BY <2>2, NoErrorStep
  <2>4. OrderInv' /\ CommandsInv'
    BY <1>1, <1>3, <2>1, OrderInvStep, CommandsStep
  <2>5. StoppedInv' /\ AnswersInv'
    BY <1>1, <1>3, <2>1, StoppedStep, AnswersStep
  <2>6. Phases' /\ OpeningInv'
    BY <1>1, <1>3, <2>1, PhasesStep, OpeningStep
  <2>7. ProtocolInv'
    BY <2>4, <2>5, <2>6 DEF ProtocolInv
  <2>8. NoProtocolError'
    BY <2>1, <2>3 DEF NoProtocolError, Calm
  <2> QED
    BY <1>1, <2>7, <2>8 DEF IInv
<1> QED
  BY <1>2, <1>3

(* IInv depends on the variables of the system only. *)
LEMMA IInvStutters ==
  ASSUME IInv, UNCHANGED vars
  PROVE  IInv'
<1>1. LinkInv'
  BY LinkInvStutters DEF IInv
<1>2. UNCHANGED <<link, wire, sendCount, receiveCount, sentASDUs, error, pc, hasty, conState,
                  thread, state, raced>>
  BY DEF vars, socket, counters, clientVars, modes, masterVars
<1>3. (Calm' <=> Calm) /\ (NoProtocolError' <=> NoProtocolError)
  BY <1>2 DEF Calm, NoProtocolError
<1>4. ProtocolInv => ProtocolInv'
  BY <1>2 DEF ProtocolInv, OrderInv, CommandsInv, StoppedInv, AnswersInv, Phases, OpeningInv
<1> QED
  BY <1>1, <1>3, <1>4 DEF IInv

(* Client and server never reject what the other sends, whatever is lost   *)
(* and however calls, timers and frames overlap, as long as the client's   *)
(* application waits for STARTDT_CON and STOPDT_CON and the server's does  *)
(* not send past the queues while the transfer is being stopped.           *)
THEOREM ProtocolRespected == Spec => []NoProtocolError
<1>1. Init => IInv
  BY LinkInvInit, ProtocolInvInit DEF IInv, NoProtocolError, Init, APCIInit
<1>2. IInv /\ [Next]_vars => IInv'
  BY IInvStep, IInvStutters
<1>3. IInv => NoProtocolError
  BY DEF IInv
<1> QED
  BY <1>1, <1>2, <1>3, PTL DEF Spec
=============================================================================
