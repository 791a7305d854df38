----------------------- MODULE LinkLayerBalancedProofs -----------------------
(***************************************************************************)
(* Proofs about the balanced link layer for any two stations and any       *)
(* number of ASDUs, repetitions and faults.                                *)
(*                                                                         *)
(* The argument is the one of the alternating bit protocol, with two       *)
(* complications of this code: a secondary answers at once, so a line      *)
(* carries answers between the commands, and a primary resets the link     *)
(* after a timeout, which makes the secondary expect FCB 1 again.  IInv    *)
(* therefore speaks of the commands under way to a station followed by the *)
(* repetition its peer may still send (Upcoming): whatever the losses,     *)
(* that line never lets the secondary take one ASDU twice (NewerThan) or   *)
(* two out of order (FramesInOrder).  PInv adds what an acknowledgement    *)
(* under way means as long as no timer ran ahead of its answer.  RInv      *)
(* counts the refusals under way, DInv what each primary will still lose   *)
(* although no further fault happens (Debt).                               *)
(***************************************************************************)
EXTENDS LinkLayerBalanced, FiniteSetTheorems, TLAPS

Data(f) == f.prm /\ f.fc = "USER_DATA_CONFIRMED"

(* A frame that lets the secondary expect the FCB b, other than by itself  *)
(* having the FCB b.                                                       *)
Disturbs(f, b) == f.prm /\ (f.fc = "RESET_REMOTE_LINK" \/ (f.fcv /\ f.fcb # b))

(* Of the same class, a is not newer than b. *)
NotAfter(a, b) == a[1] = b[1] => a[2] <= b[2]

(* The user data under way is in the order in which it was enqueued; a     *)
(* repeated ASDU has the FCB it had, and nothing between the repetitions   *)
(* lets the secondary expect that FCB again.                               *)
FramesInOrder(L) ==
  \A j \in 1..Len(L) : Data(L[j]) =>
    /\ L[j].asdu \in Int \X Int
    /\ \A i \in 1..(j - 1) : Data(L[i]) =>
         /\ NotAfter(L[i].asdu, L[j].asdu)
         /\ L[i].asdu = L[j].asdu =>
              /\ L[i].fcb = L[j].fcb
              /\ \A m \in (i + 1)..(j - 1) : ~Disturbs(L[m], L[j].fcb)

(* None of it is older than what was delivered; and of what was delivered  *)
(* already, the secondary expects the other FCB, and nothing before it in  *)
(* the line changes that.                                                  *)
NewerThan(L, exp, del) ==
  \A j \in 1..Len(L) : Data(L[j]) =>
    \A n \in 1..Len(del) :
      /\ NotAfter(del[n], L[j].asdu)
      /\ del[n] = L[j].asdu =>
           /\ exp # L[j].fcb
           /\ \A i \in 1..(j - 1) : ~Disturbs(L[i], L[j].fcb)

LineOK(L, exp, del) == FramesInOrder(L) /\ NewerThan(L, exp, del)

Increasing(del) ==
  \A i, j \in DOMAIN del : i < j /\ del[i][1] = del[j][1] => del[i][2] < del[j][2]

(* The tail of a non-empty sequence: its type, its length and its          *)
(* elements.                                                               *)
LEMMA TailIndex ==
  ASSUME NEW T, NEW q \in Seq(T), q # <<>>
  PROVE  /\ Tail(q) \in Seq(T) /\ Len(Tail(q)) = Len(q) - 1 /\ Len(q) \in Nat \ {0}
         /\ \A i \in 1..Len(Tail(q)) : Tail(q)[i] = q[i + 1]
         /\ Head(q) = q[1] /\ Head(q) \in T
BY Z3

(* A sequence with one element appended: its type, its length and its      *)
(* elements.                                                               *)
LEMMA AppendIndex ==
  ASSUME NEW T, NEW q \in Seq(T), NEW x \in T
  PROVE  /\ Append(q, x) \in Seq(T) /\ Len(Append(q, x)) = Len(q) + 1 /\ Len(q) \in Nat
         /\ \A i \in 1..Len(q) : Append(q, x)[i] = q[i]
         /\ Append(q, x)[Len(q) + 1] = x
OBVIOUS

(* Taking the first element and appending one commute on a non-empty       *)
(* sequence.                                                               *)
LEMMA TailOfAppend ==
  ASSUME NEW T, NEW q \in Seq(T), q # <<>>, NEW x \in T
  PROVE  /\ Tail(Append(q, x)) = Append(Tail(q), x) /\ Append(q, x) # <<>>
         /\ Append(q, x)[1] = q[1]
<1>1. Len(q) \in Nat \ {0} /\ Tail(q) \in Seq(T) /\ Len(Tail(q)) = Len(q) - 1
      /\ \A i \in 1..Len(Tail(q)) : Tail(q)[i] = q[i + 1]
  BY TailIndex
<1>2. /\ Append(q, x) \in Seq(T) /\ Len(Append(q, x)) = Len(q) + 1
      /\ \A i \in 1..Len(q) : Append(q, x)[i] = q[i]
      /\ Append(q, x)[Len(q) + 1] = x
  BY AppendIndex
<1>3. Append(q, x) # <<>>
  BY <1>1, <1>2
<1>4. /\ Tail(Append(q, x)) \in Seq(T) /\ Len(Tail(Append(q, x))) = Len(q)
      /\ \A i \in 1..Len(q) : Tail(Append(q, x))[i] = Append(q, x)[i + 1]
  BY <1>1, <1>2, <1>3, TailIndex
<1>5. /\ Append(Tail(q), x) \in Seq(T) /\ Len(Append(Tail(q), x)) = Len(q)
      /\ \A i \in 1..(Len(q) - 1) : Append(Tail(q), x)[i] = Tail(q)[i]
      /\ Append(Tail(q), x)[Len(q)] = x
  BY <1>1, AppendIndex
<1>6. ASSUME NEW i \in 1..Len(q)
      PROVE  Tail(Append(q, x))[i] = Append(Tail(q), x)[i]
  <2>1. CASE i = Len(q)
    BY <1>1, <1>2, <1>4, <1>5, <2>1
  <2>2. CASE i # Len(q)
    <3>0. Len(q) \in Nat
      BY <1>1
    <3>1. i \in 1..(Len(q) - 1) /\ i + 1 \in 1..Len(q)
      BY <2>2, <3>0
    <3>2. Append(Tail(q), x)[i] = q[i + 1]
      BY <1>1, <1>5, <3>1
    <3> QED
      BY <1>2, <1>4, <3>1, <3>2
  <2> QED
    BY <2>1, <2>2
<1>7. Tail(Append(q, x)) = Append(Tail(q), x)
  BY <1>4, <1>5, <1>6
<1> QED
  BY <1>1, <1>2, <1>3, <1>7

(* Taking the first frame off the line keeps the frames in order. *)
LEMMA TailFrames ==
  ASSUME NEW T, NEW L \in Seq(T), L # <<>>, FramesInOrder(L)
  PROVE  FramesInOrder(Tail(L))
<1> DEFINE M == Tail(L)
<1>1. /\ Len(M) = Len(L) - 1 /\ Len(L) \in Nat \ {0}
      /\ \A i \in 1..Len(M) : M[i] = L[i + 1]
  BY TailIndex
<1> HIDE DEF M
<1> SUFFICES ASSUME NEW j \in 1..Len(M), Data(M[j])
             PROVE  /\ M[j].asdu \in Int \X Int
                    /\ \A i \in 1..(j - 1) : Data(M[i]) =>
                         /\ NotAfter(M[i].asdu, M[j].asdu)
                         /\ M[i].asdu = M[j].asdu =>
                              /\ M[i].fcb = M[j].fcb
                              /\ \A m \in (i + 1)..(j - 1) : ~Disturbs(M[m], M[j].fcb)
  BY DEF FramesInOrder, M
<1>2. j + 1 \in 1..Len(L) /\ M[j] = L[j + 1]
  BY <1>1
<1>3. ASSUME NEW i \in 1..(j - 1), Data(M[i])
      PROVE  /\ NotAfter(M[i].asdu, M[j].asdu)
             /\ M[i].asdu = M[j].asdu =>
                  /\ M[i].fcb = M[j].fcb
                  /\ \A m \in (i + 1)..(j - 1) : ~Disturbs(M[m], M[j].fcb)
  <2>1. i + 1 \in 1..j /\ i + 1 \in 1..Len(L) /\ M[i] = L[i + 1] /\ j = (j + 1) - 1
    BY <1>1
  <2>2. ASSUME NEW m \in (i + 1)..(j - 1)
        PROVE  M[m] = L[m + 1] /\ m + 1 \in ((i + 1) + 1)..((j + 1) - 1)
    BY <1>1
  <2> QED
    BY <1>2, <1>3, <2>1, <2>2 DEF FramesInOrder
<1> QED
  BY <1>2, <1>3 DEF FramesInOrder

(* Taking the first frame off the line keeps the rest newer than what was  *)
(* delivered.                                                              *)
LEMMA TailNewer ==
  ASSUME NEW T, NEW L \in Seq(T), L # <<>>, NEW exp, NEW del, NewerThan(L, exp, del)
  PROVE  NewerThan(Tail(L), exp, del)
<1> DEFINE M == Tail(L)
<1>1. /\ Len(M) = Len(L) - 1 /\ Len(L) \in Nat \ {0}
      /\ \A i \in 1..Len(M) : M[i] = L[i + 1]
  BY TailIndex
<1> HIDE DEF M
<1> SUFFICES ASSUME NEW j \in 1..Len(M), Data(M[j]), NEW n \in 1..Len(del)
             PROVE  /\ NotAfter(del[n], M[j].asdu)
                    /\ del[n] = M[j].asdu =>
                         /\ exp # M[j].fcb
                         /\ \A i \in 1..(j - 1) : ~Disturbs(M[i], M[j].fcb)
  BY DEF NewerThan, M
<1>2. j + 1 \in 1..Len(L) /\ M[j] = L[j + 1]
  BY <1>1
<1>3. \A i \in 1..(j - 1) : M[i] = L[i + 1] /\ i + 1 \in 1..((j + 1) - 1)
  BY <1>1
<1> QED
  BY <1>2, <1>3 DEF NewerThan

(* A frame without user data at the end of the line disturbs nothing. *)
LEMMA AppendHarmless ==
  ASSUME NEW T, NEW L \in Seq(T), NEW f \in T, NEW exp, NEW del,
         LineOK(L, exp, del), ~Data(f)
  PROVE  LineOK(Append(L, f), exp, del)
<1> DEFINE M == Append(L, f)
<1>1. /\ Len(M) = Len(L) + 1 /\ Len(L) \in Nat
      /\ \A i \in 1..Len(L) : M[i] = L[i]
      /\ M[Len(L) + 1] = f
  BY AppendIndex
<1> HIDE DEF M
<1>2. ASSUME NEW j \in 1..Len(M), Data(M[j])
      PROVE  j \in 1..Len(L) /\ \A i \in 1..j : i \in 1..Len(L) /\ M[i] = L[i]
  BY <1>1, <1>2
<1>3. FramesInOrder(M)
  <2> SUFFICES ASSUME NEW j \in 1..Len(M), Data(M[j])
               PROVE  /\ M[j].asdu \in Int \X Int
                      /\ \A i \in 1..(j - 1) : Data(M[i]) =>
                           /\ NotAfter(M[i].asdu, M[j].asdu)
                           /\ M[i].asdu = M[j].asdu =>
                                /\ M[i].fcb = M[j].fcb
                                /\ \A m \in (i + 1)..(j - 1) : ~Disturbs(M[m], M[j].fcb)
    BY DEF FramesInOrder
  <2>1. j \in 1..Len(L) /\ M[j] = L[j] /\ \A i \in 1..(j - 1) : i \in 1..Len(L) /\ M[i] = L[i]
    BY <1>2
  <2>2. \A i \in 1..(j - 1) : \A m \in (i + 1)..(j - 1) : m \in 1..(j - 1)
    OBVIOUS
  <2> QED
    BY <2>1, <2>2 DEF LineOK, FramesInOrder
<1>4. NewerThan(M, exp, del)
  <2> SUFFICES ASSUME NEW j \in 1..Len(M), Data(M[j]), NEW n \in 1..Len(del)
               PROVE  /\ NotAfter(del[n], M[j].asdu)
                      /\ del[n] = M[j].asdu =>
                           /\ exp # M[j].fcb
                           /\ \A i \in 1..(j - 1) : ~Disturbs(M[i], M[j].fcb)
    BY DEF NewerThan
  <2>1. j \in 1..Len(L) /\ M[j] = L[j] /\ \A i \in 1..(j - 1) : i \in 1..Len(L) /\ M[i] = L[i]
    BY <1>2
  <2> QED
    BY <2>1 DEF LineOK, NewerThan
<1> QED
  BY <1>3, <1>4 DEF LineOK, M

(* Without its last frame a line is still in order. *)
LEMMA DropLast ==
  ASSUME NEW T, NEW L \in Seq(T), NEW f \in T, NEW exp, NEW del,
         LineOK(Append(L, f), exp, del)
  PROVE  LineOK(L, exp, del)
<1> DEFINE M == Append(L, f)
<1>1. /\ Len(M) = Len(L) + 1 /\ Len(L) \in Nat
      /\ \A i \in 1..Len(L) : M[i] = L[i]
  BY AppendIndex
<1>2. FramesInOrder(M) /\ NewerThan(M, exp, del)
  BY DEF LineOK
<1> HIDE DEF M
<1>3. FramesInOrder(L)
  <2> SUFFICES ASSUME NEW j \in 1..Len(L), Data(L[j])
               PROVE  /\ L[j].asdu \in Int \X Int
                      /\ \A i \in 1..(j - 1) : Data(L[i]) =>
                           /\ NotAfter(L[i].asdu, L[j].asdu)
                           /\ L[i].asdu = L[j].asdu =>
                                /\ L[i].fcb = L[j].fcb
                                /\ \A m \in (i + 1)..(j - 1) : ~Disturbs(L[m], L[j].fcb)
    BY DEF FramesInOrder
  <2>1. j \in 1..Len(M) /\ M[j] = L[j] /\ \A i \in 1..(j - 1) : M[i] = L[i]
    BY <1>1
  <2>2. \A i \in 1..(j - 1) : \A m \in (i + 1)..(j - 1) : m \in 1..(j - 1)
    OBVIOUS
  <2> QED
    BY <1>2, <2>1, <2>2 DEF FramesInOrder
<1>4. NewerThan(L, exp, del)
  <2> SUFFICES ASSUME NEW j \in 1..Len(L), Data(L[j]), NEW n \in 1..Len(del)
               PROVE  /\ NotAfter(del[n], L[j].asdu)
                      /\ del[n] = L[j].asdu =>
                           /\ exp # L[j].fcb
                           /\ \A i \in 1..(j - 1) : ~Disturbs(L[i], L[j].fcb)
    BY DEF NewerThan
  <2>1. j \in 1..Len(M) /\ M[j] = L[j] /\ \A i \in 1..(j - 1) : M[i] = L[i]
    BY <1>1
  <2> QED
    BY <1>2, <2>1 DEF NewerThan
<1> QED
  BY <1>3, <1>4 DEF LineOK

(* A data frame v can be appended when everything in the line and everything *)
(* delivered is not newer, and a repetition of it would still be told apart. *)
LEMMA AppendData ==
  ASSUME NEW T, NEW L \in Seq(T), NEW v \in T, NEW exp, NEW del,
         LineOK(L, exp, del), Data(v), v.asdu \in Int \X Int,
         \A i \in 1..Len(L) : Data(L[i]) =>
           /\ NotAfter(L[i].asdu, v.asdu)
           /\ L[i].asdu = v.asdu =>
                /\ L[i].fcb = v.fcb
                /\ \A m \in (i + 1)..Len(L) : ~Disturbs(L[m], v.fcb),
         \A n \in 1..Len(del) :
           /\ NotAfter(del[n], v.asdu)
           /\ del[n] = v.asdu =>
                /\ exp # v.fcb
                /\ \A i \in 1..Len(L) : ~Disturbs(L[i], v.fcb)
  PROVE  LineOK(Append(L, v), exp, del)
<1> DEFINE M == Append(L, v)
<1>1. /\ Len(M) = Len(L) + 1 /\ Len(L) \in Nat
      /\ \A i \in 1..Len(L) : M[i] = L[i]
      /\ M[Len(L) + 1] = v
  BY AppendIndex
<1>2. FramesInOrder(L) /\ NewerThan(L, exp, del)
  BY DEF LineOK
<1> HIDE DEF M
<1>3. FramesInOrder(M)
  <2> SUFFICES ASSUME NEW j \in 1..Len(M), Data(M[j])
               PROVE  /\ M[j].asdu \in Int \X Int
                      /\ \A i \in 1..(j - 1) : Data(M[i]) =>
                           /\ NotAfter(M[i].asdu, M[j].asdu)
                           /\ M[i].asdu = M[j].asdu =>
                                /\ M[i].fcb = M[j].fcb
                                /\ \A m \in (i + 1)..(j - 1) : ~Disturbs(M[m], M[j].fcb)
    BY DEF FramesInOrder
  <2>1. \A i \in 1..(j - 1) : i \in 1..Len(L) /\ M[i] = L[i]
    BY <1>1
  <2>2. \A i \in 1..(j - 1) : \A m \in (i + 1)..(j - 1) : m \in 1..(j - 1)
    OBVIOUS
  <2>3. CASE j \in 1..Len(L)
    <3>1. M[j] = L[j]
      BY <1>1, <2>3
    <3> QED
      BY <1>2, <2>1, <2>2, <2>3, <3>1 DEF FramesInOrder
  <2>4. CASE j = Len(L) + 1
    <3>1. M[j] = v /\ j - 1 = Len(L)
      BY <1>1, <2>4
    <3> QED
      BY <2>1, <2>2, <3>1
  <2> QED
    BY <1>1, <2>3, <2>4
<1>4. NewerThan(M, exp, del)
  <2> SUFFICES ASSUME NEW j \in 1..Len(M), Data(M[j]), NEW n \in 1..Len(del)
               PROVE  /\ NotAfter(del[n], M[j].asdu)
                      /\ del[n] = M[j].asdu =>
                           /\ exp # M[j].fcb
                           /\ \A i \in 1..(j - 1) : ~Disturbs(M[i], M[j].fcb)
    BY DEF NewerThan
  <2>1. \A i \in 1..(j - 1) : i \in 1..Len(L) /\ M[i] = L[i]
    BY <1>1
  <2>3. CASE j \in 1..Len(L)
    <3>1. M[j] = L[j]
      BY <1>1, <2>3
    <3> QED
      BY <1>2, <2>1, <2>3, <3>1 DEF NewerThan
  <2>4. CASE j = Len(L) + 1
    <3>1. M[j] = v /\ j - 1 = Len(L)
      BY <1>1, <2>4
    <3> QED
      BY <2>1, <3>1
  <2> QED
    BY <1>1, <2>3, <2>4
<1> QED
  BY <1>3, <1>4 DEF LineOK, M

(* What is said of the last frame, seen from it. *)
LEMMA LastData ==
  ASSUME NEW T, NEW L \in Seq(T), NEW v \in T, NEW exp, NEW del,
         LineOK(Append(L, v), exp, del), Data(v)
  PROVE  /\ v.asdu \in Int \X Int
         /\ \A i \in 1..Len(L) : Data(L[i]) =>
              /\ NotAfter(L[i].asdu, v.asdu)
              /\ L[i].asdu = v.asdu =>
                   /\ L[i].fcb = v.fcb
                   /\ \A m \in (i + 1)..Len(L) : ~Disturbs(L[m], v.fcb)
         /\ \A n \in 1..Len(del) :
              /\ NotAfter(del[n], v.asdu)
              /\ del[n] = v.asdu =>
                   /\ exp # v.fcb
                   /\ \A i \in 1..Len(L) : ~Disturbs(L[i], v.fcb)
<1> DEFINE M == Append(L, v)
<1>1. /\ Len(M) = Len(L) + 1 /\ Len(L) \in Nat
      /\ \A i \in 1..Len(L) : M[i] = L[i]
      /\ M[Len(L) + 1] = v
  BY AppendIndex
<1>2. FramesInOrder(M) /\ NewerThan(M, exp, del)
  BY DEF LineOK
<1> HIDE DEF M
<1>3. Len(M) \in 1..Len(M) /\ Len(M) - 1 = Len(L) /\ M[Len(M)] = v
  BY <1>1
<1>4. \A i \in 1..Len(L) : \A m \in (i + 1)..Len(L) : M[m] = L[m]
  BY <1>1
<1>5. v.asdu \in Int \X Int
  BY <1>2, <1>3 DEF FramesInOrder
<1>6. ASSUME NEW i \in 1..Len(L), Data(L[i])
      PROVE  /\ NotAfter(L[i].asdu, v.asdu)
             /\ L[i].asdu = v.asdu =>
                  /\ L[i].fcb = v.fcb
                  /\ \A m \in (i + 1)..Len(L) : ~Disturbs(L[m], v.fcb)
  BY <1>1, <1>2, <1>3, <1>4, <1>6 DEF FramesInOrder
<1>7. ASSUME NEW n \in 1..Len(del)
      PROVE  /\ NotAfter(del[n], v.asdu)
             /\ del[n] = v.asdu =>
                  /\ exp # v.fcb
                  /\ \A i \in 1..Len(L) : ~Disturbs(L[i], v.fcb)
  BY <1>1, <1>2, <1>3, <1>7 DEF NewerThan
<1> QED
  BY <1>5, <1>6, <1>7

(* The last frame once more. *)
LEMMA RepeatLast ==
  ASSUME NEW T, NEW L \in Seq(T), NEW v \in T, NEW exp, NEW del,
         LineOK(Append(L, v), exp, del), Data(v), ~Disturbs(v, v.fcb)
  PROVE  LineOK(Append(Append(L, v), v), exp, del)
<1> DEFINE M == Append(L, v)
<1>1. /\ M \in Seq(T) /\ Len(M) = Len(L) + 1 /\ Len(L) \in Nat
      /\ \A i \in 1..Len(L) : M[i] = L[i]
      /\ M[Len(L) + 1] = v
  BY AppendIndex
<1>2. LineOK(M, exp, del)
  OBVIOUS
<1>3. /\ v.asdu \in Int \X Int
      /\ \A i \in 1..Len(L) : Data(L[i]) =>
           /\ NotAfter(L[i].asdu, v.asdu)
           /\ L[i].asdu = v.asdu =>
                /\ L[i].fcb = v.fcb
                /\ \A m \in (i + 1)..Len(L) : ~Disturbs(L[m], v.fcb)
      /\ \A n \in 1..Len(del) :
           /\ NotAfter(del[n], v.asdu)
           /\ del[n] = v.asdu =>
                /\ exp # v.fcb
                /\ \A i \in 1..Len(L) : ~Disturbs(L[i], v.fcb)
  BY LastData
<1> HIDE DEF M
<1>4. ASSUME NEW i \in 1..Len(M), Data(M[i])
      PROVE  /\ NotAfter(M[i].asdu, v.asdu)
             /\ M[i].asdu = v.asdu =>
                  /\ M[i].fcb = v.fcb
                  /\ \A m \in (i + 1)..Len(M) : ~Disturbs(M[m], v.fcb)
  <2>1. ASSUME NEW m \in (i + 1)..Len(M)
        PROVE  m = Len(L) + 1 \/ (m \in (i + 1)..Len(L) /\ M[m] = L[m])
    <3>0. Len(L) \in Nat /\ Len(M) = Len(L) + 1 /\ i \in Nat \ {0}
      BY <1>1
    <3>1. m = Len(L) + 1 \/ (m \in (i + 1)..Len(L) /\ m \in 1..Len(L))
      BY <3>0
    <3> QED
      BY <1>1, <3>1
  <2>2. CASE i \in 1..Len(L)
    BY <1>1, <1>3, <1>4, <2>1, <2>2
  <2>3. CASE i = Len(L) + 1
    <3>1. NotAfter(v.asdu, v.asdu)
      BY <1>3 DEF NotAfter
    <3> QED
      BY <1>1, <2>3, <3>1
  <2> QED
    BY <1>1, <2>2, <2>3
<1>5. ASSUME NEW n \in 1..Len(del)
      PROVE  /\ NotAfter(del[n], v.asdu)
             /\ del[n] = v.asdu =>
                  /\ exp # v.fcb
                  /\ \A i \in 1..Len(M) : ~Disturbs(M[i], v.fcb)
  BY <1>1, <1>3, <1>5
<1>6. LineOK(Append(M, v), exp, del)
  BY <1>1, <1>2, <1>3, <1>4, <1>5, AppendData
<1> QED
  BY <1>6 DEF M

(* An answer may come between the line and the repetition that follows. *)
LEMMA InsertHarmless ==
  ASSUME NEW T, NEW L \in Seq(T), NEW v \in T, NEW f \in T, NEW exp, NEW del,
         LineOK(Append(L, v), exp, del), Data(v), ~f.prm
  PROVE  LineOK(Append(Append(L, f), v), exp, del)
<1> DEFINE M == Append(L, f)
<1>1. /\ M \in Seq(T) /\ Len(M) = Len(L) + 1 /\ Len(L) \in Nat
      /\ \A i \in 1..Len(L) : M[i] = L[i]
      /\ M[Len(L) + 1] = f
  BY AppendIndex
<1>2. ~Data(f) /\ \A b : ~Disturbs(f, b)
  BY DEF Data, Disturbs
<1>3. LineOK(M, exp, del)
  BY <1>2, DropLast, AppendHarmless
<1>4. /\ v.asdu \in Int \X Int
      /\ \A i \in 1..Len(L) : Data(L[i]) =>
           /\ NotAfter(L[i].asdu, v.asdu)
           /\ L[i].asdu = v.asdu =>
                /\ L[i].fcb = v.fcb
                /\ \A m \in (i + 1)..Len(L) : ~Disturbs(L[m], v.fcb)
      /\ \A n \in 1..Len(del) :
           /\ NotAfter(del[n], v.asdu)
           /\ del[n] = v.asdu =>
                /\ exp # v.fcb
                /\ \A i \in 1..Len(L) : ~Disturbs(L[i], v.fcb)
  BY LastData
<1> HIDE DEF M
<1>5. ASSUME NEW i \in 1..Len(M), Data(M[i])
      PROVE  /\ NotAfter(M[i].asdu, v.asdu)
             /\ M[i].asdu = v.asdu =>
                  /\ M[i].fcb = v.fcb
                  /\ \A m \in (i + 1)..Len(M) : ~Disturbs(M[m], v.fcb)
  <2>1. i \in 1..Len(L) /\ M[i] = L[i]
    BY <1>1, <1>2, <1>5
  <2>2. ASSUME NEW m \in (i + 1)..Len(M)
        PROVE  M[m] = f \/ (m \in (i + 1)..Len(L) /\ M[m] = L[m])
    <3>0. Len(L) \in Nat /\ Len(M) = Len(L) + 1 /\ i \in Nat \ {0}
      BY <1>1
    <3>1. m = Len(L) + 1 \/ (m \in (i + 1)..Len(L) /\ m \in 1..Len(L))
      BY <3>0
    <3> QED
      BY <1>1, <3>1
  <2> QED
    BY <1>2, <1>4, <1>5, <2>1, <2>2
<1>6. ASSUME NEW n \in 1..Len(del)
      PROVE  /\ NotAfter(del[n], v.asdu)
             /\ del[n] = v.asdu =>
                  /\ exp # v.fcb
                  /\ \A i \in 1..Len(M) : ~Disturbs(M[i], v.fcb)
  BY <1>1, <1>2, <1>4, <1>6
<1>7. LineOK(Append(M, v), exp, del)
  BY <1>1, <1>3, <1>4, <1>5, <1>6, AppendData
<1> QED
  BY <1>7 DEF M

(* The secondary reads a frame that changes what it expects: it expected b *)
(* and the frame would have let it expect b.                               *)
LEMMA ReadDisturbing ==
  ASSUME NEW T, NEW L \in Seq(T), L # <<>>, NEW exp \in BOOLEAN, NEW new \in BOOLEAN, NEW del,
         LineOK(L, exp, del), L[1].prm,
         \/ L[1].fc = "RESET_REMOTE_LINK"
         \/ L[1].fcv /\ L[1].fcb = exp
  PROVE  LineOK(Tail(L), new, del)
<1> DEFINE M == Tail(L)
<1>1. /\ Len(M) = Len(L) - 1 /\ Len(L) \in Nat \ {0}
      /\ \A i \in 1..Len(M) : M[i] = L[i + 1]
  BY TailIndex
<1>2. FramesInOrder(M)
  BY TailFrames DEF LineOK
<1> HIDE DEF M
<1>3. ASSUME NEW j \in 1..Len(M), Data(M[j]), NEW n \in 1..Len(del)
      PROVE  NotAfter(del[n], M[j].asdu) /\ del[n] # M[j].asdu
  <2>1. j + 1 \in 1..Len(L) /\ M[j] = L[j + 1] /\ 1 \in 1..((j + 1) - 1)
    BY <1>1
  <2>2. /\ NotAfter(del[n], M[j].asdu)
        /\ del[n] = M[j].asdu => exp # M[j].fcb /\ ~Disturbs(L[1], M[j].fcb)
    BY <1>3, <2>1 DEF LineOK, NewerThan
  <2> QED
    BY <2>2 DEF Disturbs
<1>4. NewerThan(M, new, del)
  BY <1>3 DEF NewerThan
<1> QED
  BY <1>2, <1>4 DEF LineOK, M

(* The secondary reads the user data it expects: it is newer than all it   *)
(* has delivered, and not newer than what is still under way.              *)
LEMMA ReadData ==
  ASSUME NEW T, NEW L \in Seq(T), L # <<>>, NEW exp \in BOOLEAN, NEW new \in BOOLEAN, NEW A \in SUBSET (Int \X Int),
         NEW del \in Seq(A), LineOK(L, exp, del), Data(L[1]), L[1].asdu \in A,
         L[1].fcv, L[1].fcb = exp, new # exp, Increasing(del)
  PROVE  /\ LineOK(Tail(L), new, Append(del, L[1].asdu))
         /\ Increasing(Append(del, L[1].asdu))
<1> DEFINE M == Tail(L)
           D == Append(del, L[1].asdu)
<1>1. /\ Len(M) = Len(L) - 1 /\ Len(L) \in Nat \ {0}
      /\ \A i \in 1..Len(M) : M[i] = L[i + 1]
  BY TailIndex
<1>2. /\ D \in Seq(A) /\ Len(D) = Len(del) + 1 /\ Len(del) \in Nat
      /\ \A i \in 1..Len(del) : D[i] = del[i]
      /\ D[Len(del) + 1] = L[1].asdu
  BY AppendIndex
<1>3. FramesInOrder(M)
  BY TailFrames DEF LineOK
<1>4. DOMAIN D = 1..Len(D) /\ DOMAIN del = 1..Len(del)
  BY <1>2
<1>5. NewerThan(M, new, del)
  <2>1. LineOK(M, new, del)
    BY ReadDisturbing DEF Data
  <2> QED
    BY <2>1 DEF LineOK
<1> HIDE DEF M, D
<1>6. ASSUME NEW j \in 1..Len(M), Data(M[j])
      PROVE  /\ NotAfter(L[1].asdu, M[j].asdu)
             /\ L[1].asdu = M[j].asdu =>
                  /\ new # M[j].fcb
                  /\ \A i \in 1..(j - 1) : ~Disturbs(M[i], M[j].fcb)
  <2>1. j + 1 \in 1..Len(L) /\ M[j] = L[j + 1] /\ 1 \in 1..((j + 1) - 1)
    BY <1>1
  <2>2. \A i \in 1..(j - 1) : M[i] = L[i + 1] /\ i + 1 \in (1 + 1)..((j + 1) - 1)
    BY <1>1
  <2>3. /\ NotAfter(L[1].asdu, L[j + 1].asdu)
        /\ L[1].asdu = L[j + 1].asdu =>
             /\ L[1].fcb = L[j + 1].fcb
             /\ \A m \in (1 + 1)..((j + 1) - 1) : ~Disturbs(L[m], L[j + 1].fcb)
    BY <1>6, <2>1 DEF LineOK, FramesInOrder
  <2> QED
    BY <2>1, <2>2, <2>3
<1>7. NewerThan(M, new, D)
  <2> SUFFICES ASSUME NEW j \in 1..Len(M), Data(M[j]), NEW n \in 1..Len(D)
               PROVE  /\ NotAfter(D[n], M[j].asdu)
                      /\ D[n] = M[j].asdu =>
                           /\ new # M[j].fcb
                           /\ \A i \in 1..(j - 1) : ~Disturbs(M[i], M[j].fcb)
    BY DEF NewerThan
  <2>1. CASE n \in 1..Len(del)
    <3>1. D[n] = del[n]
      BY <1>2, <2>1
    <3> QED
      BY <1>5, <2>1, <3>1 DEF NewerThan
  <2>2. CASE n = Len(del) + 1
    <3>1. D[n] = L[1].asdu
      BY <1>2, <2>2
    <3> QED
      BY <1>6, <3>1
  <2> QED
    BY <1>2, <2>1, <2>2
<1>8. ASSUME NEW n \in 1..Len(del), del[n][1] = L[1].asdu[1]
      PROVE  del[n][2] < L[1].asdu[2]
  <2>1. 1 \in 1..Len(L)
    BY <1>1
  <2>2. NotAfter(del[n], L[1].asdu) /\ del[n] # L[1].asdu
    BY <2>1 DEF LineOK, NewerThan
  <2>3. PICK x \in Int \X Int, y \in Int \X Int : x = del[n] /\ y = L[1].asdu
    OBVIOUS
  <2>4. x[1] = y[1] /\ x[2] <= y[2] /\ x # y
    BY <1>8, <2>2, <2>3 DEF NotAfter
  <2>5. x = <<x[1], x[2]>> /\ y = <<y[1], y[2]>> /\ x[2] \in Int /\ y[2] \in Int
    OBVIOUS
  <2>6. x[2] # y[2]
    BY <2>4, <2>5
  <2> QED
    BY <2>3, <2>4, <2>5, <2>6
<1>9. Increasing(D)
  <2> SUFFICES ASSUME NEW i \in 1..Len(D), NEW j \in 1..Len(D), i < j, D[i][1] = D[j][1]
               PROVE  D[i][2] < D[j][2]
    BY <1>4 DEF Increasing
  <2>a. Len(D) = Len(del) + 1 /\ Len(del) \in Nat
    BY <1>2
  <2>0. i \in 1..Len(del) /\ (j \in 1..Len(del) \/ j = Len(del) + 1)
    <3>1. i \in Nat /\ j \in Nat /\ 1 <= i /\ i < j /\ j <= Len(del) + 1
      BY <2>a
    <3> QED
      BY <2>a, <3>1
  <2>1. D[i] = del[i]
    BY <1>2, <2>0
  <2>2. CASE j \in 1..Len(del)
    BY <1>2, <1>4, <2>0, <2>1, <2>2 DEF Increasing
  <2>3. CASE j = Len(del) + 1
    BY <1>2, <1>8, <2>0, <2>1, <2>3
  <2> QED
    BY <2>0, <2>2, <2>3
<1> QED
  BY <1>3, <1>7, <1>9 DEF LineOK, M, D

---------------------------------------------------------------------------
(* The frame that s may repeat: the ASDU in hand, with the FCB it had.     *)
MayRepeat(s) ==
  /\ primaryState[s] = "SEND_CONFIRM" /\ ~sendLinkLayerTestFunction[s]
  /\ lastSendAsdu[s] # NoAsdu

Repetition(s) == UserData(repeatedFcb(s), lastSendAsdu[s])

(* What s has sent and may still send again before it sends a new ASDU.    *)
Upcoming(s) ==
  IF MayRepeat(s) THEN Append(line[Peer(s)], Repetition(s)) ELSE line[Peer(s)]

ChannelsOK ==
  \A s \in Stations : LineOK(Upcoming(s), expectedFcb[Peer(s)], delivered[Peer(s)])

(* The ASDUs of class c that s took from its queue are 1..Taken(s, c), and *)
(* only those can be anywhere else.                                        *)
Taken(s, c) == enqueued[s][c] - Len(queue[s][c])

TakenAsdus(s) == {a \in AsdusOf(s) : a[2] <= Taken(s, a[1])}

QueuesOK ==
  \A s \in Stations : \A c \in Classes[s] :
    /\ enqueued[s][c] \in 0..Asdus[s] /\ queue[s][c] \in Seq(AsdusOf(s))
    /\ Taken(s, c) \in Nat
    /\ \A i \in 1..Len(queue[s][c]) : queue[s][c][i] = <<c, Taken(s, c) + i>>

CarriesOnly(L, A) == \A i \in 1..Len(L) : Data(L[i]) => L[i].asdu \in A

TakenOK ==
  \A s \in Stations :
    /\ lastSendAsdu[s] \in TakenAsdus(s) \cup {NoAsdu}
    /\ CarriesOnly(line[Peer(s)], TakenAsdus(s))
    /\ delivered[Peer(s)] \in Seq(TakenAsdus(s))

(* In SEND_CONFIRM there is an ASDU in hand or a test is under way.        *)
HasWhatItSent ==
  \A s \in Stations : primaryState[s] = "SEND_CONFIRM" =>
    lastSendAsdu[s] # NoAsdu \/ sendLinkLayerTestFunction[s]

(* The variables that hold one value per station. *)
PerStation ==
  /\ line = [s \in Stations |-> line[s]] /\ lastSendAsdu = [s \in Stations |-> lastSendAsdu[s]]
  /\ queue = [s \in Stations |-> [c \in Classes[s] |-> queue[s][c]]]
  /\ enqueued = [s \in Stations |-> [c \in Classes[s] |-> enqueued[s][c]]]
  /\ delivered = [s \in Stations |-> delivered[s]]
  /\ confirmed = [s \in Stations |-> confirmed[s]] /\ abandoned = [s \in Stations |-> abandoned[s]]

IInv ==
  TypeOK /\ PerStation /\ HasWhatItSent /\ QueuesOK /\ TakenOK /\ ChannelsOK /\ InOrderOnce

---------------------------------------------------------------------------
(* There are two stations, each the peer of the other. *)
LEMMA TwoStations ==
  ASSUME NEW s \in Stations
  PROVE  /\ Peer(s) \in Stations /\ Peer(s) # s /\ Peer(Peer(s)) = s
         /\ \A t \in Stations : t = s \/ t = Peer(s)
<1>1. IsFiniteSet(Stations \ {s}) /\ Cardinality(Stations \ {s}) = 1
  BY BalancedAssumption, FS_RemoveElement
<1>2. PICK x : Stations \ {s} = {x}
  BY <1>1, FS_Singleton
<1>3. x \in Stations /\ x # s /\ \A t \in Stations : t = s \/ t = x
  BY <1>2
<1>4. Peer(s) = x
  BY <1>3 DEF Peer
<1>5. Peer(x) = s
  BY <1>3 DEF Peer
<1> QED
  BY <1>3, <1>4, <1>5

(* The fields of a frame: what a request carries, and that user data       *)
(* carries an ASDU and the FCB.                                            *)
LEMMA FrameType ==
  ASSUME NEW p \in Stations, NEW f \in Frames(p)
  PROVE  /\ f.prm \in BOOLEAN
         /\ f.prm => f.fcb \in BOOLEAN /\ f.fcv \in BOOLEAN
         /\ Data(f) => f.fcv /\ f.asdu \in AsdusOf(Peer(p))
<1>1. CASE \E fc, b, v : f = Fixed(fc, b, v) /\ fc # "USER_DATA_CONFIRMED"
                        /\ b \in BOOLEAN /\ v \in BOOLEAN
  BY <1>1 DEF Fixed, Data
<1>2. CASE \E b, a : f = UserData(b, a) /\ b \in BOOLEAN /\ a \in AsdusOf(Peer(p))
  BY <1>2 DEF UserData, Data
<1>3. CASE \E fc, d : f = [prm |-> FALSE, fc |-> fc, dfc |-> d]
  BY <1>3 DEF Data
<1> QED
  BY <1>1, <1>2, <1>3 DEF Frames, Answer, ForeignAnswers

(* An ASDU is a pair of its class and its number; NoAsdu is none. *)
LEMMA AsduType ==
  ASSUME NEW s \in Stations
  PROVE  /\ AsdusOf(s) \subseteq Int \X Int
         /\ NoAsdu \notin AsdusOf(s)
         /\ \A a \in AsdusOf(s) : a[1] \in Classes[s] /\ a[2] \in 1..Asdus[s] /\ a = <<a[1], a[2]>>
BY BalancedAssumption DEF AsdusOf, NoAsdu

(* The frames the model constructs are frames, and which of them carry     *)
(* user data or answer.                                                    *)
LEMMA SentFrames ==
  ASSUME NEW s \in Stations
  PROVE  /\ \A fc \in {"RESET_REMOTE_LINK", "TEST_FUNCTION_FOR_LINK", "REQUEST_LINK_STATUS"} :
              \A b, v \in BOOLEAN : Fixed(fc, b, v) \in Frames(Peer(s)) /\ ~Data(Fixed(fc, b, v))
         /\ \A b \in BOOLEAN, a \in AsdusOf(s) :
              UserData(b, a) \in Frames(Peer(s)) /\ Data(UserData(b, a))
         /\ Answer("ACK") \in Frames(Peer(s)) /\ Answer("STATUS_OF_LINK") \in Frames(Peer(s))
         /\ ForeignAnswers \subseteq Frames(Peer(s))
         /\ ~Answer("ACK").prm /\ ~Answer("STATUS_OF_LINK").prm /\ \A f \in ForeignAnswers : ~f.prm
<1>1. Peer(Peer(s)) = s
  BY TwoStations
<1>2. ASSUME NEW fc \in {"RESET_REMOTE_LINK", "TEST_FUNCTION_FOR_LINK", "REQUEST_LINK_STATUS"},
             NEW b \in BOOLEAN, NEW v \in BOOLEAN
      PROVE  Fixed(fc, b, v) \in Frames(Peer(s)) /\ ~Data(Fixed(fc, b, v))
  <2>1. Fixed(fc, b, v) \in Frames(Peer(s))
    BY DEF Frames
  <2> QED
    BY <2>1 DEF Fixed, Data
<1>3. ASSUME NEW b \in BOOLEAN, NEW a \in AsdusOf(s)
      PROVE  UserData(b, a) \in Frames(Peer(s)) /\ Data(UserData(b, a))
  <2>1. UserData(b, a) \in Frames(Peer(s))
    BY <1>1 DEF Frames
  <2> QED
    BY <2>1 DEF UserData, Data
<1>4. /\ Answer("ACK") \in Frames(Peer(s)) /\ Answer("STATUS_OF_LINK") \in Frames(Peer(s))
      /\ ForeignAnswers \subseteq Frames(Peer(s))
  BY DEF Frames
<1>5. ~Answer("ACK").prm /\ ~Answer("STATUS_OF_LINK").prm /\ \A f \in ForeignAnswers : ~f.prm
  BY DEF Answer, ForeignAnswers
<1> QED
  BY <1>2, <1>3, <1>4, <1>5

(* The ASDU that is sent next is the one after the last one taken, of its  *)
(* class.                                                                  *)
LEMMA HeadOfQueue ==
  ASSUME QueuesOK, NEW s \in Stations, hasUserData(s)
  PROVE  /\ classToSend(s) \in Classes[s] /\ queue[s][classToSend(s)] # <<>>
         /\ Head(queue[s][classToSend(s)]) = <<classToSend(s), Taken(s, classToSend(s)) + 1>>
         /\ Head(queue[s][classToSend(s)]) \in AsdusOf(s)
<1>1. Classes[s] \subseteq {1, 2}
  BY BalancedAssumption
<1>2. \E c \in Classes[s] : queue[s][c] /= <<>> /\ \A d \in Classes[s] : queue[s][d] /= <<>> => c <= d
  BY <1>1 DEF hasUserData
<1>3. classToSend(s) \in Classes[s] /\ queue[s][classToSend(s)] # <<>>
  BY <1>2 DEF classToSend
<1> DEFINE q == queue[s][classToSend(s)]
<1>4. q \in Seq(AsdusOf(s)) /\ q # <<>>
  BY <1>3 DEF QueuesOK
<1>5. Len(q) \in Nat \ {0} /\ Head(q) = q[1] /\ Head(q) \in AsdusOf(s)
  BY <1>4, TailIndex
<1>6. 1 \in 1..Len(q)
  BY <1>5
<1> QED
  BY <1>3, <1>5, <1>6 DEF QueuesOK

(* Handling a frame decides whether the state machine runs before the      *)
(* next one.                                                               *)
LEMMA HandledIsRan ==
  ASSUME NEW s \in Stations, HandleMessage(s)
  PROVE  mustRun' = [mustRun EXCEPT ![s] = primaryState'[s] = "IDLE"]
BY DEF HandleMessage

(* The variables with one plain value per station keep their types.        *)
LEMMA StationTypes ==
  ASSUME TypeOK, [Next]_vars
  PROVE  /\ state' \in [Stations -> {"IDLE", "ERROR", "BUSY", "AVAILABLE"}]
         /\ primaryState' \in [Stations -> {"IDLE", "REQUEST_STATUS", "RESET_REMOTE_LINK",
                                    "LINK_LAYERS_AVAILABLE", "SEND_CONFIRM", "BUSY"}]
         /\ waitingForResponse' \in [Stations -> BOOLEAN]
         /\ sendLinkLayerTestFunction' \in [Stations -> BOOLEAN]
         /\ nextFcb' \in [Stations -> BOOLEAN] /\ expectedFcb' \in [Stations -> BOOLEAN]
         /\ mustRun' \in [Stations -> BOOLEAN]
         /\ repeats' \in [Stations -> 0..Repeats]
<1> USE DEF primary, appl, history
<1>1. CASE UNCHANGED vars
  BY <1>1 DEF vars, TypeOK
<1>2. ASSUME NEW s \in Stations, HandleMessage(s)
      PROVE  /\ state' \in [Stations -> {"IDLE", "ERROR", "BUSY", "AVAILABLE"}]
             /\ primaryState' \in [Stations -> {"IDLE", "REQUEST_STATUS", "RESET_REMOTE_LINK",
                                    "LINK_LAYERS_AVAILABLE", "SEND_CONFIRM", "BUSY"}]
             /\ waitingForResponse' \in [Stations -> BOOLEAN]
             /\ sendLinkLayerTestFunction' \in [Stations -> BOOLEAN]
             /\ nextFcb' \in [Stations -> BOOLEAN]
             /\ mustRun' \in [Stations -> BOOLEAN]
             /\ repeats' \in [Stations -> 0..Repeats]
  <2> USE DEF HandleWrongFCB, HandleResetRemoteLink, HandleTestFunction,
        HandleUserDataConfirmed, HandleRequestLinkStatus, HandleDFC, HandleResetAck, HandleAck,
        HandleStrayAck, HandleNack, HandleIllegal, HandleStatusOfLink, HandleServiceNotImplemented,
        ForeignAnswer, setNewState
  <2>1. state' \in [Stations -> {"IDLE", "ERROR", "BUSY", "AVAILABLE"}]
    BY <1>2 DEF TypeOK, HandleMessage, HandleFrame
  <2>2. primaryState' \in [Stations -> {"IDLE", "REQUEST_STATUS", "RESET_REMOTE_LINK",
                                    "LINK_LAYERS_AVAILABLE", "SEND_CONFIRM", "BUSY"}]
    BY <1>2 DEF TypeOK, HandleMessage, HandleFrame
  <2>3. waitingForResponse' \in [Stations -> BOOLEAN]
    BY <1>2 DEF TypeOK, HandleMessage, HandleFrame, stillWaiting
  <2>4. sendLinkLayerTestFunction' \in [Stations -> BOOLEAN]
    BY <1>2 DEF TypeOK, HandleMessage, HandleFrame
  <2>5. nextFcb' = nextFcb /\ repeats' = repeats
    BY <1>2 DEF TypeOK, HandleMessage, HandleFrame
  <2>6. mustRun' \in [Stations -> BOOLEAN]
    BY <1>2, HandledIsRan DEF TypeOK
  <2> QED
    BY <2>1, <2>2, <2>3, <2>4, <2>5, <2>6 DEF TypeOK
<1>3. ASSUME NEW s \in Stations, HandleMessage(s)
      PROVE  expectedFcb' \in [Stations -> BOOLEAN]
  <2>1. line[s] # <<>> => Head(line[s]) \in Frames(s)
    BY TailIndex DEF TypeOK
  <2>2. line[s] # <<>> /\ Head(line[s]).prm => Head(line[s]).fcv \in BOOLEAN
    BY <2>1, FrameType
  <2>3. \/ expectedFcb' = expectedFcb
        \/ expectedFcb' = [expectedFcb EXCEPT ![s] = TRUE]
        \/ expectedFcb' = [expectedFcb EXCEPT ![s] = fcbToggled(s, Head(line[s]))]
    BY <1>3 DEF HandleMessage, HandleFrame, HandleWrongFCB, HandleResetRemoteLink, HandleTestFunction,
        HandleUserDataConfirmed, HandleRequestLinkStatus, HandleDFC, HandleResetAck, HandleAck,
        HandleStrayAck, HandleNack, HandleIllegal, HandleStatusOfLink, HandleServiceNotImplemented,
        ForeignAnswer
  <2>4. fcbToggled(s, Head(line[s])) \in BOOLEAN
    BY DEF fcbToggled, TypeOK
  <2> QED
    BY <2>3, <2>4 DEF TypeOK
<1>4. ASSUME NEW s \in Stations, RunStateMachine(s)
      PROVE  /\ state' \in [Stations -> {"IDLE", "ERROR", "BUSY", "AVAILABLE"}]
             /\ primaryState' \in [Stations -> {"IDLE", "REQUEST_STATUS", "RESET_REMOTE_LINK",
                                    "LINK_LAYERS_AVAILABLE", "SEND_CONFIRM", "BUSY"}]
             /\ waitingForResponse' \in [Stations -> BOOLEAN]
             /\ sendLinkLayerTestFunction' \in [Stations -> BOOLEAN]
             /\ nextFcb' \in [Stations -> BOOLEAN] /\ expectedFcb' = expectedFcb
             /\ mustRun' \in [Stations -> BOOLEAN]
             /\ repeats' \in [Stations -> 0..Repeats]
  <2> USE <1>4 DEF TypeOK, RunStateMachine, RunIdle, RunTimeoutStatusOrReset, RunSendTestFunction,
        RunSendUserData, RunRepeat, RunGiveUp, RunNothing, TimeoutForAck, Ran, setNewState, vars
  <2>1. state' \in [Stations -> {"IDLE", "ERROR", "BUSY", "AVAILABLE"}]
    OBVIOUS
  <2>2. primaryState' \in [Stations -> {"IDLE", "REQUEST_STATUS", "RESET_REMOTE_LINK",
                                    "LINK_LAYERS_AVAILABLE", "SEND_CONFIRM", "BUSY"}]
    BY Zenon
  <2>3. waitingForResponse' \in [Stations -> BOOLEAN]
    OBVIOUS
  <2>4. sendLinkLayerTestFunction' \in [Stations -> BOOLEAN]
    OBVIOUS
  <2>5. nextFcb' \in [Stations -> BOOLEAN] /\ expectedFcb' = expectedFcb
    OBVIOUS
  <2>6. mustRun' \in [Stations -> BOOLEAN]
    OBVIOUS
  <2>7. repeats' \in [Stations -> 0..Repeats]
    <3>1. 0 \in 0..Repeats
      BY BalancedAssumption
    <3>2. repeats[s] < Repeats => repeats[s] + 1 \in 0..Repeats
      BY BalancedAssumption
    <3>3. \/ repeats' = repeats \/ repeats' = [repeats EXCEPT ![s] = 0]
          \/ repeats[s] < Repeats /\ repeats' = [repeats EXCEPT ![s] = repeats[s] + 1]
      OBVIOUS
    <3> QED
      BY <3>1, <3>2, <3>3
  <2> QED
    BY <2>1, <2>2, <2>3, <2>4, <2>5, <2>6, <2>7
<1>5. ASSUME NEW s \in Stations, Lose(s) \/ sendTest(s) \/ \E c \in Classes[s] : Enqueue(s, c)
      PROVE  /\ UNCHANGED <<state, primaryState, waitingForResponse, nextFcb, expectedFcb, mustRun,
                            repeats>>
             /\ sendLinkLayerTestFunction' \in [Stations -> BOOLEAN]
  BY <1>5 DEF TypeOK, Lose, sendTest, Enqueue
<1> QED
  BY <1>1, <1>2, <1>3, <1>4, <1>5 DEF Next, TypeOK

(* What handling a frame does to the line: the frame leaves it, and an     *)
(* answer or a link reset may be sent.                                     *)
LEMMA HandleLine ==
  ASSUME TypeOK, PerStation, NEW s \in Stations, HandleMessage(s)
  PROVE  /\ line[s] # <<>> /\ line'[s] = Tail(line[s])
         /\ line' = [t \in Stations |-> line'[t]]
         /\ \/ line'[Peer(s)] = line[Peer(s)]
            \/ \E f \in Frames(Peer(s)) :
                 /\ ~Data(f) /\ (f.prm => primaryState'[s] = "RESET_REMOTE_LINK")
                 /\ line'[Peer(s)] = Append(line[Peer(s)], f)
<1>1. Peer(s) \in Stations /\ Peer(s) # s
  BY TwoStations
<1>2. line = [t \in Stations |-> line[t]]
  BY DEF PerStation
<1> DEFINE Silent == line[s] # <<>> /\ line' = [line EXCEPT ![s] = Tail(line[s])]
           Answered(f) == line[s] # <<>> /\ line' = [line EXCEPT ![s] = Tail(line[s]),
                                       ![Peer(s)] = Append(line[Peer(s)], f)]
<1>3. Silent => /\ line'[s] = Tail(line[s]) /\ line'[Peer(s)] = line[Peer(s)]
                /\ line' = [t \in Stations |-> line'[t]] /\ line[s] # <<>>
  BY <1>1, <1>2
<1>4. \A f : Answered(f) => /\ line'[s] = Tail(line[s])
                            /\ line'[Peer(s)] = Append(line[Peer(s)], f)
                            /\ line' = [t \in Stations |-> line'[t]] /\ line[s] # <<>>
  BY <1>1, <1>2
<1>5. \/ Silent
      \/ \E f \in ForeignAnswers \cup {Answer("ACK"), Answer("STATUS_OF_LINK")} : Answered(f)
      \/ /\ Answered(Fixed("RESET_REMOTE_LINK", FALSE, FALSE))
         /\ primaryState' = [primaryState EXCEPT ![s] = "RESET_REMOTE_LINK"]
  <2>1. CASE HandleStatusOfLink(s)
    BY <2>1 DEF HandleStatusOfLink, TakeAndSend, Take
  <2>2. CASE ForeignAnswer(s)
    BY <2>2 DEF ForeignAnswer, TakeAndSend, Take
  <2>3. CASE \/ HandleResetRemoteLink(s) \/ HandleTestFunction(s)
             \/ HandleUserDataConfirmed(s) \/ HandleRequestLinkStatus(s)
    BY <2>3 DEF HandleResetRemoteLink, HandleTestFunction, HandleUserDataConfirmed,
                HandleRequestLinkStatus, TakeAndSend, Take
  <2>4. CASE \/ HandleWrongFCB(s) \/ HandleDFC(s) \/ HandleResetAck(s) \/ HandleAck(s)
             \/ HandleStrayAck(s) \/ HandleNack(s) \/ HandleIllegal(s)
             \/ HandleServiceNotImplemented(s)
    BY <2>4 DEF HandleWrongFCB, HandleDFC, HandleResetAck, HandleAck, HandleStrayAck, HandleNack,
                HandleIllegal, HandleServiceNotImplemented, IsAnswer, TakeSilently, Take
  <2> QED
    BY <2>1, <2>2, <2>3, <2>4 DEF HandleMessage, HandleFrame
<1> HIDE DEF Silent, Answered
<1>6. CASE Silent
  BY <1>3, <1>6
<1>7. CASE \E f \in ForeignAnswers \cup {Answer("ACK"), Answer("STATUS_OF_LINK")} : Answered(f)
  <2>1. PICK f \in ForeignAnswers \cup {Answer("ACK"), Answer("STATUS_OF_LINK")} : Answered(f)
    BY <1>7
  <2>2. f \in Frames(Peer(s)) /\ ~f.prm
    BY SentFrames
  <2> QED
    BY <1>4, <2>1, <2>2 DEF Data
<1>8. CASE /\ Answered(Fixed("RESET_REMOTE_LINK", FALSE, FALSE))
           /\ primaryState' = [primaryState EXCEPT ![s] = "RESET_REMOTE_LINK"]
  <2>1. /\ Fixed("RESET_REMOTE_LINK", FALSE, FALSE) \in Frames(Peer(s))
        /\ ~Data(Fixed("RESET_REMOTE_LINK", FALSE, FALSE))
    BY SentFrames
  <2>2. primaryState'[s] = "RESET_REMOTE_LINK"
    BY <1>8 DEF TypeOK
  <2> QED
    BY <1>4, <1>8, <2>1, <2>2
<1> QED
  BY <1>5, <1>6, <1>7, <1>8

(* The ASDU in hand of a station that repeats user data. *)
LEMMA InHandType ==
  ASSUME TypeOK, HasWhatItSent, NEW s \in Stations, primaryState[s] = "SEND_CONFIRM",
         ~sendLinkLayerTestFunction[s]
  PROVE  lastSendAsdu[s] \in AsdusOf(s) /\ MayRepeat(s)
BY DEF TypeOK, HasWhatItSent, MayRepeat

(* What a run of the state machine sends. *)
LEMMA RunLine ==
  ASSUME TypeOK, PerStation, HasWhatItSent, QueuesOK, NEW s \in Stations, RunStateMachine(s)
  PROVE  /\ line'[s] = line[s]
         /\ line' = [t \in Stations |-> line'[t]]
         /\ \/ line'[Peer(s)] = line[Peer(s)]
            \/ \E f \in Frames(Peer(s)) :
                 /\ line'[Peer(s)] = Append(line[Peer(s)], f)
                 /\ \/ ~Data(f) /\ ~MayRepeat(s)'
                    \/ RunRepeat(s) /\ MayRepeat(s) /\ f = Repetition(s)
                    \/ RunSendUserData(s)
                       /\ f = UserData(nextFcb[s], Head(queue[s][classToSend(s)]))
<1>1. Peer(s) \in Stations /\ Peer(s) # s
  BY TwoStations
<1>2. line = [t \in Stations |-> line[t]]
  BY DEF PerStation
<1> DEFINE Sent(f) == line' = [line EXCEPT ![Peer(s)] = Append(line[Peer(s)], f)]
<1>3. line' = line => /\ line'[s] = line[s] /\ line'[Peer(s)] = line[Peer(s)]
                      /\ line' = [t \in Stations |-> line'[t]]
  BY <1>1, <1>2
<1>4. \A f : Sent(f) => /\ line'[s] = line[s]
                        /\ line'[Peer(s)] = Append(line[Peer(s)], f)
                        /\ line' = [t \in Stations |-> line'[t]]
  BY <1>1, <1>2
<1> HIDE DEF Sent
<1>5. nextFcb[s] \in BOOLEAN /\ repeatedFcb(s) \in BOOLEAN
  BY DEF repeatedFcb, TypeOK
<1>6. CASE RunIdle(s)
  <2>1. Sent(Fixed("REQUEST_LINK_STATUS", FALSE, FALSE)) /\ primaryState'[s] = "REQUEST_STATUS"
    BY <1>6 DEF RunIdle, Send, Sent, TypeOK
  <2>2. ~MayRepeat(s)'
    BY <2>1 DEF MayRepeat
  <2>3. /\ Fixed("REQUEST_LINK_STATUS", FALSE, FALSE) \in Frames(Peer(s))
        /\ ~Data(Fixed("REQUEST_LINK_STATUS", FALSE, FALSE))
    BY SentFrames
  <2> QED
    BY <1>4, <2>1, <2>2, <2>3
<1>7. CASE RunTimeoutStatusOrReset(s) \/ RunGiveUp(s) \/ RunNothing(s)
  BY <1>3, <1>7 DEF RunTimeoutStatusOrReset, RunGiveUp, RunNothing, vars
<1>8. CASE RunSendTestFunction(s)
  <2>1. Sent(Fixed("TEST_FUNCTION_FOR_LINK", nextFcb[s], TRUE)) /\ sendLinkLayerTestFunction'[s]
    BY <1>8 DEF RunSendTestFunction, Send, Sent, TypeOK
  <2>2. ~MayRepeat(s)'
    BY <2>1 DEF MayRepeat
  <2>3. /\ Fixed("TEST_FUNCTION_FOR_LINK", nextFcb[s], TRUE) \in Frames(Peer(s))
        /\ ~Data(Fixed("TEST_FUNCTION_FOR_LINK", nextFcb[s], TRUE))
    BY <1>5, SentFrames
  <2> QED
    BY <1>4, <2>1, <2>2, <2>3
<1>9. CASE RunSendUserData(s)
  <2>1. hasUserData(s) /\ Sent(UserData(nextFcb[s], Head(queue[s][classToSend(s)])))
    BY <1>9 DEF RunSendUserData, Send, Sent
  <2>2. Head(queue[s][classToSend(s)]) \in AsdusOf(s)
    BY <2>1, HeadOfQueue
  <2>3. UserData(nextFcb[s], Head(queue[s][classToSend(s)])) \in Frames(Peer(s))
    BY <1>5, <2>2, SentFrames
  <2> QED
    BY <1>4, <1>9, <2>1, <2>3
<1>10. CASE RunRepeat(s) /\ sendLinkLayerTestFunction[s]
  <2>1. Sent(Fixed("TEST_FUNCTION_FOR_LINK", repeatedFcb(s), TRUE)) /\ sendLinkLayerTestFunction'[s]
    BY <1>10 DEF RunRepeat, Send, Sent, TypeOK
  <2>2. ~MayRepeat(s)'
    BY <2>1 DEF MayRepeat
  <2>3. /\ Fixed("TEST_FUNCTION_FOR_LINK", repeatedFcb(s), TRUE) \in Frames(Peer(s))
        /\ ~Data(Fixed("TEST_FUNCTION_FOR_LINK", repeatedFcb(s), TRUE))
    BY <1>5, SentFrames
  <2> QED
    BY <1>4, <2>1, <2>2, <2>3
<1>11. CASE RunRepeat(s) /\ ~sendLinkLayerTestFunction[s]
  <2>1. Sent(Repetition(s))
    BY <1>11 DEF RunRepeat, Send, Sent, Repetition
  <2>2. lastSendAsdu[s] \in AsdusOf(s) /\ MayRepeat(s)
    BY <1>11, InHandType DEF RunRepeat
  <2>3. Repetition(s) \in Frames(Peer(s))
    BY <1>5, <2>2, SentFrames DEF Repetition
  <2> QED
    BY <1>4, <1>11, <2>1, <2>2, <2>3
<1> QED
  BY <1>6, <1>7, <1>8, <1>9, <1>10, <1>11 DEF RunStateMachine

(* The other steps: a frame is lost, a test is requested, an ASDU is       *)
(* enqueued.                                                               *)
LEMMA EnvironmentLine ==
  ASSUME TypeOK, PerStation, NEW s \in Stations,
         Lose(s) \/ sendTest(s) \/ \E c \in Classes[s] : Enqueue(s, c)
  PROVE  /\ \/ line' = line
            \/ Lose(s) /\ line[s] # <<>> /\ line'[s] = Tail(line[s])
               /\ line'[Peer(s)] = line[Peer(s)]
         /\ line' = [t \in Stations |-> line'[t]]
<1>1. Peer(s) \in Stations /\ Peer(s) # s
  BY TwoStations
<1>2. line = [t \in Stations |-> line[t]]
  BY DEF PerStation
<1>3. \/ line' = line
      \/ Lose(s) /\ line[s] # <<>> /\ line' = [line EXCEPT ![s] = Tail(line[s])]
  BY DEF Lose, sendTest, Enqueue
<1> QED
  BY <1>1, <1>2, <1>3

(* The line keeps carrying frames. *)
LEMMA LineTypes ==
  ASSUME TypeOK, PerStation, HasWhatItSent, QueuesOK, [Next]_vars
  PROVE  /\ \A t \in Stations : line'[t] \in Seq(Frames(t))
         /\ line' = [t \in Stations |-> line'[t]]
<1>1. \A t \in Stations : line[t] \in Seq(Frames(t))
  BY DEF TypeOK
<1>2. \A t \in Stations : line[t] # <<>> => Tail(line[t]) \in Seq(Frames(t))
  BY <1>1, TailIndex
<1>3. \A t \in Stations : \A f \in Frames(t) : Append(line[t], f) \in Seq(Frames(t))
  BY <1>1
<1>4. CASE UNCHANGED vars
  BY <1>1, <1>4 DEF vars, PerStation
<1>5. ASSUME NEW s \in Stations, HandleMessage(s)
      PROVE  /\ \A t \in Stations : line'[t] \in Seq(Frames(t))
             /\ line' = [t \in Stations |-> line'[t]]
  <2>1. \A t \in Stations : t = s \/ t = Peer(s)
    BY TwoStations
  <2>2. line[s] # <<>> /\ line'[s] = Tail(line[s]) /\ line' = [t \in Stations |-> line'[t]]
    BY <1>5, HandleLine
  <2>3. \/ line'[Peer(s)] = line[Peer(s)]
        \/ \E f \in Frames(Peer(s)) : line'[Peer(s)] = Append(line[Peer(s)], f)
    BY <1>5, HandleLine
  <2> QED
    BY <1>1, <1>2, <1>3, <2>1, <2>2, <2>3
<1>6. ASSUME NEW s \in Stations, RunStateMachine(s)
      PROVE  /\ \A t \in Stations : line'[t] \in Seq(Frames(t))
             /\ line' = [t \in Stations |-> line'[t]]
  <2>1. \A t \in Stations : t = s \/ t = Peer(s)
    BY TwoStations
  <2>2. line'[s] = line[s] /\ line' = [t \in Stations |-> line'[t]]
    BY <1>6, RunLine
  <2>3. \/ line'[Peer(s)] = line[Peer(s)]
        \/ \E f \in Frames(Peer(s)) : line'[Peer(s)] = Append(line[Peer(s)], f)
    BY <1>6, RunLine
  <2> QED
    BY <1>1, <1>3, <2>1, <2>2, <2>3
<1>7. ASSUME NEW s \in Stations, Lose(s) \/ sendTest(s) \/ \E c \in Classes[s] : Enqueue(s, c)
      PROVE  /\ \A t \in Stations : line'[t] \in Seq(Frames(t))
             /\ line' = [t \in Stations |-> line'[t]]
  <2>1. \A t \in Stations : t = s \/ t = Peer(s)
    BY TwoStations
  <2>2. /\ \/ line' = line
           \/ line[s] # <<>> /\ line'[s] = Tail(line[s]) /\ line'[Peer(s)] = line[Peer(s)]
        /\ line' = [t \in Stations |-> line'[t]]
    BY <1>7, EnvironmentLine
  <2> QED
    BY <1>1, <1>2, <2>1, <2>2
<1> QED
  BY <1>4, <1>5, <1>6, <1>7 DEF Next

(* What the secondary makes of the frame it reads. *)
LEMMA ReadFrame ==
  ASSUME TypeOK, PerStation, NEW s \in Stations, HandleMessage(s)
  PROVE  /\ line[s] # <<>> /\ Head(line[s]) = line[s][1] /\ line[s][1] \in Frames(s)
         /\ \/ UNCHANGED <<expectedFcb, delivered>>
            \/ /\ UNCHANGED delivered /\ line[s][1].prm
               /\ \/ line[s][1].fc = "RESET_REMOTE_LINK"
                  \/ line[s][1].fcv /\ line[s][1].fcb = expectedFcb[s]
               /\ \E new \in BOOLEAN : expectedFcb' = [expectedFcb EXCEPT ![s] = new]
            \/ /\ Data(line[s][1]) /\ line[s][1].fcv /\ line[s][1].fcb = expectedFcb[s]
               /\ \E new \in BOOLEAN :
                    new # expectedFcb[s] /\ expectedFcb' = [expectedFcb EXCEPT ![s] = new]
               /\ delivered' = [delivered EXCEPT ![s] = Append(@, line[s][1].asdu)]
<1>1. line[s] # <<>>
  BY HandleLine
<1>2. Head(line[s]) = line[s][1] /\ line[s][1] \in Frames(s)
  BY <1>1, TailIndex DEF TypeOK
<1>3. /\ Data(line[s][1]) => line[s][1].fcv
      /\ line[s][1].prm => line[s][1].fcb \in BOOLEAN /\ line[s][1].fcv \in BOOLEAN
  BY <1>2, FrameType
<1>4. expectedFcb[s] \in BOOLEAN /\ expectedFcb \in [Stations -> BOOLEAN]
  BY DEF TypeOK
<1>5. CASE HandleResetRemoteLink(s)
  BY <1>1, <1>2, <1>5 DEF HandleResetRemoteLink, history
<1>6. CASE HandleTestFunction(s)
  <2>1. CASE line[s][1].fcv
    BY <1>1, <1>2, <1>4, <1>6, <2>1 DEF HandleTestFunction, history, checkFCB, fcbToggled
  <2>2. CASE ~line[s][1].fcv
    <3>1. expectedFcb' = [expectedFcb EXCEPT ![s] = expectedFcb[s]]
      BY <1>2, <1>6, <2>2 DEF HandleTestFunction, fcbToggled
    <3>2. expectedFcb' = expectedFcb
      BY <1>4, <3>1
    <3> QED
      BY <1>1, <1>2, <1>6, <3>2 DEF HandleTestFunction, history
  <2> QED
    BY <2>1, <2>2
<1>7. CASE HandleUserDataConfirmed(s)
  <2>1. Data(line[s][1]) /\ line[s][1].fcv /\ line[s][1].fcb = expectedFcb[s]
    BY <1>2, <1>3, <1>7 DEF HandleUserDataConfirmed, Data, checkFCB
  <2>2. expectedFcb' = [expectedFcb EXCEPT ![s] = ~expectedFcb[s]]
    BY <1>2, <1>7, <2>1 DEF HandleUserDataConfirmed, fcbToggled
  <2>3. delivered' = [delivered EXCEPT ![s] = Append(@, line[s][1].asdu)]
    BY <1>2, <1>7 DEF HandleUserDataConfirmed
  <2>4. \E new \in BOOLEAN :
          new # expectedFcb[s] /\ expectedFcb' = [expectedFcb EXCEPT ![s] = new]
    <3>1. CASE expectedFcb[s] = TRUE
      <4>1. FALSE \in BOOLEAN /\ expectedFcb' = [expectedFcb EXCEPT ![s] = FALSE]
        BY <2>2, <3>1
      <4> QED
        BY <3>1, <4>1
    <3>2. CASE expectedFcb[s] = FALSE
      <4>1. TRUE \in BOOLEAN /\ expectedFcb' = [expectedFcb EXCEPT ![s] = TRUE]
        BY <2>2, <3>2
      <4> QED
        BY <3>2, <4>1
    <3> QED
      BY <1>4, <3>1, <3>2
  <2> QED
    BY <1>1, <1>2, <2>1, <2>3, <2>4
<1>8. CASE \/ HandleWrongFCB(s) \/ HandleRequestLinkStatus(s) \/ HandleStrayAck(s)
           \/ ForeignAnswer(s)
  BY <1>1, <1>2, <1>8 DEF HandleWrongFCB, HandleRequestLinkStatus, HandleStrayAck, ForeignAnswer,
     history
<1>9. CASE \/ HandleDFC(s) \/ HandleResetAck(s) \/ HandleAck(s)
           \/ HandleNack(s) \/ HandleIllegal(s) \/ HandleStatusOfLink(s)
           \/ HandleServiceNotImplemented(s)
  BY <1>1, <1>2, <1>9 DEF HandleDFC, HandleResetAck, HandleAck, HandleNack, HandleIllegal,
     HandleStatusOfLink, HandleServiceNotImplemented
<1> QED
  BY <1>5, <1>6, <1>7, <1>8, <1>9 DEF HandleMessage, HandleFrame

(* Only the handling of a frame changes what is expected and delivered. *)
LEMMA OnlyHandlersRead ==
  ASSUME NEW s \in Stations,
         \/ RunStateMachine(s) \/ Lose(s) \/ sendTest(s)
         \/ \E c \in Classes[s] : Enqueue(s, c)
  PROVE  UNCHANGED <<expectedFcb, delivered>>
BY DEF RunStateMachine, RunIdle, RunTimeoutStatusOrReset, RunSendTestFunction, RunSendUserData,
       RunRepeat, RunGiveUp, RunNothing, Lose, sendTest, Enqueue, history, vars

(* What is delivered to a station are ASDUs of its peer. *)
LEMMA DeliveredTypes ==
  ASSUME TypeOK, PerStation, [Next]_vars
  PROVE  /\ \A t \in Stations : delivered'[t] \in Seq(AsdusOf(Peer(t)))
         /\ delivered' = [t \in Stations |-> delivered'[t]]
<1>1. /\ \A t \in Stations : delivered[t] \in Seq(AsdusOf(Peer(t)))
      /\ delivered = [t \in Stations |-> delivered[t]]
  BY DEF TypeOK, PerStation
<1>2. CASE UNCHANGED delivered
  BY <1>1, <1>2
<1>3. ASSUME NEW s \in Stations, HandleMessage(s)
      PROVE  \/ UNCHANGED delivered
             \/ \E a \in AsdusOf(Peer(s)) :
                  delivered' = [delivered EXCEPT ![s] = Append(delivered[s], a)]
  <2>1. line[s][1] \in Frames(s)
    BY <1>3, ReadFrame
  <2>2. Data(line[s][1]) => line[s][1].asdu \in AsdusOf(Peer(s))
    BY <2>1, FrameType
  <2>3. \/ UNCHANGED delivered
        \/ /\ Data(line[s][1])
           /\ delivered' = [delivered EXCEPT ![s] = Append(@, line[s][1].asdu)]
    BY <1>3, ReadFrame
  <2> QED
    BY <2>2, <2>3
<1>4. ASSUME NEW s \in Stations, HandleMessage(s)
      PROVE  /\ \A t \in Stations : delivered'[t] \in Seq(AsdusOf(Peer(t)))
             /\ delivered' = [t \in Stations |-> delivered'[t]]
  <2>1. CASE UNCHANGED delivered
    BY <1>2, <2>1
  <2>2. ASSUME NEW a \in AsdusOf(Peer(s)),
               delivered' = [delivered EXCEPT ![s] = Append(delivered[s], a)]
        PROVE  /\ \A t \in Stations : delivered'[t] \in Seq(AsdusOf(Peer(t)))
               /\ delivered' = [t \in Stations |-> delivered'[t]]
    <3>1. Append(delivered[s], a) \in Seq(AsdusOf(Peer(s)))
      BY <1>1, AppendIndex
    <3> QED
      BY <1>1, <2>2, <3>1
  <2> QED
    BY <1>3, <1>4, <2>1, <2>2
<1>5. (\E s \in Stations : HandleMessage(s)) \/ UNCHANGED delivered
  BY OnlyHandlersRead DEF Next, vars, history
<1> QED
  BY <1>2, <1>4, <1>5

(* The ASDUs in hand, confirmed and abandoned are ASDUs of their station. *)
LEMMA InHandTypes ==
  ASSUME TypeOK, PerStation, QueuesOK, [Next]_vars
  PROVE  /\ \A t \in Stations : /\ lastSendAsdu'[t] \in AsdusOf(t) \cup {NoAsdu}
                                /\ confirmed'[t] \subseteq AsdusOf(t)
                                /\ abandoned'[t] \subseteq AsdusOf(t)
         /\ lastSendAsdu' = [t \in Stations |-> lastSendAsdu'[t]]
         /\ confirmed' = [t \in Stations |-> confirmed'[t]]
         /\ abandoned' = [t \in Stations |-> abandoned'[t]]
<1>1. /\ \A t \in Stations : /\ lastSendAsdu[t] \in AsdusOf(t) \cup {NoAsdu}
                             /\ confirmed[t] \subseteq AsdusOf(t) /\ abandoned[t] \subseteq AsdusOf(t)
      /\ lastSendAsdu = [t \in Stations |-> lastSendAsdu[t]]
      /\ confirmed = [t \in Stations |-> confirmed[t]]
      /\ abandoned = [t \in Stations |-> abandoned[t]]
  BY DEF TypeOK, PerStation
<1>2. \/ UNCHANGED <<lastSendAsdu, confirmed, abandoned>>
      \/ \E s \in Stations :
           \/ /\ lastSendAsdu' = [lastSendAsdu EXCEPT ![s] = NoAsdu]
              /\ confirmed' = [confirmed EXCEPT ![s] = @ \cup ({lastSendAsdu[s]} \ {NoAsdu})]
              /\ UNCHANGED abandoned
           \/ GiveUp(s) /\ UNCHANGED confirmed
           \/ hasUserData(s) /\ UNCHANGED <<confirmed, abandoned>>
              /\ lastSendAsdu' = [lastSendAsdu EXCEPT ![s] = Head(queue[s][classToSend(s)])]
  <2>1. ASSUME NEW s \in Stations, HandleMessage(s)
        PROVE  \/ UNCHANGED <<lastSendAsdu, confirmed, abandoned>>
               \/ /\ lastSendAsdu' = [lastSendAsdu EXCEPT ![s] = NoAsdu]
                  /\ confirmed' = [confirmed EXCEPT ![s] = @ \cup ({lastSendAsdu[s]} \ {NoAsdu})]
                  /\ UNCHANGED abandoned
               \/ GiveUp(s) /\ UNCHANGED confirmed
    BY <2>1 DEF HandleMessage, HandleFrame, HandleWrongFCB, HandleResetRemoteLink, HandleTestFunction,
        HandleUserDataConfirmed, HandleRequestLinkStatus, HandleDFC, HandleResetAck, HandleAck,
        HandleStrayAck, HandleNack, HandleIllegal, HandleStatusOfLink, HandleServiceNotImplemented,
        ForeignAnswer, primary, history
  <2>2. ASSUME NEW s \in Stations, RunStateMachine(s)
        PROVE  \/ UNCHANGED <<lastSendAsdu, confirmed, abandoned>>
               \/ GiveUp(s) /\ UNCHANGED confirmed
               \/ hasUserData(s) /\ UNCHANGED <<confirmed, abandoned>>
                  /\ lastSendAsdu' = [lastSendAsdu EXCEPT ![s] = Head(queue[s][classToSend(s)])]
    BY <2>2 DEF RunStateMachine, RunIdle, RunTimeoutStatusOrReset, RunSendTestFunction,
       RunSendUserData, RunRepeat, RunGiveUp, RunNothing, primary, history, vars
  <2>3. ASSUME NEW s \in Stations, Lose(s) \/ sendTest(s) \/ \E c \in Classes[s] : Enqueue(s, c)
        PROVE  UNCHANGED <<lastSendAsdu, confirmed, abandoned>>
    BY <2>3 DEF Lose, sendTest, Enqueue, primary, history
  <2>4. CASE UNCHANGED vars
    BY <2>4 DEF vars, primary, history
  <2> QED
    BY <2>1, <2>2, <2>3, <2>4 DEF Next
<1>3. CASE UNCHANGED <<lastSendAsdu, confirmed, abandoned>>
  BY <1>1, <1>3
<1>4. ASSUME NEW s \in Stations, lastSendAsdu' = [lastSendAsdu EXCEPT ![s] = NoAsdu],
             confirmed' = [confirmed EXCEPT ![s] = @ \cup ({lastSendAsdu[s]} \ {NoAsdu})],
             UNCHANGED abandoned
      PROVE  /\ \A t \in Stations : /\ lastSendAsdu'[t] \in AsdusOf(t) \cup {NoAsdu}
                                    /\ confirmed'[t] \subseteq AsdusOf(t)
                                    /\ abandoned'[t] \subseteq AsdusOf(t)
             /\ lastSendAsdu' = [t \in Stations |-> lastSendAsdu'[t]]
             /\ confirmed' = [t \in Stations |-> confirmed'[t]]
             /\ abandoned' = [t \in Stations |-> abandoned'[t]]
  BY <1>1, <1>4
<1>5. ASSUME NEW s \in Stations, GiveUp(s), UNCHANGED confirmed
      PROVE  /\ \A t \in Stations : /\ lastSendAsdu'[t] \in AsdusOf(t) \cup {NoAsdu}
                                    /\ confirmed'[t] \subseteq AsdusOf(t)
                                    /\ abandoned'[t] \subseteq AsdusOf(t)
             /\ lastSendAsdu' = [t \in Stations |-> lastSendAsdu'[t]]
             /\ confirmed' = [t \in Stations |-> confirmed'[t]]
             /\ abandoned' = [t \in Stations |-> abandoned'[t]]
  BY <1>1, <1>5 DEF GiveUp, InHand
<1>6. ASSUME NEW s \in Stations, hasUserData(s), UNCHANGED <<confirmed, abandoned>>,
             lastSendAsdu' = [lastSendAsdu EXCEPT ![s] = Head(queue[s][classToSend(s)])]
      PROVE  /\ \A t \in Stations : /\ lastSendAsdu'[t] \in AsdusOf(t) \cup {NoAsdu}
                                    /\ confirmed'[t] \subseteq AsdusOf(t)
                                    /\ abandoned'[t] \subseteq AsdusOf(t)
             /\ lastSendAsdu' = [t \in Stations |-> lastSendAsdu'[t]]
             /\ confirmed' = [t \in Stations |-> confirmed'[t]]
             /\ abandoned' = [t \in Stations |-> abandoned'[t]]
  <2>1. Head(queue[s][classToSend(s)]) \in AsdusOf(s)
    BY <1>6, HeadOfQueue
  <2> QED
    BY <1>1, <1>6, <2>1
<1> QED
  BY <1>2, <1>3, <1>4, <1>5, <1>6

(* A primary in REQUEST_STATUS or RESET_REMOTE_LINK waits for a response. *)
LEMMA WaitsForStatus ==
  ASSUME TypeOK, [Next]_vars
  PROVE  \A t \in Stations :
           primaryState'[t] \in {"REQUEST_STATUS", "RESET_REMOTE_LINK"} => waitingForResponse'[t]
<1>1. \A t \in Stations :
        primaryState[t] \in {"REQUEST_STATUS", "RESET_REMOTE_LINK"} => waitingForResponse[t]
  BY DEF TypeOK
<1>2. primaryState \in [Stations -> {"IDLE", "REQUEST_STATUS", "RESET_REMOTE_LINK",
                                     "LINK_LAYERS_AVAILABLE", "SEND_CONFIRM", "BUSY"}]
      /\ waitingForResponse \in [Stations -> BOOLEAN]
  BY DEF TypeOK
<1>3. ASSUME NEW s \in Stations, HandleMessage(s)
      PROVE  \A t \in Stations :
               primaryState'[t] \in {"REQUEST_STATUS", "RESET_REMOTE_LINK"} => waitingForResponse'[t]
  BY <1>1, <1>2, <1>3 DEF HandleMessage, HandleFrame, HandleWrongFCB, HandleResetRemoteLink,
        HandleTestFunction,
        HandleUserDataConfirmed, HandleRequestLinkStatus, HandleDFC, HandleResetAck, HandleAck,
        HandleStrayAck, HandleNack, HandleIllegal, HandleStatusOfLink, HandleServiceNotImplemented,
        ForeignAnswer, primary, stillWaiting
<1>4. ASSUME NEW s \in Stations, RunStateMachine(s)
      PROVE  \A t \in Stations :
               primaryState'[t] \in {"REQUEST_STATUS", "RESET_REMOTE_LINK"} => waitingForResponse'[t]
  BY <1>1, <1>2, <1>4 DEF RunStateMachine, RunIdle, RunTimeoutStatusOrReset, RunSendTestFunction,
       RunSendUserData, RunRepeat, RunGiveUp, RunNothing, primary, vars
<1>5. ASSUME NEW s \in Stations, Lose(s) \/ sendTest(s) \/ \E c \in Classes[s] : Enqueue(s, c)
      PROVE  UNCHANGED <<primaryState, waitingForResponse>>
  BY <1>5 DEF Lose, sendTest, Enqueue, primary
<1>6. CASE UNCHANGED vars
  BY <1>1, <1>6 DEF vars, primary
<1> QED
  BY <1>1, <1>3, <1>4, <1>5, <1>6 DEF Next

(* A primary in SEND_CONFIRM keeps what it sent until it leaves the        *)
(* state.                                                                  *)
LEMMA HasWhatItSentKept ==
  ASSUME TypeOK, PerStation, QueuesOK, HasWhatItSent, [Next]_vars
  PROVE  HasWhatItSent'
<1>1. primaryState \in [Stations -> {"IDLE", "REQUEST_STATUS", "RESET_REMOTE_LINK",
                                     "LINK_LAYERS_AVAILABLE", "SEND_CONFIRM", "BUSY"}]
      /\ sendLinkLayerTestFunction \in [Stations -> BOOLEAN]
      /\ lastSendAsdu = [t \in Stations |-> lastSendAsdu[t]]
  BY DEF TypeOK, PerStation
<1>3. ASSUME NEW s \in Stations, HandleMessage(s)
      PROVE  HasWhatItSent'
  BY <1>1, <1>3 DEF HasWhatItSent, HandleMessage, HandleFrame, HandleWrongFCB, HandleResetRemoteLink,
        HandleTestFunction,
        HandleUserDataConfirmed, HandleRequestLinkStatus, HandleDFC, HandleResetAck, HandleAck,
        HandleStrayAck, HandleNack, HandleIllegal, HandleStatusOfLink, HandleServiceNotImplemented,
        ForeignAnswer, primary, GiveUp
<1>4. ASSUME NEW s \in Stations, RunIdle(s) \/ RunTimeoutStatusOrReset(s) \/ RunSendTestFunction(s)
                 \/ RunRepeat(s) \/ RunGiveUp(s) \/ RunNothing(s)
      PROVE  HasWhatItSent'
  BY <1>1, <1>4 DEF HasWhatItSent, RunIdle, RunTimeoutStatusOrReset, RunSendTestFunction,
       RunRepeat, RunGiveUp, RunNothing, primary, vars, GiveUp
<1>5. ASSUME NEW s \in Stations, RunSendUserData(s)
      PROVE  HasWhatItSent'
  <2>1. hasUserData(s) /\ lastSendAsdu' = [lastSendAsdu EXCEPT ![s] = Head(queue[s][classToSend(s)])]
        /\ primaryState' = [primaryState EXCEPT ![s] = "SEND_CONFIRM"]
        /\ UNCHANGED sendLinkLayerTestFunction
    BY <1>5 DEF RunSendUserData
  <2>2. Head(queue[s][classToSend(s)]) # NoAsdu
    BY <2>1, HeadOfQueue, AsduType
  <2> QED
    BY <1>1, <2>1, <2>2 DEF HasWhatItSent
<1>6. ASSUME NEW s \in Stations, Lose(s) \/ sendTest(s) \/ \E c \in Classes[s] : Enqueue(s, c)
      PROVE  HasWhatItSent'
  BY <1>1, <1>6 DEF HasWhatItSent, Lose, sendTest, Enqueue, primary
<1>7. CASE UNCHANGED vars
  BY <1>7 DEF vars, primary, HasWhatItSent
<1> QED
  BY <1>3, <1>4, <1>5, <1>6, <1>7 DEF Next, RunStateMachine

(* Taking the first frame off leaves only ASDUs that were there. *)
LEMMA CarriesTail ==
  ASSUME NEW T, NEW L \in Seq(T), L # <<>>, NEW A, CarriesOnly(L, A)
  PROVE  CarriesOnly(Tail(L), A)
<1> DEFINE M == Tail(L)
<1>1. /\ Len(M) = Len(L) - 1 /\ Len(L) \in Nat \ {0}
      /\ \A i \in 1..Len(M) : M[i] = L[i + 1]
  BY TailIndex
<1> HIDE DEF M
<1>2. \A i \in 1..Len(M) : i + 1 \in 1..Len(L)
  BY <1>1
<1>3. CarriesOnly(M, A)
  BY <1>1, <1>2 DEF CarriesOnly
<1> QED
  BY <1>3 DEF M

(* Appending a frame adds no ASDU but its own. *)
LEMMA CarriesAppend ==
  ASSUME NEW T, NEW L \in Seq(T), NEW f \in T, NEW A, CarriesOnly(L, A), Data(f) => f.asdu \in A
  PROVE  CarriesOnly(Append(L, f), A)
<1> DEFINE M == Append(L, f)
<1>1. /\ Len(M) = Len(L) + 1 /\ Len(L) \in Nat
      /\ \A i \in 1..Len(L) : M[i] = L[i]
      /\ M[Len(L) + 1] = f
  BY AppendIndex
<1> HIDE DEF M
<1>2. \A i \in 1..Len(M) : i \in 1..Len(L) \/ i = Len(L) + 1
  BY <1>1
<1>3. CarriesOnly(M, A)
  BY <1>1, <1>2 DEF CarriesOnly
<1> QED
  BY <1>3 DEF M

(* The queues change when an ASDU is enqueued and when it is sent. *)
LEMMA QueueSteps ==
  ASSUME [Next]_vars
  PROVE  \/ UNCHANGED <<queue, enqueued>>
         \/ \E s \in Stations : RunSendUserData(s)
         \/ \E s \in Stations : \E c \in Classes[s] : Enqueue(s, c)
<1>1. ASSUME NEW s \in Stations, HandleMessage(s)
      PROVE  UNCHANGED <<queue, enqueued>>
  BY <1>1 DEF HandleMessage, HandleFrame, HandleWrongFCB, HandleResetRemoteLink,
        HandleTestFunction,
        HandleUserDataConfirmed, HandleRequestLinkStatus, HandleDFC, HandleResetAck, HandleAck,
        HandleStrayAck, HandleNack, HandleIllegal, HandleStatusOfLink, HandleServiceNotImplemented,
        ForeignAnswer, appl
<1>2. ASSUME NEW s \in Stations, RunStateMachine(s)
      PROVE  UNCHANGED <<queue, enqueued>> \/ RunSendUserData(s)
  BY <1>2 DEF RunStateMachine, RunIdle, RunTimeoutStatusOrReset, RunSendTestFunction,
       RunRepeat, RunGiveUp, RunNothing, appl, vars
<1>3. ASSUME NEW s \in Stations, Lose(s) \/ sendTest(s)
      PROVE  UNCHANGED <<queue, enqueued>>
  BY <1>3 DEF Lose, sendTest, appl
<1>4. CASE UNCHANGED vars
  BY <1>4 DEF vars, appl
<1> QED
  BY <1>1, <1>2, <1>3, <1>4 DEF Next

(* Enqueueing an ASDU numbers it after the last one and takes none. *)
LEMMA EnqueueQueues ==
  ASSUME PerStation, QueuesOK, NEW s \in Stations, NEW c \in Classes[s], Enqueue(s, c)
  PROVE  /\ QueuesOK'
         /\ \A t \in Stations : \A d \in Classes[t] : Taken(t, d)' = Taken(t, d)
         /\ queue' = [t \in Stations |-> [d \in Classes[t] |-> queue'[t][d]]]
         /\ enqueued' = [t \in Stations |-> [d \in Classes[t] |-> enqueued'[t][d]]]
<1> DEFINE q == queue[s][c]
           a == <<c, enqueued[s][c] + 1>>
<1>1. /\ queue = [t \in Stations |-> [d \in Classes[t] |-> queue[t][d]]]
      /\ enqueued = [t \in Stations |-> [d \in Classes[t] |-> enqueued[t][d]]]
  BY DEF PerStation
<1>2. /\ enqueued[s][c] < Asdus[s]
      /\ enqueued' = [enqueued EXCEPT ![s] = [enqueued[s] EXCEPT ![c] = enqueued[s][c] + 1]]
      /\ queue' = [queue EXCEPT ![s] = [queue[s] EXCEPT ![c] = Append(q, a)]]
  BY DEF Enqueue
<1>3. Asdus[s] \in Nat /\ enqueued[s][c] \in 0..Asdus[s] /\ q \in Seq(AsdusOf(s))
      /\ Taken(s, c) \in Nat /\ \A i \in 1..Len(q) : q[i] = <<c, Taken(s, c) + i>>
  BY BalancedAssumption DEF QueuesOK
<1>4. a \in AsdusOf(s)
  BY <1>2, <1>3 DEF AsdusOf
<1>5. /\ Append(q, a) \in Seq(AsdusOf(s)) /\ Len(Append(q, a)) = Len(q) + 1 /\ Len(q) \in Nat
      /\ \A i \in 1..Len(q) : Append(q, a)[i] = q[i]
      /\ Append(q, a)[Len(q) + 1] = a
  BY <1>3, <1>4, AppendIndex
<1>6. /\ queue' = [t \in Stations |-> [d \in Classes[t] |-> queue'[t][d]]]
      /\ enqueued' = [t \in Stations |-> [d \in Classes[t] |-> enqueued'[t][d]]]
  BY Zenon, <1>1, <1>2
<1>7. /\ queue'[s][c] = Append(q, a) /\ enqueued'[s][c] = enqueued[s][c] + 1
      /\ \A t \in Stations : \A d \in Classes[t] : (t # s \/ d # c) =>
           queue'[t][d] = queue[t][d] /\ enqueued'[t][d] = enqueued[t][d]
  BY <1>1, <1>2
<1>8. Taken(s, c)' = Taken(s, c)
  BY SMTT(20), <1>3, <1>5, <1>7 DEF Taken
<1>9. ASSUME NEW t \in Stations, NEW d \in Classes[t], t # s \/ d # c
      PROVE  Taken(t, d)' = Taken(t, d)
  BY <1>7, <1>9 DEF Taken
<1>10. ASSUME NEW t \in Stations, NEW d \in Classes[t]
       PROVE  /\ enqueued'[t][d] \in 0..Asdus[t] /\ queue'[t][d] \in Seq(AsdusOf(t))
              /\ Taken(t, d)' \in Nat
              /\ \A i \in 1..Len(queue'[t][d]) : queue'[t][d][i] = <<d, Taken(t, d)' + i>>
  <2>1. CASE t = s /\ d = c
    <3>1. enqueued[s][c] + 1 \in 0..Asdus[s]
      BY <1>2, <1>3
    <3>2. a = <<c, Taken(s, c) + (Len(q) + 1)>>
      BY SMTT(20), <1>3, <1>5 DEF Taken
    <3>3. \A i \in 1..(Len(q) + 1) : i \in 1..Len(q) \/ i = Len(q) + 1
      BY <1>5
    <3>4. ASSUME NEW i \in 1..(Len(q) + 1)
          PROVE  Append(q, a)[i] = <<c, Taken(s, c) + i>>
      BY <1>3, <1>5, <3>2, <3>3
    <3> QED
      BY <1>3, <1>5, <1>7, <1>8, <2>1, <3>1, <3>4
  <2>2. CASE t # s \/ d # c
    <3>1. queue'[t][d] = queue[t][d] /\ enqueued'[t][d] = enqueued[t][d]
      BY <1>7, <2>2
    <3>2. Taken(t, d)' = Taken(t, d)
      BY <1>9, <2>2
    <3>3. /\ enqueued[t][d] \in 0..Asdus[t] /\ queue[t][d] \in Seq(AsdusOf(t))
          /\ Taken(t, d) \in Nat
          /\ \A i \in 1..Len(queue[t][d]) : queue[t][d][i] = <<d, Taken(t, d) + i>>
      BY DEF QueuesOK
    <3> QED
      BY <3>1, <3>2, <3>3
  <2> QED
    BY <2>1, <2>2
<1>11. QueuesOK'
  BY <1>10 DEF QueuesOK
<1> QED
  BY <1>6, <1>8, <1>9, <1>11

(* Sending an ASDU takes one of its class from its queue and no other. *)
LEMMA SendQueues ==
  ASSUME PerStation, QueuesOK, NEW s \in Stations, RunSendUserData(s)
  PROVE  /\ QueuesOK'
         /\ \E c \in Classes[s] :
              /\ c = classToSend(s) /\ Taken(s, c)' = Taken(s, c) + 1
              /\ \A t \in Stations : \A d \in Classes[t] :
                   (t # s \/ d # c) => Taken(t, d)' = Taken(t, d)
         /\ queue' = [t \in Stations |-> [d \in Classes[t] |-> queue'[t][d]]]
         /\ enqueued' = [t \in Stations |-> [d \in Classes[t] |-> enqueued'[t][d]]]
<1>1. /\ queue = [t \in Stations |-> [d \in Classes[t] |-> queue[t][d]]]
      /\ enqueued = [t \in Stations |-> [d \in Classes[t] |-> enqueued[t][d]]]
  BY DEF PerStation
<1>2. PICK c \in Classes[s] : c = classToSend(s) /\ queue[s][c] # <<>>
  BY HeadOfQueue DEF RunSendUserData
<1> DEFINE q == queue[s][c]
<1>3. /\ enqueued' = enqueued
      /\ queue' = [queue EXCEPT ![s] = [queue[s] EXCEPT ![c] = Tail(q)]]
  BY <1>2 DEF RunSendUserData
<1>4. enqueued[s][c] \in Int /\ q \in Seq(AsdusOf(s)) /\ q # <<>>
      /\ Taken(s, c) \in Nat /\ \A i \in 1..Len(q) : q[i] = <<c, Taken(s, c) + i>>
  BY <1>2 DEF QueuesOK
<1>5. /\ Tail(q) \in Seq(AsdusOf(s)) /\ Len(Tail(q)) = Len(q) - 1 /\ Len(q) \in Nat \ {0}
      /\ \A i \in 1..Len(Tail(q)) : Tail(q)[i] = q[i + 1]
  BY <1>4, TailIndex
<1>6. /\ queue' = [t \in Stations |-> [d \in Classes[t] |-> queue'[t][d]]]
      /\ enqueued' = [t \in Stations |-> [d \in Classes[t] |-> enqueued'[t][d]]]
  BY <1>1, <1>3
<1>7. /\ queue'[s][c] = Tail(q) /\ enqueued' = enqueued
      /\ \A t \in Stations : \A d \in Classes[t] : (t # s \/ d # c) =>
           queue'[t][d] = queue[t][d]
  BY <1>1, <1>3
<1>8. Taken(s, c)' = Taken(s, c) + 1
  BY <1>4, <1>5, <1>7 DEF Taken
<1>9. ASSUME NEW t \in Stations, NEW d \in Classes[t], t # s \/ d # c
      PROVE  Taken(t, d)' = Taken(t, d)
  BY <1>7, <1>9 DEF Taken
<1>10. ASSUME NEW t \in Stations, NEW d \in Classes[t]
       PROVE  /\ enqueued'[t][d] \in 0..Asdus[t] /\ queue'[t][d] \in Seq(AsdusOf(t))
              /\ Taken(t, d)' \in Nat
              /\ \A i \in 1..Len(queue'[t][d]) : queue'[t][d][i] = <<d, Taken(t, d)' + i>>
  <2>1. CASE t = s /\ d = c
    <3>1. ASSUME NEW i \in 1..Len(Tail(q))
          PROVE  Tail(q)[i] = <<c, (Taken(s, c) + 1) + i>>
      <4>1. i + 1 \in 1..Len(q) /\ Taken(s, c) + (i + 1) = (Taken(s, c) + 1) + i
        BY <1>4, <1>5
      <4> QED
        BY <1>4, <1>5, <4>1
    <3>2. enqueued[s][c] \in 0..Asdus[s]
      BY DEF QueuesOK
    <3>3. queue'[t][d] = Tail(q) /\ enqueued'[t][d] = enqueued[s][c]
      BY <1>7, <2>1
    <3>4. Taken(t, d)' = Taken(s, c) + 1 /\ Taken(s, c) + 1 \in Nat
      BY <1>4, <1>8, <2>1
    <3> QED
      BY <1>5, <2>1, <3>1, <3>2, <3>3, <3>4
  <2>2. CASE t # s \/ d # c
    <3>1. queue'[t][d] = queue[t][d] /\ enqueued'[t][d] = enqueued[t][d]
      BY <1>7, <2>2
    <3>2. Taken(t, d)' = Taken(t, d)
      BY <1>9, <2>2
    <3>3. /\ enqueued[t][d] \in 0..Asdus[t] /\ queue[t][d] \in Seq(AsdusOf(t))
          /\ Taken(t, d) \in Nat
          /\ \A i \in 1..Len(queue[t][d]) : queue[t][d][i] = <<d, Taken(t, d) + i>>
      BY DEF QueuesOK
    <3> QED
      BY <3>1, <3>2, <3>3
  <2> QED
    BY <2>1, <2>2
<1>11. QueuesOK'
  BY <1>10 DEF QueuesOK
<1> QED
  BY <1>2, <1>6, <1>8, <1>9, <1>11

(* The queues stay numbered, and what was taken stays taken. *)
LEMMA QueuesKept ==
  ASSUME PerStation, QueuesOK, [Next]_vars
  PROVE  /\ QueuesOK'
         /\ \A t \in Stations : TakenAsdus(t) \subseteq TakenAsdus(t)'
         /\ queue' = [t \in Stations |-> [d \in Classes[t] |-> queue'[t][d]]]
         /\ enqueued' = [t \in Stations |-> [d \in Classes[t] |-> enqueued'[t][d]]]
<1>1. /\ QueuesOK'
      /\ \A t \in Stations : \A d \in Classes[t] :
           Taken(t, d)' = Taken(t, d) + 1 \/ Taken(t, d)' = Taken(t, d)
      /\ queue' = [t \in Stations |-> [d \in Classes[t] |-> queue'[t][d]]]
      /\ enqueued' = [t \in Stations |-> [d \in Classes[t] |-> enqueued'[t][d]]]
  <2>1. CASE UNCHANGED <<queue, enqueued>>
    <3>1. \A t \in Stations : \A d \in Classes[t] : Taken(t, d)' = Taken(t, d)
      BY <2>1 DEF Taken
    <3>2. QueuesOK'
      BY <2>1, <3>1 DEF QueuesOK
    <3> QED
      BY <2>1, <3>1, <3>2 DEF PerStation
  <2>2. ASSUME NEW s \in Stations, RunSendUserData(s)
        PROVE  <1>1!:
    <3>0. PICK c \in Classes[s] :
            /\ Taken(s, c)' = Taken(s, c) + 1
            /\ \A t \in Stations : \A d \in Classes[t] :
                 (t # s \/ d # c) => Taken(t, d)' = Taken(t, d)
      BY <2>2, SendQueues
    <3>1. ASSUME NEW t \in Stations, NEW d \in Classes[t]
          PROVE  Taken(t, d)' = Taken(t, d) + 1 \/ Taken(t, d)' = Taken(t, d)
      <4>1. CASE t = s /\ d = c
        BY <3>0, <4>1
      <4>2. CASE t # s \/ d # c
        BY <3>0, <4>2
      <4> QED
        BY <4>1, <4>2
    <3> QED
      BY <2>2, <3>1, SendQueues
  <2>3. ASSUME NEW s \in Stations, NEW c \in Classes[s], Enqueue(s, c)
        PROVE  <1>1!:
    BY <2>3, EnqueueQueues
  <2> QED
    BY <2>1, <2>2, <2>3, QueueSteps
<1>2. ASSUME NEW t \in Stations, NEW a \in TakenAsdus(t)
      PROVE  a \in AsdusOf(t) /\ a[2] <= Taken(t, a[1])'
  <2>1. a \in AsdusOf(t) /\ a[1] \in Classes[t] /\ a[2] \in Int /\ a[2] <= Taken(t, a[1])
    BY AsduType DEF TakenAsdus
  <2>2. Taken(t, a[1]) \in Nat
    BY <2>1 DEF QueuesOK
  <2> QED
    BY <1>1, <2>1, <2>2
<1>3. ASSUME NEW t \in Stations
      PROVE  TakenAsdus(t) \subseteq TakenAsdus(t)'
  BY <1>2 DEF TakenAsdus
<1> QED
  BY <1>1, <1>3

(* The ASDU that is sent next is newer than every other that was taken. *)
LEMMA NewData ==
  ASSUME PerStation, QueuesOK, NEW s \in Stations, RunSendUserData(s)
  PROVE  \E a \in AsdusOf(s) :
           /\ a = Head(queue[s][classToSend(s)]) /\ a \in TakenAsdus(s)'
           /\ \A b \in TakenAsdus(s) : NotAfter(b, a) /\ b # a
           /\ lastSendAsdu' = [lastSendAsdu EXCEPT ![s] = a]
<1>1. hasUserData(s)
  BY DEF RunSendUserData
<1>2. PICK a \in AsdusOf(s), c \in Classes[s] :
        /\ c = classToSend(s) /\ a = Head(queue[s][classToSend(s)]) /\ a = <<c, Taken(s, c) + 1>>
  BY <1>1, HeadOfQueue
<1>3. PICK d \in Classes[s] : d = classToSend(s) /\ Taken(s, d)' = Taken(s, d) + 1
  BY SendQueues
<1>4. Taken(s, c)' = Taken(s, c) + 1 /\ Taken(s, c) \in Nat
  BY <1>2, <1>3 DEF QueuesOK
<1>5. a[2] <= Taken(s, a[1])'
  BY <1>2, <1>4
<1>6. a \in TakenAsdus(s)'
  BY <1>2, <1>5 DEF TakenAsdus
<1>7. ASSUME NEW b \in TakenAsdus(s)
      PROVE  NotAfter(b, a) /\ b # a
  <2>1. b[2] \in Int /\ b[2] <= Taken(s, b[1])
    BY AsduType DEF TakenAsdus
  <2> QED
    BY <1>2, <1>4, <2>1 DEF NotAfter
<1>8. lastSendAsdu' = [lastSendAsdu EXCEPT ![s] = a]
  BY <1>2 DEF RunSendUserData
<1> QED
  BY <1>2, <1>6, <1>7, <1>8

(* The ASDU in hand stays, goes, or is the one just sent. *)
LEMMA InHandSteps ==
  ASSUME PerStation, QueuesOK, [Next]_vars
  PROVE  \A t \in Stations : \/ lastSendAsdu'[t] \in {lastSendAsdu[t], NoAsdu}
                             \/ lastSendAsdu'[t] \in TakenAsdus(t)'
<1>1. lastSendAsdu = [t \in Stations |-> lastSendAsdu[t]]
  BY DEF PerStation
<1>2. ASSUME NEW s \in Stations, HandleMessage(s)
      PROVE  \A t \in Stations : lastSendAsdu'[t] \in {lastSendAsdu[t], NoAsdu}
  BY <1>1, <1>2 DEF HandleMessage, HandleFrame, HandleWrongFCB, HandleResetRemoteLink,
        HandleTestFunction,
        HandleUserDataConfirmed, HandleRequestLinkStatus, HandleDFC, HandleResetAck, HandleAck,
        HandleStrayAck, HandleNack, HandleIllegal, HandleStatusOfLink, HandleServiceNotImplemented,
        ForeignAnswer, primary, GiveUp
<1>3. ASSUME NEW s \in Stations, RunStateMachine(s), ~RunSendUserData(s)
      PROVE  \A t \in Stations : lastSendAsdu'[t] \in {lastSendAsdu[t], NoAsdu}
  BY <1>1, <1>3 DEF RunStateMachine, RunIdle, RunTimeoutStatusOrReset, RunSendTestFunction,
       RunRepeat, RunGiveUp, RunNothing, vars, primary, GiveUp
<1>4. ASSUME NEW s \in Stations, RunSendUserData(s)
      PROVE  \A t \in Stations : \/ lastSendAsdu'[t] = lastSendAsdu[t]
                                 \/ lastSendAsdu'[t] \in TakenAsdus(t)'
  <2>1. PICK a \in AsdusOf(s) :
          a \in TakenAsdus(s)' /\ lastSendAsdu' = [lastSendAsdu EXCEPT ![s] = a]
    BY <1>4, NewData
  <2> QED
    BY <1>1, <2>1
<1>5. ASSUME NEW s \in Stations, Lose(s) \/ sendTest(s) \/ \E c \in Classes[s] : Enqueue(s, c)
      PROVE  UNCHANGED lastSendAsdu
  BY <1>5 DEF Lose, sendTest, Enqueue, primary
<1>6. CASE UNCHANGED vars
  BY <1>6 DEF vars, primary
<1> QED
  BY <1>2, <1>3, <1>4, <1>5, <1>6 DEF Next

(* Only ASDUs that were taken from the queue are in hand, under way or     *)
(* delivered.                                                              *)
LEMMA TakenKept ==
  ASSUME TypeOK, PerStation, HasWhatItSent, QueuesOK, TakenOK, [Next]_vars
  PROVE  TakenOK'
<1>1. ASSUME NEW t \in Stations
      PROVE  /\ lastSendAsdu[t] \in TakenAsdus(t)' \cup {NoAsdu}
             /\ CarriesOnly(line[Peer(t)], TakenAsdus(t)')
             /\ delivered[Peer(t)] \in Seq(TakenAsdus(t)')
  <2>1. TakenAsdus(t) \subseteq TakenAsdus(t)'
    BY QueuesKept
  <2>2. /\ lastSendAsdu[t] \in TakenAsdus(t) \cup {NoAsdu}
        /\ CarriesOnly(line[Peer(t)], TakenAsdus(t))
        /\ delivered[Peer(t)] \in Seq(TakenAsdus(t))
    BY DEF TakenOK
  <2>3. delivered[Peer(t)] \in Seq(TakenAsdus(t)')
    BY <2>1, <2>2
  <2> QED
    BY <2>1, <2>2, <2>3 DEF CarriesOnly
<1>2. ASSUME NEW t \in Stations
      PROVE  lastSendAsdu'[t] \in TakenAsdus(t)' \cup {NoAsdu}
  BY <1>1, InHandSteps
<1>3. \A t \in Stations : line[t] \in Seq(Frames(t))
  BY DEF TypeOK
<1>4. ASSUME NEW s \in Stations, HandleMessage(s), NEW t \in Stations
      PROVE  CarriesOnly(line'[Peer(t)], TakenAsdus(t)')
  <2>1. t = s \/ t = Peer(s)
    BY TwoStations
  <2>2. CASE t = Peer(s)
    <3>1. Peer(t) = s
      BY <2>2, TwoStations
    <3>2. line[s] # <<>> /\ line'[s] = Tail(line[s])
      BY <1>4, HandleLine
    <3>3. CarriesOnly(line[s], TakenAsdus(t)')
      BY <1>1, <3>1
    <3>4. CarriesOnly(Tail(line[s]), TakenAsdus(t)')
      BY <1>3, <3>2, <3>3, CarriesTail
    <3> QED
      BY <3>1, <3>2, <3>4
  <2>3. CASE t = s
    <3>1. \/ line'[Peer(s)] = line[Peer(s)]
          \/ \E f \in Frames(Peer(s)) : ~Data(f) /\ line'[Peer(s)] = Append(line[Peer(s)], f)
      BY <1>4, HandleLine
    <3>2. Peer(s) \in Stations
      BY TwoStations
    <3>3. CarriesOnly(line[Peer(s)], TakenAsdus(t)')
      BY <1>1, <2>3
    <3>4. ASSUME NEW f \in Frames(Peer(s)), ~Data(f)
          PROVE  CarriesOnly(Append(line[Peer(s)], f), TakenAsdus(t)')
      BY <1>3, <3>2, <3>3, <3>4, CarriesAppend
    <3> QED
      BY <2>3, <3>1, <3>3, <3>4
  <2> QED
    BY <2>1, <2>2, <2>3
<1>5. ASSUME NEW s \in Stations, RunStateMachine(s), NEW t \in Stations
      PROVE  CarriesOnly(line'[Peer(t)], TakenAsdus(t)')
  <2>1. t = s \/ t = Peer(s)
    BY TwoStations
  <2>2. CASE t = Peer(s)
    <3>1. Peer(t) = s
      BY <2>2, TwoStations
    <3>2. line'[s] = line[s]
      BY <1>5, RunLine
    <3> QED
      BY <1>1, <3>1, <3>2
  <2>3. CASE t = s
    <3>1. \/ line'[Peer(s)] = line[Peer(s)]
          \/ \E f \in Frames(Peer(s)) :
               /\ line'[Peer(s)] = Append(line[Peer(s)], f)
               /\ \/ ~Data(f)
                  \/ MayRepeat(s) /\ f = Repetition(s)
                  \/ RunSendUserData(s)
                     /\ f = UserData(nextFcb[s], Head(queue[s][classToSend(s)]))
      BY <1>5, RunLine
    <3>2. Peer(s) \in Stations
      BY TwoStations
    <3>3. CarriesOnly(line[Peer(s)], TakenAsdus(t)')
      BY <1>1, <2>3
    <3>4. ASSUME NEW f \in Frames(Peer(s)), Data(f) => f.asdu \in TakenAsdus(s)'
          PROVE  CarriesOnly(Append(line[Peer(s)], f), TakenAsdus(t)')
      BY <1>3, <2>3, <3>2, <3>3, <3>4, CarriesAppend
    <3>5. ASSUME MayRepeat(s)
          PROVE  Repetition(s).asdu \in TakenAsdus(s)'
      BY <1>1, <3>5 DEF MayRepeat, Repetition, UserData
    <3>6. ASSUME RunSendUserData(s)
          PROVE  UserData(nextFcb[s], Head(queue[s][classToSend(s)])).asdu \in TakenAsdus(s)'
      BY <3>6, NewData DEF UserData
    <3> QED
      BY <2>3, <3>1, <3>3, <3>4, <3>5, <3>6
  <2> QED
    BY <2>1, <2>2, <2>3
<1>6. ASSUME NEW s \in Stations, Lose(s) \/ sendTest(s) \/ (\E c \in Classes[s] : Enqueue(s, c)),
             NEW t \in Stations
      PROVE  CarriesOnly(line'[Peer(t)], TakenAsdus(t)')
  <2>1. \/ line' = line
        \/ line[s] # <<>> /\ line'[s] = Tail(line[s]) /\ line'[Peer(s)] = line[Peer(s)]
    BY <1>6, EnvironmentLine
  <2>2. (Peer(t) = s \/ Peer(t) = Peer(s)) /\ s \in Stations
    BY TwoStations
  <2>3. CarriesOnly(line[Peer(t)], TakenAsdus(t)')
    BY <1>1
  <2>4. Peer(t) = s /\ line[s] # <<>> => CarriesOnly(Tail(line[s]), TakenAsdus(t)')
    BY <1>3, <2>3, CarriesTail
  <2> QED
    BY <2>1, <2>2, <2>3, <2>4
<1>8. ASSUME NEW t \in Stations
      PROVE  CarriesOnly(line'[Peer(t)], TakenAsdus(t)')
  <2>1. CASE UNCHANGED vars
    <3>1. line' = line
      BY <2>1 DEF vars
    <3> QED
      BY <1>1, <3>1
  <2> QED
    BY <1>4, <1>5, <1>6, <2>1 DEF Next
<1>9. ASSUME NEW t \in Stations
      PROVE  delivered'[Peer(t)] \in Seq(TakenAsdus(t)')
  <2>1. CASE UNCHANGED delivered
    BY <1>1, <2>1
  <2>2. ASSUME NEW s \in Stations, HandleMessage(s)
        PROVE  delivered'[Peer(t)] \in Seq(TakenAsdus(t)')
    <3>1. /\ line[s] # <<>>
          /\ \/ UNCHANGED delivered
             \/ /\ Data(line[s][1])
                /\ delivered' = [delivered EXCEPT ![s] = Append(@, line[s][1].asdu)]
      BY <2>2, ReadFrame
    <3>2. CASE Peer(t) # s /\ delivered' = [delivered EXCEPT ![s] = Append(@, line[s][1].asdu)]
      <4>1. delivered'[Peer(t)] = delivered[Peer(t)]
        BY <3>2, TwoStations DEF PerStation
      <4> QED
        BY <1>1, <4>1
    <3>3. CASE Peer(t) = s /\ Data(line[s][1])
               /\ delivered' = [delivered EXCEPT ![s] = Append(@, line[s][1].asdu)]
      <4>1. delivered'[s] = Append(delivered[s], line[s][1].asdu)
        BY <3>3 DEF PerStation
      <4>2. line[s] \in Seq(Frames(s)) /\ CarriesOnly(line[s], TakenAsdus(t)')
        BY <1>1, <1>3, <3>3
      <4>3. 1 \in 1..Len(line[s])
        BY <3>1, <4>2, TailIndex
      <4>4. line[s][1].asdu \in TakenAsdus(t)'
        BY <3>3, <4>2, <4>3 DEF CarriesOnly
      <4>5. delivered[s] \in Seq(TakenAsdus(t)')
        BY <1>1, <3>3
      <4> QED
        BY <3>3, <4>1, <4>4, <4>5
    <3> QED
      BY <2>1, <3>1, <3>2, <3>3
  <2>3. (\E s \in Stations : HandleMessage(s)) \/ UNCHANGED delivered
    BY OnlyHandlersRead DEF Next, vars, history
  <2> QED
    BY <2>1, <2>2, <2>3
<1> QED
  BY <1>2, <1>8, <1>9 DEF TakenOK

(* A step of a station leaves the primary of the other alone, and what the *)
(* other has received.                                                     *)
LEMMA OtherStation ==
  ASSUME TypeOK, PerStation, QueuesOK, NEW s \in Stations, NEW t \in Stations, t # s,
         \/ HandleMessage(s) \/ RunStateMachine(s) \/ Lose(s) \/ sendTest(s)
         \/ \E c \in Classes[s] : Enqueue(s, c)
  PROVE  /\ primaryState'[t] = primaryState[t] /\ nextFcb'[t] = nextFcb[t]
         /\ sendLinkLayerTestFunction'[t] = sendLinkLayerTestFunction[t]
         /\ lastSendAsdu'[t] = lastSendAsdu[t]
         /\ expectedFcb'[t] = expectedFcb[t] /\ delivered'[t] = delivered[t]
<1>1. /\ lastSendAsdu = [x \in Stations |-> lastSendAsdu[x]]
      /\ delivered = [x \in Stations |-> delivered[x]]
      /\ DOMAIN primaryState = Stations /\ DOMAIN nextFcb = Stations
      /\ DOMAIN sendLinkLayerTestFunction = Stations /\ DOMAIN expectedFcb = Stations
  BY DEF PerStation, TypeOK
<1>2. CASE HandleMessage(s)
  <2>1. /\ primaryState'[t] = primaryState[t] /\ nextFcb'[t] = nextFcb[t]
        /\ sendLinkLayerTestFunction'[t] = sendLinkLayerTestFunction[t]
        /\ lastSendAsdu'[t] = lastSendAsdu[t]
    BY <1>1, <1>2 DEF HandleMessage, HandleFrame, HandleWrongFCB, HandleResetRemoteLink,
        HandleTestFunction,
        HandleUserDataConfirmed, HandleRequestLinkStatus, HandleDFC, HandleResetAck, HandleAck,
        HandleStrayAck, HandleNack, HandleIllegal, HandleStatusOfLink, HandleServiceNotImplemented,
        ForeignAnswer, primary, GiveUp
  <2>2. expectedFcb'[t] = expectedFcb[t] /\ delivered'[t] = delivered[t]
    BY <1>1, <1>2, ReadFrame
  <2> QED
    BY <2>1, <2>2
<1>3. CASE RunStateMachine(s)
  BY <1>1, <1>3 DEF RunStateMachine, RunIdle, RunTimeoutStatusOrReset, RunSendTestFunction,
     RunSendUserData, RunRepeat, RunGiveUp, RunNothing, vars, primary, GiveUp, history
<1>4. CASE Lose(s) \/ sendTest(s) \/ \E c \in Classes[s] : Enqueue(s, c)
  BY <1>1, <1>4 DEF Lose, sendTest, Enqueue, primary, history
<1> QED
  BY <1>2, <1>3, <1>4

(* What a station may repeat is user data, and disturbs no repetition of   *)
(* itself.                                                                 *)
LEMMA RepetitionType ==
  ASSUME TypeOK, NEW s \in Stations, MayRepeat(s)
  PROVE  /\ Repetition(s) \in Frames(Peer(s)) /\ Data(Repetition(s))
         /\ ~Disturbs(Repetition(s), Repetition(s).fcb)
<1>1. lastSendAsdu[s] \in AsdusOf(s) /\ repeatedFcb(s) \in BOOLEAN
  BY DEF MayRepeat, TypeOK, repeatedFcb
<1>2. Repetition(s) \in Frames(Peer(s)) /\ Data(Repetition(s))
  BY <1>1, SentFrames DEF Repetition
<1> QED
  BY <1>2 DEF Repetition, UserData, Disturbs

(* A station goes on repeating the same frame until it sends a new one. *)
LEMMA RepetitionKept ==
  ASSUME TypeOK, PerStation, QueuesOK, NEW s \in Stations, ~RunSendUserData(s),
         \/ HandleMessage(s) \/ RunStateMachine(s) \/ Lose(s) \/ sendTest(s)
         \/ \E c \in Classes[s] : Enqueue(s, c),
         MayRepeat(s)'
  PROVE  MayRepeat(s) /\ Repetition(s)' = Repetition(s)
<1>1. /\ lastSendAsdu = [x \in Stations |-> lastSendAsdu[x]]
      /\ DOMAIN primaryState = Stations /\ DOMAIN nextFcb = Stations
      /\ DOMAIN sendLinkLayerTestFunction = Stations
  BY DEF PerStation, TypeOK
<1>0. /\ primaryState'[s] = "SEND_CONFIRM" /\ ~sendLinkLayerTestFunction'[s]
      /\ lastSendAsdu'[s] # NoAsdu
  BY DEF MayRepeat
<1> DEFINE Same == /\ primaryState'[s] = primaryState[s] /\ nextFcb'[s] = nextFcb[s]
                   /\ sendLinkLayerTestFunction'[s] = sendLinkLayerTestFunction[s]
                   /\ lastSendAsdu'[s] = lastSendAsdu[s]
<1>2. CASE HandleMessage(s)
  <2>1. Same
    BY <1>0, <1>1, <1>2 DEF HandleMessage, HandleFrame, HandleWrongFCB, HandleResetRemoteLink,
        HandleTestFunction,
        HandleUserDataConfirmed, HandleRequestLinkStatus, HandleDFC, HandleResetAck, HandleAck,
        HandleStrayAck, HandleNack, HandleIllegal, HandleStatusOfLink, HandleServiceNotImplemented,
        ForeignAnswer, primary, GiveUp
  <2> QED
    BY <2>1, <1>0 DEF MayRepeat, Repetition, repeatedFcb
<1>3. CASE RunStateMachine(s)
  <2>1. Same
    BY <1>0, <1>1, <1>3 DEF RunStateMachine, RunIdle, RunTimeoutStatusOrReset, RunSendTestFunction,
     RunRepeat, RunGiveUp, RunNothing, vars, primary, GiveUp, history
  <2> QED
    BY <2>1, <1>0 DEF MayRepeat, Repetition, repeatedFcb
<1>4. CASE Lose(s) \/ sendTest(s) \/ \E c \in Classes[s] : Enqueue(s, c)
  <2>1. Same
    BY <1>0, <1>1, <1>4 DEF Lose, sendTest, Enqueue, primary, history
  <2> QED
    BY <2>1, <1>0 DEF MayRepeat, Repetition, repeatedFcb
<1> QED
  BY <1>2, <1>3, <1>4

(* The receiving station: reading or losing the first frame under way      *)
(* keeps the channel to it in order.                                       *)
LEMMA ReceiverKept ==
  ASSUME TypeOK, PerStation, QueuesOK, ChannelsOK, NEW s \in Stations, Increasing(delivered[s]),
         \/ HandleMessage(s) \/ RunStateMachine(s) \/ Lose(s) \/ sendTest(s)
         \/ \E c \in Classes[s] : Enqueue(s, c),
         HasWhatItSent
  PROVE  /\ LineOK(Upcoming(Peer(s))', expectedFcb'[s], delivered'[s])
         /\ Increasing(delivered'[s])
<1> DEFINE t == Peer(s)
           U == Upcoming(t)
           N == IF MayRepeat(t) THEN Append(line'[s], Repetition(t)) ELSE line'[s]
<1>1. t \in Stations /\ t # s /\ Peer(t) = s
  BY TwoStations
<1>2. MayRepeat(t)' = MayRepeat(t) /\ Repetition(t)' = Repetition(t)
  BY <1>1, OtherStation DEF MayRepeat, Repetition, repeatedFcb
<1>3. Upcoming(t)' = N
  BY <1>1, <1>2 DEF Upcoming
<1>4. U = IF MayRepeat(t) THEN Append(line[s], Repetition(t)) ELSE line[s]
  BY <1>1 DEF Upcoming
<1>5. line[s] \in Seq(Frames(s)) /\ (MayRepeat(t) => Repetition(t) \in Frames(s))
  BY <1>1, RepetitionType DEF TypeOK
<1>6. LineOK(U, expectedFcb[s], delivered[s])
  BY <1>1 DEF ChannelsOK
<1>7. U \in Seq(Frames(s))
  BY <1>4, <1>5
<1>8. ASSUME line[s] # <<>>, line'[s] = Tail(line[s])
      PROVE  N = Tail(U) /\ U # <<>> /\ U[1] = line[s][1]
  <2>1. CASE MayRepeat(t)
    BY <1>4, <1>5, <1>8, <2>1, TailOfAppend
  <2>2. CASE ~MayRepeat(t)
    BY <1>4, <1>8, <2>2
  <2> QED
    BY <2>1, <2>2
<1> HIDE DEF U, N
<1>9. CASE line'[s] = line[s] /\ UNCHANGED <<expectedFcb, delivered>>
  <2>1. N = U
    BY <1>4, <1>9 DEF N
  <2> QED
    BY <1>3, <1>6, <1>9, <2>1
<1>10. CASE /\ line[s] # <<>> /\ line'[s] = Tail(line[s])
            /\ UNCHANGED <<expectedFcb, delivered>>
  <2>1. N = Tail(U) /\ U # <<>>
    BY <1>8, <1>10
  <2>2. LineOK(Tail(U), expectedFcb[s], delivered[s])
    BY <1>6, <1>7, <2>1, TailFrames, TailNewer DEF LineOK
  <2> QED
    BY <1>3, <1>10, <2>1, <2>2
<1>11. CASE HandleMessage(s)
  <2>1. line[s] # <<>> /\ line'[s] = Tail(line[s])
    BY <1>11, HandleLine
  <2>2. N = Tail(U) /\ U # <<>> /\ U[1] = line[s][1] /\ U[1] \in Frames(s)
    BY <1>8, <1>11, <2>1, ReadFrame
  <2>3. expectedFcb[s] \in BOOLEAN /\ DOMAIN expectedFcb = Stations
        /\ DOMAIN delivered = Stations
    BY DEF TypeOK, PerStation
  <2>4. CASE UNCHANGED <<expectedFcb, delivered>>
    BY <1>10, <2>1, <2>4
  <2>5. CASE /\ UNCHANGED delivered /\ U[1].prm
             /\ U[1].fc = "RESET_REMOTE_LINK" \/ (U[1].fcv /\ U[1].fcb = expectedFcb[s])
             /\ \E new \in BOOLEAN : expectedFcb' = [expectedFcb EXCEPT ![s] = new]
    <3>1. PICK new \in BOOLEAN : expectedFcb' = [expectedFcb EXCEPT ![s] = new]
      BY <2>5
    <3>2. LineOK(Tail(U), new, delivered[s])
      BY <1>6, <1>7, <2>2, <2>3, <2>5, ReadDisturbing
    <3> QED
      BY <1>3, <2>2, <2>3, <2>5, <3>1, <3>2
  <2>6. CASE /\ Data(U[1]) /\ U[1].fcv /\ U[1].fcb = expectedFcb[s]
             /\ \E new \in BOOLEAN :
                  new # expectedFcb[s] /\ expectedFcb' = [expectedFcb EXCEPT ![s] = new]
             /\ delivered' = [delivered EXCEPT ![s] = Append(@, U[1].asdu)]
    <3>1. PICK new \in BOOLEAN :
            new # expectedFcb[s] /\ expectedFcb' = [expectedFcb EXCEPT ![s] = new]
      BY <2>6
    <3>2. U[1].asdu \in AsdusOf(t) /\ AsdusOf(t) \subseteq Int \X Int
      BY <1>1, <2>2, <2>6, FrameType, AsduType
    <3>3. delivered[s] \in Seq(AsdusOf(t))
      BY DEF TypeOK
    <3>4. /\ LineOK(Tail(U), new, Append(delivered[s], U[1].asdu))
          /\ Increasing(Append(delivered[s], U[1].asdu))
      BY SMTT(20), <1>6, <1>7, <2>2, <2>3, <2>6, <3>1, <3>2, <3>3, ReadData
    <3> QED
      BY <1>3, <2>2, <2>3, <2>6, <3>1, <3>4
  <2> QED
    BY <1>11, <2>2, <2>4, <2>5, <2>6, ReadFrame
<1>12. CASE RunStateMachine(s)
  <2>1. line'[s] = line[s]
    BY <1>12, RunLine
  <2> QED
    BY <1>9, <1>12, <2>1, OnlyHandlersRead
<1>13. CASE Lose(s) \/ sendTest(s) \/ \E c \in Classes[s] : Enqueue(s, c)
  <2>1. \/ line' = line
        \/ line[s] # <<>> /\ line'[s] = Tail(line[s])
    BY <1>13, EnvironmentLine
  <2>2. UNCHANGED <<expectedFcb, delivered>>
    BY <1>13, OnlyHandlersRead
  <2> QED
    BY <1>9, <1>10, <2>1, <2>2
<1> QED
  BY <1>11, <1>12, <1>13

(* The sending station: what it sends keeps the channel in order.          *)
LEMMA SenderKept ==
  ASSUME TypeOK, PerStation, QueuesOK, TakenOK, ChannelsOK, HasWhatItSent, NEW s \in Stations,
         \/ HandleMessage(s) \/ RunStateMachine(s) \/ Lose(s) \/ sendTest(s)
         \/ \E c \in Classes[s] : Enqueue(s, c)
  PROVE  LineOK(Upcoming(s)', expectedFcb'[Peer(s)], delivered'[Peer(s)])
<1> DEFINE p == Peer(s)
           L == line[p]
           exp == expectedFcb[p]
           del == delivered[p]
<1>1. p \in Stations /\ p # s
  BY TwoStations
<1>2. expectedFcb'[p] = exp /\ delivered'[p] = del
  BY <1>1, OtherStation
<1>3. L \in Seq(Frames(p))
  BY <1>1 DEF TypeOK
<1>4. /\ MayRepeat(s) => LineOK(Append(L, Repetition(s)), exp, del)
      /\ MayRepeat(s) => Repetition(s) \in Frames(p) /\ Data(Repetition(s))
      /\ MayRepeat(s) => ~Disturbs(Repetition(s), Repetition(s).fcb)
  BY RepetitionType DEF ChannelsOK, Upcoming
<1>5. LineOK(L, exp, del)
  <2>1. CASE MayRepeat(s)
    BY <1>3, <1>4, <2>1, DropLast
  <2>2. CASE ~MayRepeat(s)
    BY <2>2 DEF ChannelsOK, Upcoming
  <2> QED
    BY <2>1, <2>2
<1>6. Upcoming(s)' = IF MayRepeat(s)' THEN Append(line'[p], Repetition(s)') ELSE line'[p]
  BY DEF Upcoming
<1> HIDE DEF p, L, exp, del
<1> SUFFICES LineOK(Upcoming(s)', exp, del)
  BY <1>2 DEF p
<1>7. CASE line'[p] = L /\ ~RunSendUserData(s)
  <2>1. CASE MayRepeat(s)'
    <3>1. MayRepeat(s) /\ Repetition(s)' = Repetition(s)
      BY <1>7, <2>1, RepetitionKept
    <3> QED
      BY <1>4, <1>6, <1>7, <2>1, <3>1
  <2>2. CASE ~MayRepeat(s)'
    BY <1>5, <1>6, <1>7, <2>2
  <2> QED
    BY <2>1, <2>2
<1>8. ASSUME NEW f \in Frames(p), line'[p] = Append(L, f), ~Data(f), ~RunSendUserData(s),
             MayRepeat(s)' => ~f.prm
      PROVE  LineOK(Upcoming(s)', exp, del)
  <2>1. CASE MayRepeat(s)'
    <3>1. MayRepeat(s) /\ Repetition(s)' = Repetition(s)
      BY <1>8, <2>1, RepetitionKept
    <3>2. LineOK(Append(Append(L, f), Repetition(s)), exp, del)
      BY <1>3, <1>4, <1>8, <2>1, <3>1, InsertHarmless
    <3> QED
      BY <1>6, <1>8, <2>1, <3>1, <3>2
  <2>2. CASE ~MayRepeat(s)'
    <3>1. LineOK(Append(L, f), exp, del)
      BY <1>3, <1>5, <1>8, AppendHarmless
    <3> QED
      BY <1>6, <1>8, <2>2, <3>1
  <2> QED
    BY <2>1, <2>2
<1>9. CASE HandleMessage(s)
  <2>1. ~RunSendUserData(s)
    <3>1. line'[s] = Tail(line[s]) /\ line[s] # <<>> /\ line[s] \in Seq(Frames(s))
      BY <1>9, HandleLine DEF TypeOK
    <3>2. RunSendUserData(s) => line'[s] = line[s]
      BY RunLine DEF RunStateMachine
    <3>3. Len(Tail(line[s])) = Len(line[s]) - 1 /\ Len(line[s]) \in Nat
      BY <3>1, TailIndex
    <3>4. Len(Tail(line[s])) # Len(line[s])
      BY <3>3
    <3> QED
      BY <3>1, <3>2, <3>4
  <2>2. \/ line'[p] = L
        \/ \E f \in Frames(p) : /\ ~Data(f) /\ (f.prm => primaryState'[s] = "RESET_REMOTE_LINK")
                                /\ line'[p] = Append(L, f)
    BY <1>9, HandleLine DEF p, L
  <2>3. MayRepeat(s)' => primaryState'[s] # "RESET_REMOTE_LINK"
    BY DEF MayRepeat
  <2> QED
    BY <1>7, <1>8, <2>1, <2>2, <2>3
<1>10. CASE Lose(s) \/ sendTest(s) \/ \E c \in Classes[s] : Enqueue(s, c)
  <2>1. line' = line \/ line'[p] = line[p]
    BY <1>10, EnvironmentLine DEF p
  <2>2. UNCHANGED nextFcb /\ UNCHANGED primaryState
    BY <1>10 DEF Lose, sendTest, Enqueue, primary
  <2>3. ~RunSendUserData(s)
    BY <2>2 DEF RunSendUserData, TypeOK
  <2> QED
    BY <1>7, <2>1, <2>3 DEF L
<1>11. CASE RunSendUserData(s)
  <2>1. PICK a \in AsdusOf(s) :
          /\ a = Head(queue[s][classToSend(s)])
          /\ \A b \in TakenAsdus(s) : NotAfter(b, a) /\ b # a
          /\ lastSendAsdu' = [lastSendAsdu EXCEPT ![s] = a]
    BY <1>11, NewData
  <2> DEFINE v == UserData(nextFcb[s], a)
  <2>2. line'[p] = Append(L, v)
    <3>1. line' = [line EXCEPT ![p] = Append(line[p], v)]
      BY <1>11, <2>1 DEF RunSendUserData, Send, p
    <3> QED
      BY <1>1, <3>1 DEF PerStation, L
  <2>3. nextFcb[s] \in BOOLEAN /\ nextFcb'[s] = ~nextFcb[s] /\ lastSendAsdu'[s] = a
    BY <1>11, <2>1 DEF RunSendUserData, TypeOK, PerStation
  <2>4. v \in Frames(p) /\ Data(v) /\ ~Disturbs(v, v.fcb) /\ v.asdu = a
    <3>1. v \in Frames(p) /\ Data(v)
      BY <2>3, SentFrames DEF p
    <3> QED
      BY <3>1 DEF UserData, Disturbs
  <2>5. MayRepeat(s)' => Repetition(s)' = v
    BY <2>3 DEF MayRepeat, Repetition, repeatedFcb, UserData
  <2> HIDE DEF v
  <2>6. CarriesOnly(L, TakenAsdus(s)) /\ del \in Seq(TakenAsdus(s))
    BY DEF TakenOK, L, del, p
  <2>7. a \in Int \X Int
    BY AsduType
  <2>8. \A i \in 1..Len(L) : Data(L[i]) => NotAfter(L[i].asdu, v.asdu) /\ L[i].asdu # v.asdu
    BY <2>1, <2>4, <2>6 DEF CarriesOnly
  <2>9. \A n \in 1..Len(del) : NotAfter(del[n], v.asdu) /\ del[n] # v.asdu
    BY <2>1, <2>4, <2>6
  <2>10. LineOK(Append(L, v), exp, del)
    BY <1>3, <1>5, <2>4, <2>7, <2>8, <2>9, AppendData
  <2>11. LineOK(Append(Append(L, v), v), exp, del)
    BY <1>3, <2>4, <2>10, RepeatLast
  <2> QED
    BY <1>6, <2>2, <2>5, <2>10, <2>11
<1>12. CASE RunStateMachine(s) /\ ~RunSendUserData(s)
  <2>1. \/ line'[p] = L
        \/ \E f \in Frames(p) :
             /\ line'[p] = Append(L, f)
             /\ \/ ~Data(f) /\ ~MayRepeat(s)'
                \/ MayRepeat(s) /\ f = Repetition(s)
    BY <1>12, RunLine DEF p, L
  <2>2. CASE line'[p] = Append(L, Repetition(s)) /\ MayRepeat(s)
    <3>1. LineOK(Append(Append(L, Repetition(s)), Repetition(s)), exp, del)
      BY <1>3, <1>4, <2>2, RepeatLast
    <3>2. MayRepeat(s)' => Repetition(s)' = Repetition(s)
      BY <1>12, RepetitionKept
    <3> QED
      BY <1>4, <1>6, <2>2, <3>1, <3>2
  <2> QED
    BY <1>7, <1>8, <1>12, <2>1, <2>2
<1> QED
  BY <1>9, <1>10, <1>11, <1>12

(* The inductive invariant holds in the initial states. *)
LEMMA InitIInv == Init => IInv
<1> SUFFICES ASSUME Init PROVE IInv
  OBVIOUS
<1>1. TypeOK
  BY BalancedAssumption DEF Init, TypeOK
<1>2. PerStation /\ HasWhatItSent
  BY DEF Init, PerStation, HasWhatItSent
<1>3. \A s \in Stations : Peer(s) \in Stations
  BY TwoStations
<1>4. QueuesOK
  BY BalancedAssumption DEF Init, QueuesOK, Taken
<1>5. TakenOK
  BY <1>3 DEF Init, TakenOK, CarriesOnly
<1>6. ChannelsOK
  <2>1. \A exp, del : LineOK(<<>>, exp, del)
    BY DEF LineOK, FramesInOrder, NewerThan
  <2>2. \A s \in Stations : Upcoming(s) = <<>>
    BY <1>3 DEF Init, Upcoming, MayRepeat
  <2> QED
    BY <2>1, <2>2 DEF ChannelsOK
<1>7. InOrderOnce
  BY DEF Init, InOrderOnce
<1> QED
  BY <1>1, <1>2, <1>4, <1>5, <1>6, <1>7 DEF IInv

(* Every step preserves the inductive invariant. *)
LEMMA NextIInv == IInv /\ [Next]_vars => IInv'
<1> SUFFICES ASSUME IInv, [Next]_vars PROVE IInv'
  OBVIOUS
<1>1. TypeOK /\ PerStation /\ HasWhatItSent /\ QueuesOK /\ TakenOK /\ ChannelsOK /\ InOrderOnce
  BY DEF IInv
<1>2. TypeOK'
  BY <1>1, StationTypes, LineTypes, DeliveredTypes, InHandTypes, WaitsForStatus DEF TypeOK
<1>3. PerStation'
  BY <1>1, LineTypes, DeliveredTypes, InHandTypes, QueuesKept DEF PerStation
<1>4. HasWhatItSent' /\ QueuesOK' /\ TakenOK'
  BY <1>1, HasWhatItSentKept, QueuesKept, TakenKept
<1>5. ChannelsOK' /\ InOrderOnce'
  <2>1. CASE UNCHANGED vars
    BY <1>1, <2>1 DEF vars, primary, appl, history, ChannelsOK, InOrderOnce, Upcoming, MayRepeat,
       Repetition, repeatedFcb
  <2>2. ASSUME NEW s \in Stations,
               \/ HandleMessage(s) \/ RunStateMachine(s) \/ Lose(s) \/ sendTest(s)
               \/ \E c \in Classes[s] : Enqueue(s, c)
        PROVE  ChannelsOK' /\ InOrderOnce'
    <3>1. /\ Peer(s) \in Stations /\ Peer(s) # s /\ Peer(Peer(s)) = s
          /\ \A t \in Stations : t = s \/ t = Peer(s)
      BY TwoStations
    <3>2. Increasing(delivered[s]) /\ Increasing(delivered[Peer(s)])
      BY <1>1, <3>1 DEF InOrderOnce, Increasing
    <3>3. /\ LineOK(Upcoming(Peer(s))', expectedFcb'[s], delivered'[s])
          /\ Increasing(delivered'[s])
      BY <1>1, <2>2, <3>2, ReceiverKept
    <3>4. LineOK(Upcoming(s)', expectedFcb'[Peer(s)], delivered'[Peer(s)])
      BY <1>1, <2>2, SenderKept
    <3>5. Increasing(delivered'[Peer(s)])
      <4>1. delivered'[Peer(s)] = delivered[Peer(s)]
        BY <1>1, <2>2, <3>1, OtherStation
      <4> QED
        BY <3>2, <4>1
    <3>6. ASSUME NEW t \in Stations
          PROVE  LineOK(Upcoming(t)', expectedFcb'[Peer(t)], delivered'[Peer(t)])
      <4>1. CASE t = s
        BY <3>4, <4>1
      <4>2. CASE t = Peer(s)
        BY <3>1, <3>3, <4>2
      <4> QED
        BY <3>1, <4>1, <4>2
    <3>7. ChannelsOK'
      BY <3>6 DEF ChannelsOK
    <3>8. InOrderOnce'
      BY <3>1, <3>3, <3>5 DEF InOrderOnce, Increasing
    <3> QED
      BY <3>7, <3>8
  <2> QED
    BY <2>1, <2>2 DEF Next
<1> QED
  BY <1>1, <1>2, <1>3, <1>4, <1>5 DEF IInv

(* The inductive invariant holds in every reachable state. *)
THEOREM Invariance == Spec => []IInv
BY InitIInv, NextIInv, PTL DEF Spec

(* Every variable keeps its type; in particular a primary that waits for   *)
(* a link status or for the ACK of its reset has waitingForResponse set.   *)
THEOREM TypeCorrect == Spec => []TypeOK
<1>1. IInv => TypeOK
  BY DEF IInv
<1> QED
  BY <1>1, Invariance, PTL

(* For any number of ASDUs, repetitions and faults: the FCB lets each      *)
(* ASDU reach the other station at most once and, within its class, in     *)
(* the order it was enqueued.                                              *)
THEOREM DeliveredInOrderOnce == Spec => []InOrderOnce
<1>1. IInv => InOrderOnce
  BY DEF IInv
<1> QED
  BY <1>1, Invariance, PTL

---------------------------------------------------------------------------
(* While no timer runs out early, each primary has at most one request or  *)
(* answer under way, so an ACK acknowledges what it sent last.             *)
Requests(p) == {f \in Frames(p) : f.prm}
Answers(p) == {f \in Frames(p) : ~f.prm}

AtMostOneOf(L, K) == \A i, j \in 1..Len(L) : L[i] \in K /\ L[j] \in K => i = j
NoneOf(L, K) == \A i \in 1..Len(L) : L[i] \notin K

Nothing(s) == NoneOf(line[Peer(s)], Requests(Peer(s))) /\ NoneOf(line[s], Answers(s))

OneOutstanding(s) ==
  /\ AtMostOneOf(line[Peer(s)], Requests(Peer(s))) /\ AtMostOneOf(line[s], Answers(s))
  /\ NoneOf(line[Peer(s)], Requests(Peer(s))) \/ NoneOf(line[s], Answers(s))
  /\ hasTimeout(s) \/ Nothing(s)

IsAck(f) == ~f.prm /\ ~f.dfc /\ f.fc = "ACK"

WasDelivered(s, a) == \E n \in DOMAIN delivered[Peer(s)] : delivered[Peer(s)][n] = a

Acks(p) == {f \in Frames(p) : IsAck(f)}

(* What is under way belongs to the ASDU in hand. *)
AckFits(s) ==
  MayRepeat(s) =>
    /\ NoneOf(line[Peer(s)], Requests(Peer(s)) \ {Repetition(s)})
    /\ WasDelivered(s, lastSendAsdu[s]) \/ NoneOf(line[s], Acks(s))

InHandOnlyWhileSent ==
  \A s \in Stations : lastSendAsdu[s] # NoAsdu =>
    /\ primaryState[s] \in {"SEND_CONFIRM", "BUSY"}
    /\ sendLinkLayerTestFunction[s] => lastSendAsdu[s] \in overtaken[s]

FaultTypes ==
  /\ faults \in [lost : Nat, late : Nat, test : Nat, foreign : Nat]
  /\ overtaken = [s \in Stations |-> overtaken[s]]

WhilePrompt ==
  faults.late = 0 =>
    \A s \in Stations : OneOutstanding(s) /\ AckFits(s)

PInv ==
  IInv /\ FaultTypes /\ InHandOnlyWhileSent /\ WhilePrompt /\ ConfirmedWasDelivered

(* Of frames of a kind there are no more after one is taken; none, if the  *)
(* only one is.                                                            *)
LEMMA TailOutstanding ==
  ASSUME NEW T, NEW L \in Seq(T), L # <<>>, NEW K
  PROVE  /\ NoneOf(L, K) => NoneOf(Tail(L), K)
         /\ AtMostOneOf(L, K) => AtMostOneOf(Tail(L), K)
         /\ AtMostOneOf(L, K) /\ L[1] \in K => NoneOf(Tail(L), K)
         /\ NoneOf(L, K) => L[1] \notin K
<1> DEFINE M == Tail(L)
<1>1. /\ Len(M) = Len(L) - 1 /\ Len(L) \in Nat \ {0}
      /\ \A i \in 1..Len(M) : M[i] = L[i + 1]
  BY TailIndex
<1> HIDE DEF M
<1>2. 1 \in 1..Len(L) /\ \A i \in 1..Len(M) : i + 1 \in 1..Len(L) /\ i + 1 # 1
  BY <1>1
<1>3. \A i, j \in 1..Len(M) : i + 1 = j + 1 => i = j
  OBVIOUS
<1>4. NoneOf(L, K) => NoneOf(M, K) /\ L[1] \notin K
  BY <1>1, <1>2 DEF NoneOf
<1>5. AtMostOneOf(L, K) => AtMostOneOf(M, K)
  BY <1>1, <1>2, <1>3 DEF AtMostOneOf
<1>6. AtMostOneOf(L, K) /\ L[1] \in K => NoneOf(M, K)
  BY <1>1, <1>2 DEF AtMostOneOf, NoneOf
<1> QED
  BY <1>4, <1>5, <1>6 DEF M

(* Appending a frame adds at most itself to the frames of a kind. *)
LEMMA AppendOutstanding ==
  ASSUME NEW T, NEW L \in Seq(T), NEW f \in T, NEW K
  PROVE  /\ f \notin K /\ NoneOf(L, K) => NoneOf(Append(L, f), K)
         /\ f \notin K /\ AtMostOneOf(L, K) => AtMostOneOf(Append(L, f), K)
         /\ NoneOf(L, K) => AtMostOneOf(Append(L, f), K)
<1> DEFINE M == Append(L, f)
<1>1. /\ Len(M) = Len(L) + 1 /\ Len(L) \in Nat
      /\ \A i \in 1..Len(L) : M[i] = L[i]
      /\ M[Len(L) + 1] = f
  BY AppendIndex
<1> HIDE DEF M
<1>2. \A i \in 1..Len(M) : i \in 1..Len(L) \/ i = Len(L) + 1
  BY <1>1
<1>3. f \notin K /\ NoneOf(L, K) => NoneOf(M, K)
  BY <1>1, <1>2 DEF NoneOf
<1>4. f \notin K /\ AtMostOneOf(L, K) => AtMostOneOf(M, K)
  BY <1>1, <1>2 DEF AtMostOneOf
<1>5. NoneOf(L, K) => AtMostOneOf(M, K)
  BY <1>1, <1>2 DEF NoneOf, AtMostOneOf
<1> QED
  BY <1>3, <1>4, <1>5 DEF M

(* A fault counts up its own kind only. *)
LEMMA FaultCounted ==
  ASSUME FaultTypes, NEW k \in {"lost", "late", "test", "foreign"}, Fault(k)
  PROVE  /\ faults' \in [lost : Nat, late : Nat, test : Nat, foreign : Nat]
         /\ faults'.late = IF k = "late" THEN faults.late + 1 ELSE faults.late
BY DEF FaultTypes, Fault

(* A frame of another kind, or none, leaves the frames of a kind as many   *)
(* as they were.                                                           *)
LEMMA MoreOutside ==
  ASSUME NEW T, NEW L \in Seq(T), NEW M, NEW K,
         M = L \/ \E f \in T : f \notin K /\ M = Append(L, f)
  PROVE  /\ NoneOf(L, K) => NoneOf(M, K)
         /\ AtMostOneOf(L, K) => AtMostOneOf(M, K)
<1>1. CASE M = L
  BY <1>1
<1>2. ASSUME NEW f \in T, f \notin K, M = Append(L, f)
      PROVE  /\ NoneOf(L, K) => NoneOf(M, K)
             /\ AtMostOneOf(L, K) => AtMostOneOf(M, K)
  <2>1. /\ NoneOf(L, K) => NoneOf(Append(L, f), K)
        /\ AtMostOneOf(L, K) => AtMostOneOf(Append(L, f), K)
    BY <1>2, AppendOutstanding
  <2> QED
    BY <1>2, <2>1
<1> QED
  BY <1>1, <1>2

(* Where there was no frame of a kind, one more is at most one. *)
LEMMA OneMore ==
  ASSUME NEW T, NEW L \in Seq(T), NEW M, NEW K, NoneOf(L, K),
         M = L \/ \E f \in T : M = Append(L, f)
  PROVE  AtMostOneOf(M, K)
<1>1. CASE M = L
  BY <1>1 DEF NoneOf, AtMostOneOf
<1>2. ASSUME NEW f \in T, M = Append(L, f)
      PROVE  AtMostOneOf(M, K)
  <2>1. AtMostOneOf(Append(L, f), K)
    BY AppendOutstanding
  <2> QED
    BY <1>2, <2>1
<1> QED
  BY <1>1, <1>2

(* A frame that is read is a request, and answered by the secondary, or an *)
(* answer, and handled by the primary.                                     *)
LEMMA HandleKinds ==
  ASSUME TypeOK, PerStation, NEW s \in Stations, HandleMessage(s)
  PROVE  \/ /\ line[s][1].prm /\ UNCHANGED <<primary, confirmed>>
            /\ \/ line'[Peer(s)] = line[Peer(s)]
               \/ \E f \in Answers(Peer(s)) :
                    /\ line'[Peer(s)] = Append(line[Peer(s)], f)
                    /\ IsAck(f) =>
                         \/ line[s][1].fc \in {"RESET_REMOTE_LINK", "TEST_FUNCTION_FOR_LINK"}
                         \/ delivered'[s] = Append(delivered[s], line[s][1].asdu)
         \/ /\ ~line[s][1].prm
            /\ \/ line'[Peer(s)] = line[Peer(s)]
               \/ \E f \in Requests(Peer(s)) :
                    /\ line'[Peer(s)] = Append(line[Peer(s)], f)
                    /\ primaryState'[s] = "RESET_REMOTE_LINK"
            /\ UNCHANGED confirmed \/ (HandleAck(s) /\ IsAck(line[s][1]))
<1>1. Peer(s) \in Stations /\ Peer(s) # s
  BY TwoStations
<1>2. line = [t \in Stations |-> line[t]] /\ delivered = [t \in Stations |-> delivered[t]]
  BY DEF PerStation
<1>3. line[s] # <<>> /\ Head(line[s]) = line[s][1]
  BY ReadFrame
<1> DEFINE Answered(f) == line' = [line EXCEPT ![s] = Tail(line[s]),
                                       ![Peer(s)] = Append(line[Peer(s)], f)]
<1>4. \A f : Answered(f) => line'[Peer(s)] = Append(line[Peer(s)], f)
  BY <1>1, <1>2
<1> HIDE DEF Answered
<1>5. /\ Answer("ACK") \in Answers(Peer(s)) /\ Answer("STATUS_OF_LINK") \in Answers(Peer(s))
      /\ ForeignAnswers \subseteq Answers(Peer(s))
  BY SentFrames DEF Answers
<1>6. ~IsAck(Answer("STATUS_OF_LINK")) /\ \A f \in ForeignAnswers : ~IsAck(f)
  BY DEF IsAck, Answer, ForeignAnswers
<1>7. CASE HandleWrongFCB(s)
  <2>1. line[s][1].prm /\ UNCHANGED <<primary, confirmed>> /\ line' = [line EXCEPT ![s] = Tail(@)]
    BY <1>3, <1>7 DEF HandleWrongFCB, TakeSilently, history
  <2> QED
    BY <1>1, <1>2, <2>1
<1>8. CASE HandleResetRemoteLink(s) \/ HandleTestFunction(s)
  <2>1. line[s][1].prm /\ UNCHANGED <<primary, confirmed>> /\ Answered(Answer("ACK"))
        /\ line[s][1].fc \in {"RESET_REMOTE_LINK", "TEST_FUNCTION_FOR_LINK"}
    BY <1>3, <1>8 DEF HandleResetRemoteLink, HandleTestFunction, TakeAndSend, Answered, history
  <2> QED
    BY <1>4, <1>5, <2>1
<1>9. CASE HandleUserDataConfirmed(s)
  <2>1. line[s][1].prm /\ UNCHANGED <<primary, confirmed>> /\ Answered(Answer("ACK"))
        /\ delivered' = [delivered EXCEPT ![s] = Append(@, line[s][1].asdu)]
    BY <1>3, <1>9 DEF HandleUserDataConfirmed, TakeAndSend, Answered
  <2>2. delivered'[s] = Append(delivered[s], line[s][1].asdu)
    BY <1>2, <2>1
  <2> QED
    BY <1>4, <1>5, <2>1, <2>2
<1>10. CASE HandleRequestLinkStatus(s)
  <2>1. line[s][1].prm /\ UNCHANGED <<primary, confirmed>> /\ Answered(Answer("STATUS_OF_LINK"))
    BY <1>3, <1>10 DEF HandleRequestLinkStatus, TakeAndSend, Answered, history
  <2> QED
    BY <1>4, <1>5, <1>6, <2>1
<1>11. CASE ForeignAnswer(s)
  <2>1. line[s][1].prm /\ UNCHANGED <<primary, confirmed>> /\ \E f \in ForeignAnswers : Answered(f)
    BY <1>3, <1>11 DEF ForeignAnswer, TakeAndSend, Answered, history
  <2> QED
    BY <1>4, <1>5, <1>6, <2>1
<1>12. CASE \/ HandleDFC(s) \/ HandleResetAck(s)
            \/ HandleStrayAck(s) \/ HandleNack(s) \/ HandleIllegal(s)
            \/ HandleServiceNotImplemented(s)
  <2>1. ~line[s][1].prm /\ UNCHANGED confirmed /\ line' = [line EXCEPT ![s] = Tail(@)]
    BY <1>3, <1>12 DEF HandleDFC, HandleResetAck, HandleStrayAck, HandleNack, HandleIllegal,
       HandleServiceNotImplemented, IsAnswer, TakeSilently, history
  <2> QED
    BY <1>1, <1>2, <2>1
<1>13. CASE HandleAck(s)
  <2>1. ~line[s][1].prm /\ IsAck(line[s][1]) /\ line' = [line EXCEPT ![s] = Tail(@)]
    BY <1>3, <1>13 DEF HandleAck, IsAnswer, TakeSilently, IsAck
  <2> QED
    BY <1>1, <1>2, <1>13, <2>1
<1>14. CASE HandleStatusOfLink(s)
  <2>1. ~line[s][1].prm /\ UNCHANGED confirmed
        /\ Answered(Fixed("RESET_REMOTE_LINK", FALSE, FALSE))
        /\ primaryState'[s] = "RESET_REMOTE_LINK"
    BY <1>3, <1>14 DEF HandleStatusOfLink, TakeAndSend, Answered, TypeOK
  <2>2. Fixed("RESET_REMOTE_LINK", FALSE, FALSE) \in Requests(Peer(s))
    BY SentFrames DEF Requests, Fixed
  <2> QED
    BY <1>4, <2>1, <2>2
<1> QED
  BY <1>7, <1>8, <1>9, <1>10, <1>11, <1>12, <1>13, <1>14 DEF HandleMessage, HandleFrame

(* The faults only add up, and so do the ASDUs overtaken by a test. *)
LEMMA FaultsAddUp ==
  ASSUME FaultTypes, [Next]_vars
  PROVE  /\ FaultTypes' /\ faults'.late >= faults.late
         /\ \A t \in Stations : overtaken[t] \subseteq overtaken'[t]
<1>1. faults.late \in Nat
  BY DEF FaultTypes
<1>2. \/ UNCHANGED faults
      \/ \E k \in {"lost", "late", "test", "foreign"} : Fault(k)
  <2>1. ASSUME NEW s \in Stations, HandleMessage(s)
        PROVE  UNCHANGED faults \/ Fault("foreign")
    BY <2>1 DEF HandleMessage, HandleFrame, HandleWrongFCB, HandleResetRemoteLink,
        HandleTestFunction,
        HandleUserDataConfirmed, HandleRequestLinkStatus, HandleDFC, HandleResetAck, HandleAck,
        HandleStrayAck, HandleNack, HandleIllegal, HandleStatusOfLink, HandleServiceNotImplemented,
        ForeignAnswer
  <2>2. ASSUME NEW s \in Stations, RunStateMachine(s)
        PROVE  UNCHANGED faults \/ Fault("late")
    BY <2>2 DEF RunStateMachine, RunIdle, RunTimeoutStatusOrReset, RunSendTestFunction,
       RunSendUserData, RunRepeat, RunGiveUp, RunNothing, TimeoutForAck, vars
  <2>3. ASSUME NEW s \in Stations, Lose(s) \/ sendTest(s) \/ \E c \in Classes[s] : Enqueue(s, c)
        PROVE  UNCHANGED faults \/ Fault("lost") \/ Fault("test")
    BY <2>3 DEF Lose, sendTest, Enqueue
  <2>4. CASE UNCHANGED vars
    BY <2>4 DEF vars
  <2> QED
    BY <2>1, <2>2, <2>3, <2>4 DEF Next
<1>3. /\ faults' \in [lost : Nat, late : Nat, test : Nat, foreign : Nat]
      /\ faults'.late >= faults.late
  <2>1. CASE UNCHANGED faults
    BY <1>1, <2>1 DEF FaultTypes
  <2>2. ASSUME NEW k \in {"lost", "late", "test", "foreign"}, Fault(k)
        PROVE  <1>3!:
    BY <1>1, <2>2, FaultCounted
  <2> QED
    BY <1>2, <2>1, <2>2
<1>4. /\ \A t \in Stations : overtaken[t] \subseteq overtaken'[t]
      /\ overtaken' = [t \in Stations |-> overtaken'[t]]
  <2>0. overtaken = [t \in Stations |-> overtaken[t]]
    BY DEF FaultTypes
  <2>1. ASSUME NEW s \in Stations, HandleMessage(s)
        PROVE  UNCHANGED overtaken
    BY <2>1 DEF HandleMessage, HandleFrame, HandleWrongFCB, HandleResetRemoteLink,
        HandleTestFunction,
        HandleUserDataConfirmed, HandleRequestLinkStatus, HandleDFC, HandleResetAck, HandleAck,
        HandleStrayAck, HandleNack, HandleIllegal, HandleStatusOfLink, HandleServiceNotImplemented,
        ForeignAnswer, history
  <2>2. ASSUME NEW s \in Stations, RunStateMachine(s)
        PROVE  UNCHANGED overtaken
    BY <2>2 DEF RunStateMachine, RunIdle, RunTimeoutStatusOrReset, RunSendTestFunction,
       RunSendUserData, RunRepeat, RunGiveUp, RunNothing, vars, history
  <2>3. ASSUME NEW s \in Stations, Lose(s) \/ \E c \in Classes[s] : Enqueue(s, c)
        PROVE  UNCHANGED overtaken
    BY <2>3 DEF Lose, Enqueue, history
  <2>4. UNCHANGED vars => UNCHANGED overtaken
    BY DEF vars, history
  <2>5. ASSUME NEW s \in Stations, sendTest(s)
        PROVE  /\ \A t \in Stations : overtaken[t] \subseteq overtaken'[t]
               /\ overtaken' = [t \in Stations |-> overtaken'[t]]
    BY <2>0, <2>5 DEF sendTest
  <2> QED
    BY <2>0, <2>1, <2>2, <2>3, <2>4, <2>5 DEF Next
<1> QED
  BY <1>3, <1>4 DEF FaultTypes

(* An ASDU is in hand only in SEND_CONFIRM and BUSY, and is noted when a   *)
(* test overtakes it.                                                      *)
LEMMA InHandOnlyWhileSentKept ==
  ASSUME TypeOK, PerStation, FaultTypes, InHandOnlyWhileSent, QueuesOK, [Next]_vars
  PROVE  InHandOnlyWhileSent'
<1>1. primaryState \in [Stations -> {"IDLE", "REQUEST_STATUS", "RESET_REMOTE_LINK",
                                     "LINK_LAYERS_AVAILABLE", "SEND_CONFIRM", "BUSY"}]
      /\ sendLinkLayerTestFunction \in [Stations -> BOOLEAN]
      /\ lastSendAsdu = [t \in Stations |-> lastSendAsdu[t]]
      /\ overtaken = [t \in Stations |-> overtaken[t]]
  BY DEF TypeOK, PerStation, FaultTypes
<1>2. \A t \in Stations : lastSendAsdu[t] # NoAsdu =>
        /\ primaryState[t] \in {"SEND_CONFIRM", "BUSY"}
        /\ sendLinkLayerTestFunction[t] => lastSendAsdu[t] \in overtaken[t]
  BY DEF InHandOnlyWhileSent
<1>3. ASSUME NEW s \in Stations, HandleMessage(s), NEW t \in Stations, lastSendAsdu'[t] # NoAsdu
      PROVE  /\ primaryState'[t] \in {"SEND_CONFIRM", "BUSY"}
             /\ sendLinkLayerTestFunction'[t] => lastSendAsdu'[t] \in overtaken'[t]
  BY <1>1, <1>2, <1>3 DEF HandleMessage, HandleFrame, HandleWrongFCB, HandleResetRemoteLink,
        HandleTestFunction,
        HandleUserDataConfirmed, HandleRequestLinkStatus, HandleDFC, HandleResetAck, HandleAck,
        HandleStrayAck, HandleNack, HandleIllegal, HandleStatusOfLink, HandleServiceNotImplemented,
        ForeignAnswer, primary, history, GiveUp
<1>4. ASSUME NEW s \in Stations, NEW t \in Stations, lastSendAsdu'[t] # NoAsdu,
             RunIdle(s) \/ RunTimeoutStatusOrReset(s) \/ RunSendTestFunction(s)
               \/ RunSendUserData(s) \/ RunRepeat(s) \/ RunGiveUp(s) \/ RunNothing(s)
      PROVE  /\ primaryState'[t] \in {"SEND_CONFIRM", "BUSY"}
             /\ sendLinkLayerTestFunction'[t] => lastSendAsdu'[t] \in overtaken'[t]
  BY <1>1, <1>2, <1>4 DEF RunIdle, RunTimeoutStatusOrReset, RunSendTestFunction, RunSendUserData,
       RunRepeat, RunGiveUp, RunNothing, primary, vars, GiveUp, history, TimeoutForAck
<1>5. ASSUME NEW s \in Stations, Lose(s) \/ sendTest(s) \/ (\E c \in Classes[s] : Enqueue(s, c)),
             NEW t \in Stations, lastSendAsdu'[t] # NoAsdu
      PROVE  /\ primaryState'[t] \in {"SEND_CONFIRM", "BUSY"}
             /\ sendLinkLayerTestFunction'[t] => lastSendAsdu'[t] \in overtaken'[t]
  BY <1>1, <1>2, <1>5 DEF Lose, sendTest, Enqueue, primary, history, InHand
<1>6. CASE UNCHANGED vars
  BY <1>2, <1>6 DEF vars, primary, history, InHandOnlyWhileSent
<1> QED
  BY <1>3, <1>4, <1>5, <1>6 DEF Next, RunStateMachine, InHandOnlyWhileSent

(* While no timer runs out early, a timer runs out only on an empty line.  *)
LEMMA PromptTimeout ==
  ASSUME TypeOK, FaultTypes, NEW s \in Stations, TimeoutForAck(s), faults.late = 0, faults'.late = 0
  PROVE  Nothing(s)
<1>1. ~Fault("late")
  BY FaultCounted
<1>2. quiet
  BY <1>1 DEF TimeoutForAck
<1>3. Peer(s) \in Stations
  BY TwoStations
<1> QED
  BY <1>2, <1>3 DEF quiet, Nothing, NoneOf

(* What is under way, for the station that takes the step. *)
LEMMA OneOutstandingOwn ==
  ASSUME TypeOK, PerStation, QueuesOK, HasWhatItSent, FaultTypes, NEW s \in Stations,
         OneOutstanding(s), faults.late = 0, faults'.late = 0,
         \/ HandleMessage(s) \/ RunStateMachine(s) \/ Lose(s) \/ sendTest(s)
         \/ \E c \in Classes[s] : Enqueue(s, c)
  PROVE  OneOutstanding(s)'
<1> DEFINE p == Peer(s)
           R == Requests(p)
           A == Answers(s)
<1>1. p \in Stations /\ p # s
  BY TwoStations
<1>2. line[p] \in Seq(Frames(p)) /\ line[s] \in Seq(Frames(s))
  BY <1>1 DEF TypeOK
<1>3. /\ AtMostOneOf(line[p], R) /\ AtMostOneOf(line[s], A)
      /\ NoneOf(line[p], R) \/ NoneOf(line[s], A)
      /\ hasTimeout(s) \/ (NoneOf(line[p], R) /\ NoneOf(line[s], A))
  BY DEF OneOutstanding, Nothing
<1>4. \A L : NoneOf(L, R) => AtMostOneOf(L, R)
  BY DEF NoneOf, AtMostOneOf
<1>5. \A L : NoneOf(L, A) => AtMostOneOf(L, A)
  BY DEF NoneOf, AtMostOneOf
<1> HIDE DEF p, R, A
<1> DEFINE Goal == /\ AtMostOneOf(line'[p], R) /\ AtMostOneOf(line'[s], A)
                   /\ NoneOf(line'[p], R) \/ NoneOf(line'[s], A)
                   /\ hasTimeout(s)' \/ (NoneOf(line'[p], R) /\ NoneOf(line'[s], A))
<1>6. SUFFICES Goal
  BY DEF OneOutstanding, Nothing, p, R, A, Requests, Answers
<1>7. CASE HandleMessage(s)
  <2>1. line[s] # <<>> /\ line'[s] = Tail(line[s]) /\ line[s][1] \in Frames(s)
    BY <1>7, HandleLine, ReadFrame
  <2>2. CASE line[s][1].prm
    <3>1. \/ line'[p] = line[p]
          \/ \E f \in Answers(p) : line'[p] = Append(line[p], f)
      BY <1>7, <2>2, HandleKinds DEF p
    <3>2. hasTimeout(s)' = hasTimeout(s)
      BY <1>7, <2>2, HandleKinds DEF primary, hasTimeout
    <3>3. \A f \in Answers(p) : f \in Frames(p) /\ f \notin R
      BY DEF Answers, R, Requests
    <3>4. /\ AtMostOneOf(line'[p], R) /\ (NoneOf(line[p], R) => NoneOf(line'[p], R))
      BY <1>2, <1>3, <3>1, <3>3, MoreOutside
    <3>5. /\ AtMostOneOf(line'[s], A) /\ (NoneOf(line[s], A) => NoneOf(line'[s], A))
      BY <1>2, <1>3, <2>1, TailOutstanding
    <3> QED
      BY <1>3, <3>2, <3>4, <3>5
  <2>3. CASE ~line[s][1].prm
    <3>1. line[s][1] \in A
      BY <2>1, <2>3 DEF A, Answers
    <3>2. NoneOf(line'[s], A) /\ NoneOf(line[p], R)
      BY <1>2, <1>3, <2>1, <3>1, TailOutstanding
    <3>3. \/ line'[p] = line[p]
          \/ \E f \in R : line'[p] = Append(line[p], f) /\ primaryState'[s] = "RESET_REMOTE_LINK"
      BY <1>7, <2>3, HandleKinds DEF p, R
    <3>4. CASE line'[p] = line[p]
      BY <1>4, <1>5, <3>2, <3>4
    <3>5. ASSUME NEW f \in R, line'[p] = Append(line[p], f), primaryState'[s] = "RESET_REMOTE_LINK"
          PROVE  Goal
      <4>1. AtMostOneOf(line'[p], R)
        BY <1>2, <3>2, <3>5, AppendOutstanding DEF R, Requests
      <4>2. hasTimeout(s)'
        BY <3>5 DEF hasTimeout
      <4> QED
        BY <1>5, <3>2, <4>1, <4>2
    <3> QED
      BY <3>3, <3>4, <3>5
  <2> QED
    BY <2>2, <2>3
<1>8. CASE Lose(s) \/ sendTest(s) \/ \E c \in Classes[s] : Enqueue(s, c)
  <2>1. /\ line'[p] = line[p]
        /\ line'[s] = line[s] \/ (line[s] # <<>> /\ line'[s] = Tail(line[s]))
    BY <1>8, EnvironmentLine DEF p
  <2>2. hasTimeout(s)' = hasTimeout(s)
    BY <1>8 DEF Lose, sendTest, Enqueue, primary, hasTimeout
  <2>3. AtMostOneOf(line'[s], A) /\ (NoneOf(line[s], A) => NoneOf(line'[s], A))
    BY <1>2, <1>3, <2>1, TailOutstanding
  <2> QED
    BY <1>3, <2>1, <2>2, <2>3
<1>9. CASE RunNothing(s)
  BY <1>3, <1>9 DEF RunNothing, vars, primary, hasTimeout
<1>10. CASE RunStateMachine(s) /\ ~RunNothing(s)
  <2>1. NoneOf(line[p], R) /\ NoneOf(line[s], A)
    <3>1. CASE TimeoutForAck(s)
      BY <3>1, PromptTimeout DEF Nothing, p, R, A
    <3>2. CASE RunIdle(s) \/ RunSendTestFunction(s) \/ RunSendUserData(s)
      <4>1. ~hasTimeout(s)
        BY <3>2 DEF RunIdle, RunSendTestFunction, RunSendUserData, hasTimeout
      <4> QED
        BY <1>3, <4>1
    <3> QED
      BY <1>10, <3>1, <3>2 DEF RunStateMachine, RunTimeoutStatusOrReset, RunRepeat, RunGiveUp
  <2>2. line'[s] = line[s]
    BY <1>10, RunLine
  <2>3. line'[p] = line[p] \/ \E f \in Frames(p) : line'[p] = Append(line[p], f)
    BY <1>10, RunLine DEF p
  <2>4. AtMostOneOf(line'[p], R)
    BY <1>2, <2>1, <2>3, OneMore
  <2>5. hasTimeout(s)' \/ line' = line
    BY <1>10 DEF RunStateMachine, RunIdle, RunTimeoutStatusOrReset, RunSendTestFunction,
       RunSendUserData, RunRepeat, RunGiveUp, hasTimeout, TypeOK
  <2> QED
    BY <1>5, <2>1, <2>2, <2>4, <2>5
<1> QED
  BY <1>7, <1>8, <1>9, <1>10

(* The state machine sends requests only. *)
LEMMA RunSendsRequests ==
  ASSUME TypeOK, PerStation, QueuesOK, HasWhatItSent, NEW s \in Stations, RunStateMachine(s)
  PROVE  \/ line'[Peer(s)] = line[Peer(s)]
         \/ \E f \in Frames(Peer(s)) : f.prm /\ line'[Peer(s)] = Append(line[Peer(s)], f)
<1> DEFINE p == Peer(s)
<1>1. p \in Stations /\ line[p] \in Seq(Frames(p))
  BY TwoStations DEF TypeOK
<1> HIDE DEF p
<1>2. \/ line' = line
      \/ \E f : f.prm /\ line' = [line EXCEPT ![Peer(s)] = Append(@, f)]
  BY DEF RunStateMachine, RunIdle, RunTimeoutStatusOrReset, RunSendTestFunction,
     RunSendUserData, RunRepeat, RunGiveUp, RunNothing, vars, Send, Fixed, UserData
<1>3. line'[p] = line[p] \/ \E f : f.prm /\ line'[p] = Append(line[p], f)
  BY <1>1, <1>2 DEF p, PerStation
<1>4. line'[p] = line[p] \/ \E f \in Frames(p) : line'[p] = Append(line[p], f)
  BY RunLine DEF p
<1>5. ASSUME NEW f, NEW g \in Frames(p), Append(line[p], f) = Append(line[p], g)
      PROVE  f = g
  <2>1. Append(line[p], f)[Len(line[p]) + 1] = f /\ Append(line[p], g)[Len(line[p]) + 1] = g
    BY <1>1
  <2> QED
    BY <1>5, <2>1
<1>6. line'[p] = line[p] \/ \E f \in Frames(p) : f.prm /\ line'[p] = Append(line[p], f)
  BY <1>3, <1>4, <1>5
<1> QED
  BY <1>6 DEF p

(* What is under way, for the other station. *)
LEMMA OneOutstandingPeer ==
  ASSUME TypeOK, PerStation, QueuesOK, HasWhatItSent, NEW s \in Stations,
         OneOutstanding(Peer(s)),
         \/ HandleMessage(s) \/ RunStateMachine(s) \/ Lose(s) \/ sendTest(s)
         \/ \E c \in Classes[s] : Enqueue(s, c)
  PROVE  OneOutstanding(Peer(s))'
<1> DEFINE p == Peer(s)
           R == Requests(s)
           A == Answers(p)
<1>1. p \in Stations /\ p # s /\ Peer(p) = s
  BY TwoStations
<1>2. line[p] \in Seq(Frames(p)) /\ line[s] \in Seq(Frames(s))
  BY <1>1 DEF TypeOK
<1>3. /\ AtMostOneOf(line[s], R) /\ AtMostOneOf(line[p], A)
      /\ NoneOf(line[s], R) \/ NoneOf(line[p], A)
      /\ hasTimeout(p) \/ (NoneOf(line[s], R) /\ NoneOf(line[p], A))
  BY <1>1 DEF OneOutstanding, Nothing
<1>4. hasTimeout(p)' = hasTimeout(p)
  BY <1>1, OtherStation DEF hasTimeout
<1> HIDE DEF p, R, A
<1> DEFINE Goal == /\ AtMostOneOf(line'[s], R) /\ AtMostOneOf(line'[p], A)
                   /\ NoneOf(line'[s], R) \/ NoneOf(line'[p], A)
                   /\ hasTimeout(p)' \/ (NoneOf(line'[s], R) /\ NoneOf(line'[p], A))
<1>6. SUFFICES Goal
  BY <1>1 DEF OneOutstanding, Nothing, p, R, A, Requests, Answers
<1>7. CASE HandleMessage(s)
  <2>1. line[s] # <<>> /\ line'[s] = Tail(line[s]) /\ line[s][1] \in Frames(s)
    BY <1>7, HandleLine, ReadFrame
  <2>2. CASE line[s][1].prm
    <3>1. \/ line'[p] = line[p]
          \/ \E f \in A : line'[p] = Append(line[p], f)
      BY <1>7, <2>2, HandleKinds DEF p, A
    <3>2. line[s][1] \in R
      BY <2>1, <2>2 DEF R, Requests
    <3>3. NoneOf(line'[s], R) /\ AtMostOneOf(line'[s], R) /\ ~NoneOf(line[s], R)
      BY <1>2, <1>3, <2>1, <3>2, TailOutstanding
    <3>4. AtMostOneOf(line'[p], A)
      BY <1>2, <1>3, <3>1, <3>3, OneMore DEF A, Answers
    <3> QED
      BY <1>3, <1>4, <3>3, <3>4
  <2>3. CASE ~line[s][1].prm
    <3>1. \/ line'[p] = line[p]
          \/ \E f \in Requests(p) : line'[p] = Append(line[p], f)
      BY <1>7, <2>3, HandleKinds DEF p
    <3>2. \A f \in Requests(p) : f \in Frames(p) /\ f \notin A
      BY DEF Requests, A, Answers
    <3>3. AtMostOneOf(line'[p], A) /\ (NoneOf(line[p], A) => NoneOf(line'[p], A))
      BY <1>2, <1>3, <3>1, <3>2, MoreOutside
    <3>4. AtMostOneOf(line'[s], R) /\ (NoneOf(line[s], R) => NoneOf(line'[s], R))
      BY <1>2, <1>3, <2>1, TailOutstanding
    <3> QED
      BY <1>3, <1>4, <3>3, <3>4
  <2> QED
    BY <2>2, <2>3
<1>8. CASE Lose(s) \/ sendTest(s) \/ \E c \in Classes[s] : Enqueue(s, c)
  <2>1. /\ line'[p] = line[p]
        /\ line'[s] = line[s] \/ (line[s] # <<>> /\ line'[s] = Tail(line[s]))
    BY <1>8, EnvironmentLine DEF p
  <2>3. AtMostOneOf(line'[s], R) /\ (NoneOf(line[s], R) => NoneOf(line'[s], R))
    BY <1>2, <1>3, <2>1, TailOutstanding
  <2> QED
    BY <1>3, <1>4, <2>1, <2>3
<1>9. CASE RunStateMachine(s)
  <2>1. line'[s] = line[s]
    BY <1>9, RunLine
  <2>2. line'[p] = line[p] \/ \E f \in Frames(p) : f.prm /\ line'[p] = Append(line[p], f)
    BY <1>9, RunSendsRequests DEF p
  <2>3. \A f \in Frames(p) : f.prm => f \notin A
    BY DEF A, Answers
  <2>4. AtMostOneOf(line'[p], A) /\ (NoneOf(line[p], A) => NoneOf(line'[p], A))
    BY <1>2, <1>3, <2>2, <2>3, MoreOutside
  <2> QED
    BY <1>3, <1>4, <2>1, <2>4
<1> QED
  BY <1>7, <1>8, <1>9

(* The user data just sent is what the station may repeat from now on. *)
LEMMA SentIsRepetition ==
  ASSUME TypeOK, PerStation, QueuesOK, NEW s \in Stations, RunSendUserData(s)
  PROVE  /\ line'[Peer(s)] = Append(line[Peer(s)], Repetition(s)')
         /\ Repetition(s)' \in Frames(Peer(s))
<1>1. Peer(s) \in Stations /\ Peer(s) # s
  BY TwoStations
<1>2. PICK a \in AsdusOf(s) :
        /\ a = Head(queue[s][classToSend(s)])
        /\ lastSendAsdu' = [lastSendAsdu EXCEPT ![s] = a]
  BY NewData
<1>3. nextFcb[s] \in BOOLEAN /\ nextFcb'[s] = ~nextFcb[s] /\ lastSendAsdu'[s] = a
  BY <1>2 DEF RunSendUserData, TypeOK, PerStation
<1>4. Repetition(s)' = UserData(nextFcb[s], a)
  BY <1>3 DEF Repetition, repeatedFcb, UserData
<1>5. line' = [line EXCEPT ![Peer(s)] = Append(line[Peer(s)], UserData(nextFcb[s], a))]
  BY <1>2 DEF RunSendUserData, Send
<1>6. line'[Peer(s)] = Append(line[Peer(s)], UserData(nextFcb[s], a))
  BY <1>1, <1>5 DEF PerStation
<1>7. UserData(nextFcb[s], a) \in Frames(Peer(s))
  BY <1>3, SentFrames
<1> QED
  BY <1>4, <1>6, <1>7

(* A step of a station keeps what is under way between its primary and     *)
(* the peer for its ASDU.                                                  *)
LEMMA AckFitsOwn ==
  ASSUME TypeOK, PerStation, QueuesOK, HasWhatItSent, NEW s \in Stations,
         OneOutstanding(s), AckFits(s),
         \/ HandleMessage(s) \/ RunStateMachine(s) \/ Lose(s) \/ sendTest(s)
         \/ \E c \in Classes[s] : Enqueue(s, c)
  PROVE  AckFits(s)'
<1> DEFINE p == Peer(s)
<1>1. p \in Stations /\ p # s
  BY TwoStations
<1>2. line[p] \in Seq(Frames(p)) /\ line[s] \in Seq(Frames(s))
  BY <1>1 DEF TypeOK
<1>3. delivered'[p] = delivered[p]
  BY <1>1, OtherStation
<1> HIDE DEF p
<1> SUFFICES ASSUME MayRepeat(s)'
             PROVE  /\ NoneOf(line'[p], Requests(p) \ {Repetition(s)'})
                    /\ WasDelivered(s, lastSendAsdu[s])' \/ NoneOf(line'[s], Acks(s))
  BY DEF AckFits, p, Requests, Acks
<1>4. CASE RunSendUserData(s)
  <2>1. ~hasTimeout(s)
    BY <1>4 DEF RunSendUserData, hasTimeout
  <2>2. NoneOf(line[p], Requests(p)) /\ NoneOf(line[s], Answers(s))
    BY <2>1 DEF OneOutstanding, Nothing, p
  <2>3. NoneOf(line[p], Requests(p) \ {Repetition(s)'}) /\ NoneOf(line[s], Acks(s))
    BY <2>2 DEF NoneOf, Acks, Answers, IsAck
  <2>4. line'[s] = line[s]
    BY <1>4, RunLine DEF RunStateMachine
  <2>5. line'[p] = Append(line[p], Repetition(s)') /\ Repetition(s)' \in Frames(p)
    BY <1>4, SentIsRepetition DEF p
  <2>6. NoneOf(line'[p], Requests(p) \ {Repetition(s)'})
    BY <1>2, <2>3, <2>5, MoreOutside
  <2> QED
    BY <2>3, <2>4, <2>6
<1>5. CASE ~RunSendUserData(s)
  <2>1. MayRepeat(s) /\ Repetition(s)' = Repetition(s)
    BY <1>5, RepetitionKept
  <2>2. lastSendAsdu'[s] = lastSendAsdu[s]
    BY <2>1 DEF Repetition, UserData
  <2>3. WasDelivered(s, lastSendAsdu[s])' <=> WasDelivered(s, lastSendAsdu[s])
    BY <1>3, <2>2 DEF WasDelivered, p
  <2>4. /\ NoneOf(line[p], Requests(p) \ {Repetition(s)})
        /\ WasDelivered(s, lastSendAsdu[s]) \/ NoneOf(line[s], Acks(s))
    BY <2>1 DEF AckFits, p
  <2>5. primaryState'[s] = "SEND_CONFIRM"
    BY DEF MayRepeat
  <2>6. line'[s] = line[s] \/ (line[s] # <<>> /\ line'[s] = Tail(line[s]))
    BY HandleLine, RunLine, EnvironmentLine
  <2>7. NoneOf(line[s], Acks(s)) => NoneOf(line'[s], Acks(s))
    BY <1>2, <2>6, TailOutstanding
  <2>8. \/ line'[p] = line[p]
        \/ \E f \in Frames(p) : f \notin Requests(p) \ {Repetition(s)} /\ line'[p] = Append(line[p], f)
    <3>1. CASE HandleMessage(s)
      <4>1. \/ line'[p] = line[p]
            \/ \E f \in Answers(p) : line'[p] = Append(line[p], f)
        BY <2>5, <3>1, HandleKinds DEF p
      <4> QED
        BY <4>1 DEF Answers, Requests
    <3>2. CASE RunStateMachine(s)
      <4>1. \/ line'[p] = line[p]
            \/ \E f \in Frames(p) : line'[p] = Append(line[p], f) /\ f = Repetition(s)
        BY <1>5, <3>2, RunLine DEF p
      <4> QED
        BY <4>1
    <3>3. CASE Lose(s) \/ sendTest(s) \/ \E c \in Classes[s] : Enqueue(s, c)
      BY <3>3, EnvironmentLine DEF p
    <3> QED
      BY <3>1, <3>2, <3>3
  <2>9. NoneOf(line'[p], Requests(p) \ {Repetition(s)})
    BY <1>2, <2>4, <2>8, MoreOutside
  <2> QED
    BY <2>1, <2>3, <2>4, <2>7, <2>9
<1> QED
  BY <1>4, <1>5

(* What was delivered stays delivered. *)
LEMMA DeliveredGrows ==
  ASSUME TypeOK, PerStation, [Next]_vars, NEW t \in Stations, NEW a, WasDelivered(t, a)
  PROVE  WasDelivered(t, a)'
<1>1. Peer(t) \in Stations
  BY TwoStations
<1>2. PICK n \in DOMAIN delivered[Peer(t)] : delivered[Peer(t)][n] = a
  BY DEF WasDelivered
<1>3. CASE UNCHANGED delivered
  BY <1>2, <1>3 DEF WasDelivered
<1>4. ASSUME NEW s \in Stations, HandleMessage(s), ~UNCHANGED delivered
      PROVE  WasDelivered(t, a)'
  <2>1. Data(line[s][1]) /\ line[s][1] \in Frames(s)
        /\ delivered' = [delivered EXCEPT ![s] = Append(@, line[s][1].asdu)]
    BY <1>4, ReadFrame
  <2>2. CASE s = Peer(t)
    <3> DEFINE D == delivered[s]
               x == line[s][1].asdu
    <3>1. D \in Seq(AsdusOf(Peer(s))) /\ x \in AsdusOf(Peer(s))
      BY <2>1, FrameType DEF TypeOK
    <3>2. delivered'[s] = Append(D, x)
      BY <2>1 DEF PerStation
    <3> HIDE DEF D, x
    <3>3. /\ Append(D, x) \in Seq(AsdusOf(Peer(s))) /\ Len(Append(D, x)) = Len(D) + 1
          /\ Len(D) \in Nat /\ \A i \in 1..Len(D) : Append(D, x)[i] = D[i]
      BY <3>1, AppendIndex
    <3>4. n \in 1..Len(D) /\ D[n] = a
      BY <1>2, <2>2, <3>1 DEF D
    <3>5. n \in 1..(Len(D) + 1) /\ DOMAIN Append(D, x) = 1..(Len(D) + 1)
      BY <3>3, <3>4
    <3> QED
      BY <2>2, <3>2, <3>3, <3>4, <3>5 DEF WasDelivered
  <2>3. CASE s # Peer(t)
    <3>1. delivered'[Peer(t)] = delivered[Peer(t)]
      BY <1>1, <2>1, <2>3 DEF PerStation
    <3> QED
      BY <1>2, <3>1 DEF WasDelivered
  <2> QED
    BY <2>2, <2>3
<1>5. (\E s \in Stations : HandleMessage(s)) \/ UNCHANGED delivered
  BY OnlyHandlersRead DEF Next, vars, history
<1> QED
  BY <1>3, <1>4, <1>5

(* So does a step of the peer: it acknowledges only the ASDU it has        *)
(* delivered.                                                              *)
LEMMA AckFitsPeer ==
  ASSUME TypeOK, PerStation, QueuesOK, HasWhatItSent, NEW s \in Stations, AckFits(Peer(s)),
         \/ HandleMessage(s) \/ RunStateMachine(s) \/ Lose(s) \/ sendTest(s)
         \/ \E c \in Classes[s] : Enqueue(s, c)
  PROVE  AckFits(Peer(s))'
<1> DEFINE p == Peer(s)
<1>1. p \in Stations /\ p # s /\ Peer(p) = s
  BY TwoStations
<1>2. line[p] \in Seq(Frames(p)) /\ line[s] \in Seq(Frames(s))
  BY <1>1 DEF TypeOK
<1>3. MayRepeat(p)' = MayRepeat(p) /\ Repetition(p)' = Repetition(p)
      /\ lastSendAsdu'[p] = lastSendAsdu[p]
  BY <1>1, OtherStation DEF MayRepeat, Repetition, repeatedFcb
<1> HIDE DEF p
<1>0. PICK a : a = lastSendAsdu[p]
  OBVIOUS
<1> SUFFICES ASSUME MayRepeat(p)
             PROVE  /\ NoneOf(line'[s], Requests(s) \ {Repetition(p)})
                    /\ WasDelivered(p, a)' \/ NoneOf(line'[p], Acks(p))
  BY <1>0, <1>1, <1>3 DEF AckFits, p, Requests, Acks, WasDelivered
<1>4. /\ NoneOf(line[s], Requests(s) \ {Repetition(p)})
      /\ WasDelivered(p, a) \/ NoneOf(line[p], Acks(p))
  BY <1>0, <1>1 DEF AckFits, p
<1>5. line'[s] = line[s] \/ (line[s] # <<>> /\ line'[s] = Tail(line[s]))
  BY HandleLine, RunLine, EnvironmentLine
<1>6. NoneOf(line'[s], Requests(s) \ {Repetition(p)})
  BY <1>2, <1>4, <1>5, TailOutstanding
<1>7. WasDelivered(p, a) => WasDelivered(p, a)'
  BY <1>1, DeliveredGrows DEF Next
<1>8. ASSUME ~WasDelivered(p, a)'
      PROVE  \/ line'[p] = line[p]
             \/ \E f \in Frames(p) : f \notin Acks(p) /\ line'[p] = Append(line[p], f)
  <2>1. CASE HandleMessage(s) /\ line[s][1].prm
    <3>1. \/ line'[p] = line[p]
          \/ \E f \in Answers(p) :
               /\ line'[p] = Append(line[p], f)
               /\ IsAck(f) =>
                    \/ line[s][1].fc \in {"RESET_REMOTE_LINK", "TEST_FUNCTION_FOR_LINK"}
                    \/ delivered'[s] = Append(delivered[s], line[s][1].asdu)
      BY <2>1, HandleKinds DEF p
    <3>2. line[s] # <<>> /\ line[s][1] \in Requests(s)
      BY <2>1, ReadFrame DEF Requests
    <3>3. line[s][1] = Repetition(p)
      BY <1>2, <1>4, <3>2, TailOutstanding
    <3>4. line[s][1].fc = "USER_DATA_CONFIRMED" /\ line[s][1].asdu = a
      BY <1>0, <3>3 DEF Repetition, UserData
    <3>5. ASSUME delivered'[s] = Append(delivered[s], line[s][1].asdu)
          PROVE  WasDelivered(p, a)'
      <4>1. delivered[s] \in Seq(AsdusOf(p)) /\ a \in AsdusOf(p)
        BY <1>0, <1>1, <3>3, InHandType DEF TypeOK, p, MayRepeat
      <4>2. /\ Append(delivered[s], a)[Len(delivered[s]) + 1] = a
            /\ Len(delivered[s]) + 1 \in DOMAIN Append(delivered[s], a)
        BY <4>1
      <4> QED
        BY <1>1, <3>4, <3>5, <4>2 DEF WasDelivered
    <3> QED
      BY <1>8, <3>1, <3>4, <3>5 DEF Answers, Acks
  <2>2. CASE HandleMessage(s) /\ ~line[s][1].prm
    <3>1. line'[p] = line[p] \/ \E f \in Requests(p) : line'[p] = Append(line[p], f)
      BY <2>2, HandleKinds DEF p
    <3> QED
      BY <3>1 DEF Requests, Acks, IsAck
  <2>3. CASE RunStateMachine(s)
    <3>1. line'[p] = line[p] \/ \E f \in Frames(p) : f.prm /\ line'[p] = Append(line[p], f)
      BY <2>3, RunSendsRequests DEF p
    <3> QED
      BY <3>1 DEF Acks, IsAck
  <2>4. CASE Lose(s) \/ sendTest(s) \/ \E c \in Classes[s] : Enqueue(s, c)
    BY <2>4, EnvironmentLine DEF p
  <2> QED
    BY <2>1, <2>2, <2>3, <2>4
<1>9. WasDelivered(p, a)' \/ NoneOf(line'[p], Acks(p))
  BY <1>2, <1>4, <1>7, <1>8, MoreOutside
<1> QED
  BY <1>6, <1>9

(* An ACK confirms only what was delivered, while no timer runs out        *)
(* early.                                                                  *)
LEMMA ConfirmedKept ==
  ASSUME TypeOK, PerStation, FaultTypes, InHandOnlyWhileSent, WhilePrompt, ConfirmedWasDelivered,
         [Next]_vars
  PROVE  ConfirmedWasDelivered'
<1> SUFFICES ASSUME faults'.late = 0, NEW t \in Stations, NEW a \in confirmed'[t] \ overtaken'[t]
             PROVE  WasDelivered(t, a)'
  BY DEF ConfirmedWasDelivered, WasDelivered
<1>1. faults.late = 0
  BY FaultsAddUp DEF FaultTypes
<1>2. overtaken[t] \subseteq overtaken'[t]
  BY FaultsAddUp
<1>3. CASE a \in confirmed[t]
  <2>1. WasDelivered(t, a)
    BY <1>1, <1>2, <1>3 DEF ConfirmedWasDelivered, WasDelivered
  <2> QED
    BY <2>1, DeliveredGrows
<1>4. ASSUME NEW s \in Stations, HandleMessage(s), a \notin confirmed[t]
      PROVE  WasDelivered(t, a)'
  <2>1. HandleAck(s) /\ IsAck(line[s][1])
    BY <1>4, HandleKinds
  <2>2. /\ confirmed' = [confirmed EXCEPT ![s] = @ \cup ({lastSendAsdu[s]} \ {NoAsdu})]
        /\ primaryState[s] = "SEND_CONFIRM"
    BY <2>1 DEF HandleAck
  <2>3. t = s /\ a = lastSendAsdu[s] /\ a # NoAsdu
    BY <1>4, <2>2 DEF PerStation
  <2>4. ~sendLinkLayerTestFunction[s]
    BY <1>2, <2>3 DEF InHandOnlyWhileSent
  <2>5. MayRepeat(s)
    BY <2>2, <2>3, <2>4 DEF MayRepeat
  <2>6. WasDelivered(s, a) \/ NoneOf(line[s], Acks(s))
    BY <1>1, <2>3, <2>5 DEF WhilePrompt, AckFits
  <2>7. line[s] \in Seq(Frames(s)) /\ line[s] # <<>> /\ line[s][1] \in Acks(s)
    BY <1>4, <2>1, ReadFrame DEF TypeOK, Acks
  <2>8. WasDelivered(s, a)
    BY <2>6, <2>7, TailOutstanding
  <2> QED
    BY <2>3, <2>8, DeliveredGrows
<1>5. (\E s \in Stations : HandleMessage(s)) \/ UNCHANGED confirmed
  <2>1. ASSUME NEW s \in Stations, RunStateMachine(s)
        PROVE  UNCHANGED confirmed
    BY <2>1 DEF RunStateMachine, RunIdle, RunTimeoutStatusOrReset, RunSendTestFunction,
       RunSendUserData, RunRepeat, RunGiveUp, RunNothing, vars, history
  <2>2. ASSUME NEW s \in Stations, Lose(s) \/ sendTest(s) \/ \E c \in Classes[s] : Enqueue(s, c)
        PROVE  UNCHANGED confirmed
    BY <2>2 DEF Lose, sendTest, Enqueue, history
  <2> QED
    BY <2>1, <2>2 DEF Next, vars, history
<1> QED
  BY <1>3, <1>4, <1>5

(* The invariant with the requests and answers under way holds initially. *)
LEMMA InitPInv == Init => PInv
<1> SUFFICES ASSUME Init PROVE PInv
  OBVIOUS
<1>1. FaultTypes /\ InHandOnlyWhileSent /\ ConfirmedWasDelivered
  BY DEF Init, FaultTypes, InHandOnlyWhileSent, ConfirmedWasDelivered
<1>2. \A s \in Stations : Peer(s) \in Stations
  BY TwoStations
<1>3. \A s \in Stations : OneOutstanding(s) /\ AckFits(s)
  BY <1>2 DEF Init, OneOutstanding, Nothing, AtMostOneOf, NoneOf, AckFits, MayRepeat
<1> QED
  BY <1>1, <1>3, InitIInv DEF PInv, WhilePrompt

(* Every step preserves the invariant with the requests and answers under  *)
(* way.                                                                    *)
LEMMA NextPInv == PInv /\ [Next]_vars => PInv'
<1> SUFFICES ASSUME PInv, [Next]_vars PROVE PInv'
  OBVIOUS
<1>1. /\ IInv /\ FaultTypes /\ InHandOnlyWhileSent /\ WhilePrompt /\ ConfirmedWasDelivered
      /\ TypeOK /\ PerStation /\ HasWhatItSent /\ QueuesOK
  BY DEF PInv, IInv
<1>2. IInv'
  BY <1>1, NextIInv
<1>3. FaultTypes' /\ InHandOnlyWhileSent' /\ ConfirmedWasDelivered'
  BY <1>1, FaultsAddUp, InHandOnlyWhileSentKept, ConfirmedKept
<1>4. ASSUME faults'.late = 0, NEW t \in Stations
      PROVE  OneOutstanding(t)' /\ AckFits(t)'
  <2>1. faults.late = 0
    BY <1>1, <1>4, FaultsAddUp DEF FaultTypes
  <2>2. \A x \in Stations : OneOutstanding(x) /\ AckFits(x)
    BY <1>1, <2>1 DEF WhilePrompt
  <2>3. CASE UNCHANGED vars
    BY <2>2, <2>3 DEF vars, primary, appl, history, OneOutstanding, Nothing, AckFits, MayRepeat,
       Repetition, repeatedFcb, hasTimeout, WasDelivered, Requests, Answers, Acks
  <2>4. ASSUME NEW s \in Stations,
               \/ HandleMessage(s) \/ RunStateMachine(s) \/ Lose(s) \/ sendTest(s)
               \/ \E c \in Classes[s] : Enqueue(s, c)
        PROVE  OneOutstanding(t)' /\ AckFits(t)'
    <3>1. Peer(s) \in Stations /\ (t = s \/ t = Peer(s))
      BY TwoStations
    <3>2. OneOutstanding(s)' /\ AckFits(s)'
      BY <1>1, <1>4, <2>1, <2>2, <2>4, OneOutstandingOwn, AckFitsOwn
    <3>3. OneOutstanding(Peer(s))' /\ AckFits(Peer(s))'
      BY <1>1, <2>2, <2>4, <3>1, OneOutstandingPeer, AckFitsPeer
    <3> QED
      BY <3>1, <3>2, <3>3
  <2> QED
    BY <2>3, <2>4 DEF Next
<1> QED
  BY <1>2, <1>3, <1>4 DEF PInv, WhilePrompt

(* Unless an answer came late, or a test was requested with the ASDU in    *)
(* hand, an ASDU that the primary saw acknowledged was delivered to the    *)
(* application of the peer.                                                *)
THEOREM ConfirmedDelivered == Spec => []ConfirmedWasDelivered
<1>1. PInv => ConfirmedWasDelivered
  BY DEF PInv
<1> QED
  BY <1>1, InitPInv, NextPInv, PTL DEF Spec
---------------------------------------------------------------------------
(* What is given up is reported.  An ASDU is given up where the user state *)
(* turns to ERROR, which it is not while an ASDU is in hand; or by an      *)
(* answer SERVICE_NOT_IMPLEMENTED, of which no more arrive than foreign    *)
(* secondaries have sent.                                                  *)
Refusal == Answer("SERVICE_NOT_IMPLEMENTED")

Indices(L, f) == {i \in 1..Len(L) : L[i] = f}

CountTypes ==
  /\ errors \in [Stations -> Nat]
  /\ \A s \in Stations : IsFiniteSet(abandoned[s])

NoErrorWhileUp ==
  \A s \in Stations :
    primaryState[s] \in {"LINK_LAYERS_AVAILABLE", "SEND_CONFIRM", "BUSY"} => state[s] # "ERROR"

RefusalsCounted ==
  \A s \in Stations :
    Cardinality(abandoned[s]) + Cardinality(Indices(line[s], Refusal))
      <= errors[s] + faults.foreign

RInv == IInv /\ FaultTypes /\ CountTypes /\ NoErrorWhileUp /\ RefusalsCounted

(* The places of a frame in a line are finitely many. *)
LEMMA IndicesFinite ==
  ASSUME NEW T, NEW L \in Seq(T), NEW f
  PROVE  IsFiniteSet(Indices(L, f)) /\ Cardinality(Indices(L, f)) \in Nat
<1>1. Len(L) \in Nat /\ IsFiniteSet(1..Len(L))
  BY FS_Interval
<1>2. Indices(L, f) \in SUBSET (1..Len(L))
  BY DEF Indices
<1>3. IsFiniteSet(Indices(L, f))
  BY <1>1, <1>2, FS_Subset
<1> QED
  BY <1>3, FS_CardinalityType

(* Taking the first frame off leaves at most the places of the others.     *)
LEMMA TailIndices ==
  ASSUME NEW T, NEW L \in Seq(T), L # <<>>, NEW f
  PROVE  /\ Cardinality(Indices(Tail(L), f)) <= Cardinality(Indices(L, f))
         /\ L[1] = f => Cardinality(Indices(Tail(L), f)) <= Cardinality(Indices(L, f)) - 1
<1> DEFINE M == Tail(L)
           S == Indices(M, f)
           U == Indices(L, f) \ {1}
           g == [i \in S |-> i + 1]
<1>1. /\ Len(M) = Len(L) - 1 /\ Len(L) \in Nat \ {0}
      /\ \A i \in 1..Len(M) : M[i] = L[i + 1]
      /\ M \in Seq(T)
  BY TailIndex
<1>2. /\ IsFiniteSet(Indices(L, f)) /\ Cardinality(Indices(L, f)) \in Nat
      /\ IsFiniteSet(S) /\ Cardinality(S) \in Nat
  BY <1>1, IndicesFinite
<1> HIDE DEF M
<1>3. ASSUME NEW i \in S
      PROVE  i \in Nat /\ i + 1 \in U
  BY <1>1 DEF Indices
<1>4. g \in [S -> U]
  BY <1>3
<1>5. ASSUME NEW i \in S, NEW j \in S, g[i] = g[j]
      PROVE  i = j
  BY <1>3, <1>5
<1>6. g \in Injection(S, U)
  BY <1>4, <1>5 DEF Injection, IsInjective
<1>7. /\ IsFiniteSet(U)
      /\ Cardinality(U) = IF 1 \in Indices(L, f) THEN Cardinality(Indices(L, f)) - 1
                          ELSE Cardinality(Indices(L, f))
  BY <1>2, FS_RemoveElement
<1> HIDE DEF S, U, g
<1>8. Cardinality(S) <= Cardinality(U)
  BY <1>6, <1>7, FS_Injection
<1>9. L[1] = f => 1 \in Indices(L, f)
  BY <1>1 DEF Indices
<1>10. /\ Cardinality(S) <= Cardinality(Indices(L, f))
       /\ L[1] = f => Cardinality(S) <= Cardinality(Indices(L, f)) - 1
  BY <1>2, <1>7, <1>8, <1>9
<1> QED
  BY <1>10 DEF S, M

(* One more element makes a finite set larger by at most one. *)
LEMMA OneMoreElement ==
  ASSUME NEW S, IsFiniteSet(S), NEW x
  PROVE  /\ IsFiniteSet(S \cup {x}) /\ Cardinality(S) \in Nat
         /\ Cardinality(S \cup {x}) \in Nat /\ Cardinality(S \cup {x}) <= Cardinality(S) + 1
<1>1. /\ IsFiniteSet(S \cup {x}) /\ Cardinality(S) \in Nat
      /\ Cardinality(S \cup {x}) = IF x \in S THEN Cardinality(S) ELSE Cardinality(S) + 1
  BY FS_AddElement, FS_CardinalityType
<1> QED
  BY <1>1

(* Appending a frame adds at most its own place. *)
LEMMA AppendIndices ==
  ASSUME NEW T, NEW L \in Seq(T), NEW g \in T, NEW f
  PROVE  Cardinality(Indices(Append(L, g), f))
           <= Cardinality(Indices(L, f)) + (IF g = f THEN 1 ELSE 0)
<1> DEFINE M == Append(L, g)
<1>1. /\ Len(M) = Len(L) + 1 /\ Len(L) \in Nat
      /\ \A i \in 1..Len(L) : M[i] = L[i]
      /\ M[Len(L) + 1] = g
  BY AppendIndex
<1>2. IsFiniteSet(Indices(L, f)) /\ Cardinality(Indices(L, f)) \in Nat
  BY IndicesFinite
<1> HIDE DEF M
<1>3. Indices(M, f) = IF g = f THEN Indices(L, f) \cup {Len(L) + 1} ELSE Indices(L, f)
  <2>1. ASSUME NEW i
        PROVE  i \in Indices(M, f)
                 <=> i \in Indices(L, f) \/ (g = f /\ i = Len(L) + 1)
    <3>1. i \in 1..Len(M) <=> i \in 1..Len(L) \/ i = Len(L) + 1
      BY <1>1
    <3> QED
      BY <1>1, <3>1 DEF Indices
  <2> QED
    BY <2>1
<1>4. Cardinality(Indices(L, f) \cup {Len(L) + 1}) <= Cardinality(Indices(L, f)) + 1
  BY <1>2, OneMoreElement
<1>5. g = f => Cardinality(Indices(M, f)) <= Cardinality(Indices(L, f)) + 1
  BY <1>3, <1>4
<1>6. g # f => Cardinality(Indices(M, f)) <= Cardinality(Indices(L, f)) + 0
  BY <1>2, <1>3
<1> QED
  BY <1>5, <1>6 DEF M

(* An answer is made of its function code and its DFC bit. *)
LEMMA AnswerType ==
  ASSUME NEW p \in Stations, NEW f \in Frames(p), ~f.prm
  PROVE  /\ ~f.dfc => f = Answer(f.fc)
         /\ f.dfc => f.fc = "ACK" /\ f \in ForeignAnswers
         /\ f.fc \in {"ACK", "STATUS_OF_LINK", "NACK", "RESP_USER_DATA", "SERVICE_NOT_IMPLEMENTED"}
         /\ f \in {Answer("ACK"), Answer("STATUS_OF_LINK")} \cup ForeignAnswers
<1>1. f \in {Answer("ACK"), Answer("STATUS_OF_LINK")} \cup ForeignAnswers
  BY DEF Frames, Fixed, UserData
<1> QED
  BY <1>1 DEF Answer, ForeignAnswers

(* What is given up, and how the user learns of it. *)
LEMMA GiveUpSteps ==
  ASSUME TypeOK, PerStation, CountTypes, NEW s \in Stations,
         \/ HandleMessage(s) \/ RunStateMachine(s) \/ Lose(s) \/ sendTest(s)
         \/ \E c \in Classes[s] : Enqueue(s, c)
  PROVE  /\ errors' \in [Stations -> Nat] /\ errors'[s] >= errors[s]
         /\ \/ abandoned'[s] = abandoned[s]
            \/ /\ abandoned'[s] = abandoned[s] \cup {lastSendAsdu[s]} /\ InHand(s)
               /\ state[s] # "ERROR" => errors'[s] = errors[s] + 1
            \/ /\ abandoned'[s] = abandoned[s] \cup {lastSendAsdu[s]} /\ InHand(s)
               /\ line[s] # <<>> /\ line[s][1] = Refusal /\ line'[s] = Tail(line[s])
         /\ \A t \in Stations : t # s => abandoned'[t] = abandoned[t] /\ errors'[t] = errors[t]
<1>1. /\ abandoned = [t \in Stations |-> abandoned[t]] /\ errors \in [Stations -> Nat]
      /\ line = [t \in Stations |-> line[t]]
      /\ state \in [Stations -> {"IDLE", "ERROR", "BUSY", "AVAILABLE"}]
  BY DEF PerStation, CountTypes, TypeOK
<1> DEFINE Same == abandoned' = abandoned
           Gone == abandoned' = [abandoned EXCEPT ![s] = IF InHand(s) THEN @ \cup {lastSendAsdu[s]} ELSE @]
           Told(new) == errors' = [errors EXCEPT ![s] = IF new = "ERROR" /\ state[s] /= "ERROR" THEN @ + 1 ELSE @]
<1>2. (errors' = errors \/ \E new : Told(new)) =>
        /\ errors' \in [Stations -> Nat] /\ errors'[s] >= errors[s]
        /\ \A t \in Stations : t # s => errors'[t] = errors[t]
  BY <1>1
<1>3. Gone => /\ \/ abandoned'[s] = abandoned[s]
                 \/ abandoned'[s] = abandoned[s] \cup {lastSendAsdu[s]} /\ InHand(s)
              /\ \A t \in Stations : t # s => abandoned'[t] = abandoned[t]
  BY <1>1
<1>4. Told("ERROR") /\ state[s] # "ERROR" => errors'[s] = errors[s] + 1
  BY <1>1
<1>5. CASE \/ HandleWrongFCB(s) \/ HandleResetRemoteLink(s) \/ HandleTestFunction(s)
           \/ HandleUserDataConfirmed(s) \/ HandleRequestLinkStatus(s) \/ ForeignAnswer(s)
           \/ HandleDFC(s) \/ HandleResetAck(s) \/ HandleAck(s) \/ HandleStrayAck(s)
           \/ HandleNack(s) \/ HandleStatusOfLink(s)
  <2>1. Same /\ (errors' = errors \/ \E new : Told(new))
    BY <1>5 DEF HandleWrongFCB, HandleResetRemoteLink, HandleTestFunction, HandleUserDataConfirmed,
       HandleRequestLinkStatus, ForeignAnswer, HandleDFC, HandleResetAck, HandleAck, HandleStrayAck,
       HandleNack, HandleStatusOfLink, history, setNewState
  <2> QED
    BY <1>2, <2>1
<1>6. CASE HandleIllegal(s) \/ RunGiveUp(s)
  <2>1. Gone /\ Told("ERROR")
    BY <1>6 DEF HandleIllegal, RunGiveUp, GiveUp, setNewState
  <2> QED
    BY <1>2, <1>3, <1>4, <2>1
<1>7. CASE HandleServiceNotImplemented(s) /\ HandleMessage(s)
  <2>1. (Gone /\ Told("AVAILABLE")) \/ (Same /\ errors' = errors)
    BY <1>7 DEF HandleServiceNotImplemented, GiveUp, setNewState
  <2>2. /\ line[s] # <<>> /\ Head(line[s]) = line[s][1] /\ line[s][1] \in Frames(s)
        /\ line'[s] = Tail(line[s])
    BY <1>7, ReadFrame, HandleLine
  <2>3. ~line[s][1].prm /\ ~line[s][1].dfc /\ line[s][1].fc = "SERVICE_NOT_IMPLEMENTED"
    BY <1>7, <2>2 DEF HandleServiceNotImplemented, IsAnswer
  <2>4. line[s][1] = Refusal
    BY <2>2, <2>3, AnswerType DEF Refusal
  <2> QED
    BY <1>2, <1>3, <2>1, <2>2, <2>4
<1>8. CASE \/ RunIdle(s) \/ RunTimeoutStatusOrReset(s) \/ RunSendTestFunction(s)
           \/ RunSendUserData(s) \/ RunRepeat(s) \/ RunNothing(s)
  <2>1. Same /\ (errors' = errors \/ \E new : Told(new))
    BY <1>8 DEF RunIdle, RunTimeoutStatusOrReset, RunSendTestFunction, RunSendUserData, RunRepeat,
       RunNothing, vars, history, setNewState
  <2> QED
    BY <1>2, <2>1
<1>9. CASE Lose(s) \/ sendTest(s) \/ \E c \in Classes[s] : Enqueue(s, c)
  <2>1. Same /\ errors' = errors
    BY <1>9 DEF Lose, sendTest, Enqueue, history
  <2> QED
    BY <1>2, <2>1
<1> QED
  BY <1>5, <1>6, <1>7, <1>8, <1>9 DEF HandleMessage, HandleFrame, RunStateMachine

(* A fault leaves the counts of the other kinds alone. *)
LEMMA FaultKinds ==
  ASSUME FaultTypes, NEW k \in {"lost", "late", "test", "foreign"}, Fault(k)
  PROVE  /\ faults' \in [lost : Nat, late : Nat, test : Nat, foreign : Nat]
         /\ faults'.lost = faults.lost + (IF k = "lost" THEN 1 ELSE 0)
         /\ faults'.late = faults.late + (IF k = "late" THEN 1 ELSE 0)
         /\ faults'.foreign = faults.foreign + (IF k = "foreign" THEN 1 ELSE 0)
         /\ faults.lost \in Nat /\ faults.late \in Nat /\ faults.foreign \in Nat
BY DEF FaultTypes, Fault

(* Only the secondary of another vendor sends a foreign answer, and each   *)
(* step counts what it does to the line as a fault.                        *)
LEMMA HandleFaults ==
  ASSUME FaultTypes, NEW s \in Stations, HandleMessage(s)
  PROVE  /\ faults.lost \in Nat /\ faults.foreign \in Nat /\ faults'.foreign \in Nat
         /\ faults'.lost = faults.lost /\ faults'.late = faults.late
         /\ faults'.foreign >= faults.foreign
         /\ ForeignAnswer(s) => faults'.foreign = faults.foreign + 1
<1>1. faults.lost \in Nat /\ faults.late \in Nat /\ faults.foreign \in Nat
  BY DEF FaultTypes
<1>2. UNCHANGED faults \/ Fault("foreign")
  BY DEF HandleMessage, HandleFrame, HandleWrongFCB, HandleResetRemoteLink,
     HandleTestFunction, HandleUserDataConfirmed, HandleRequestLinkStatus, HandleDFC,
     HandleResetAck, HandleAck, HandleStrayAck, HandleNack, HandleIllegal, HandleStatusOfLink,
     HandleServiceNotImplemented, ForeignAnswer
<1>3. ForeignAnswer(s) => Fault("foreign")
  BY DEF ForeignAnswer
<1>4. Fault("foreign") => /\ faults'.lost = faults.lost + 0 /\ faults'.late = faults.late + 0
                          /\ faults'.foreign = faults.foreign + 1
  BY FaultKinds
<1> QED
  BY <1>1, <1>2, <1>3, <1>4

(* A run of the state machine loses no frame and answers none.            *)
LEMMA RunFaults ==
  ASSUME FaultTypes, NEW s \in Stations, RunStateMachine(s)
  PROVE  faults'.lost = faults.lost /\ faults'.foreign = faults.foreign
<1>1. faults.lost \in Nat /\ faults.foreign \in Nat
  BY DEF FaultTypes
<1>2. UNCHANGED faults \/ Fault("late")
  BY DEF RunStateMachine, RunIdle, RunTimeoutStatusOrReset, RunSendTestFunction,
     RunSendUserData, RunRepeat, RunGiveUp, RunNothing, TimeoutForAck, vars
<1>3. Fault("late") => faults'.lost = faults.lost + 0 /\ faults'.foreign = faults.foreign + 0
  BY FaultKinds
<1> QED
  BY <1>1, <1>2, <1>3

(* A lost frame is counted; a test and a new ASDU lose none.               *)
LEMMA EnvironmentFaults ==
  ASSUME FaultTypes, NEW s \in Stations
  PROVE  /\ Lose(s) => faults'.lost = faults.lost + 1 /\ faults'.foreign = faults.foreign
         /\ sendTest(s) \/ (\E c \in Classes[s] : Enqueue(s, c)) =>
              faults'.lost = faults.lost /\ faults'.foreign = faults.foreign
<1>1. faults.lost \in Nat /\ faults.foreign \in Nat
  BY DEF FaultTypes
<1>2. Lose(s) => Fault("lost")
  BY DEF Lose
<1>3. sendTest(s) \/ (\E c \in Classes[s] : Enqueue(s, c)) => Fault("test") \/ UNCHANGED faults
  BY DEF sendTest, Enqueue
<1>4. /\ Fault("lost") => faults'.lost = faults.lost + 1 /\ faults'.foreign = faults.foreign + 0
      /\ Fault("test") => faults'.lost = faults.lost + 0 /\ faults'.foreign = faults.foreign + 0
  BY FaultKinds
<1> QED
  BY <1>1, <1>2, <1>3, <1>4

(* How the secondary of s handles the request r of its peer p.             *)
Replied(s, p, r) ==
  \/ /\ line'[p] = line[p] /\ UNCHANGED <<expectedFcb, delivered>>
     /\ r.fcv /\ r.fcb # expectedFcb[s]
  \/ /\ line'[p] = Append(line[p], Answer("ACK")) /\ UNCHANGED delivered
     /\ r.fc = "RESET_REMOTE_LINK" /\ expectedFcb'[s] = TRUE
  \/ /\ line'[p] = Append(line[p], Answer("ACK")) /\ UNCHANGED delivered
     /\ r.fc = "TEST_FUNCTION_FOR_LINK"
     /\ r.fcv => r.fcb = expectedFcb[s] /\ expectedFcb'[s] = ~expectedFcb[s]
  \/ /\ line'[p] = Append(line[p], Answer("ACK"))
     /\ delivered'[s] = Append(delivered[s], r.asdu)
     /\ r.fc = "USER_DATA_CONFIRMED"
     /\ r.fcv => r.fcb = expectedFcb[s] /\ expectedFcb'[s] = ~expectedFcb[s]
  \/ /\ line'[p] = Append(line[p], Answer("STATUS_OF_LINK"))
     /\ UNCHANGED <<expectedFcb, delivered>> /\ r.fc = "REQUEST_LINK_STATUS"
  \/ /\ \E f \in ForeignAnswers : line'[p] = Append(line[p], f)
     /\ UNCHANGED <<expectedFcb, delivered>> /\ ForeignAnswer(s)

(* What the secondary of s does with the request it reads. *)
LEMMA SecondaryAnswers ==
  ASSUME TypeOK, PerStation, NEW s \in Stations, HandleMessage(s), line[s][1].prm,
         NEW r, r = line[s][1], NEW p, p = Peer(s)
  PROVE  UNCHANGED <<primary, abandoned, errors>> /\ Replied(s, p, r)
<1>1. p \in Stations /\ p # s
  BY TwoStations
<1>2. /\ line = [t \in Stations |-> line[t]] /\ delivered = [t \in Stations |-> delivered[t]]
      /\ expectedFcb \in [Stations -> BOOLEAN]
  BY DEF PerStation, TypeOK
<1>3. line[s] # <<>> /\ Head(line[s]) = r
  BY ReadFrame
<1> DEFINE Silent == line' = [line EXCEPT ![s] = Tail(line[s])]
           Answered(f) == line' = [line EXCEPT ![s] = Tail(line[s]),
                                       ![p] = Append(line[p], f)]
<1>4. (Silent => line'[p] = line[p]) /\ \A f : Answered(f) => line'[p] = Append(line[p], f)
  BY <1>1, <1>2
<1> HIDE DEF Silent, Answered
<1>5. CASE HandleWrongFCB(s)
  <2>1. Silent /\ UNCHANGED <<primary, abandoned, errors, expectedFcb, delivered>>
        /\ ~(r.fcv => r.fcb = expectedFcb[s])
    BY <1>3, <1>5 DEF HandleWrongFCB, TakeSilently, checkFCB, history, Silent
  <2> QED
    BY <1>4, <2>1 DEF Replied
<1>6. CASE HandleResetRemoteLink(s)
  <2>1. Answered(Answer("ACK")) /\ UNCHANGED <<primary, abandoned, errors, delivered>>
        /\ r.fc = "RESET_REMOTE_LINK" /\ expectedFcb' = [expectedFcb EXCEPT ![s] = TRUE]
    BY <1>3, <1>6 DEF HandleResetRemoteLink, TakeAndSend, history, Answered
  <2>2. expectedFcb'[s] = TRUE
    BY <1>2, <2>1
  <2> QED
    BY <1>4, <2>1, <2>2 DEF Replied
<1>7. CASE HandleTestFunction(s)
  <2>1. Answered(Answer("ACK")) /\ UNCHANGED <<primary, abandoned, errors, delivered>>
        /\ r.fc = "TEST_FUNCTION_FOR_LINK" /\ (r.fcv => r.fcb = expectedFcb[s])
        /\ expectedFcb' = [expectedFcb EXCEPT ![s] = fcbToggled(s, r)]
    BY <1>3, <1>7 DEF HandleTestFunction, TakeAndSend, history, Answered, checkFCB
  <2>2. r.fcv => expectedFcb'[s] = ~expectedFcb[s]
    BY <1>2, <2>1 DEF fcbToggled
  <2> QED
    BY <1>4, <2>1, <2>2 DEF Replied
<1>8. CASE HandleUserDataConfirmed(s)
  <2>1. Answered(Answer("ACK")) /\ UNCHANGED <<primary, abandoned, errors>>
        /\ r.fc = "USER_DATA_CONFIRMED" /\ (r.fcv => r.fcb = expectedFcb[s])
        /\ expectedFcb' = [expectedFcb EXCEPT ![s] = fcbToggled(s, r)]
        /\ delivered' = [delivered EXCEPT ![s] = Append(@, r.asdu)]
    BY <1>3, <1>8 DEF HandleUserDataConfirmed, TakeAndSend, history, Answered, checkFCB
  <2>2. r.fcv => expectedFcb'[s] = ~expectedFcb[s]
    BY <1>2, <2>1 DEF fcbToggled
  <2>3. delivered'[s] = Append(delivered[s], r.asdu)
    BY <1>2, <2>1
  <2> QED
    BY <1>4, <2>1, <2>2, <2>3 DEF Replied
<1>9. CASE HandleRequestLinkStatus(s)
  <2>1. Answered(Answer("STATUS_OF_LINK"))
        /\ UNCHANGED <<primary, abandoned, errors, expectedFcb, delivered>>
        /\ r.fc = "REQUEST_LINK_STATUS"
    BY <1>3, <1>9 DEF HandleRequestLinkStatus, TakeAndSend, history, Answered
  <2> QED
    BY <1>4, <2>1 DEF Replied
<1>10. CASE ForeignAnswer(s)
  <2>1. (\E f \in ForeignAnswers : Answered(f))
        /\ UNCHANGED <<primary, abandoned, errors, expectedFcb, delivered>>
    BY <1>3, <1>10 DEF ForeignAnswer, TakeAndSend, history, Answered
  <2> QED
    BY <1>4, <1>10, <2>1 DEF Replied
<1>11. CASE \/ HandleDFC(s) \/ HandleResetAck(s) \/ HandleAck(s) \/ HandleStrayAck(s)
            \/ HandleNack(s) \/ HandleIllegal(s) \/ HandleStatusOfLink(s)
            \/ HandleServiceNotImplemented(s)
  BY <1>3, <1>11 DEF HandleDFC, HandleResetAck, HandleAck, HandleStrayAck, HandleNack,
     HandleIllegal, HandleStatusOfLink, HandleServiceNotImplemented, IsAnswer
<1> QED
  BY <1>5, <1>6, <1>7, <1>8, <1>9, <1>10, <1>11 DEF HandleMessage, HandleFrame

(* The primary of s that reads an answer sends at most the link reset. *)
LEMMA PrimaryReads ==
  ASSUME TypeOK, PerStation, NEW s \in Stations, HandleMessage(s), ~line[s][1].prm,
         NEW p, p = Peer(s)
  PROVE  /\ UNCHANGED <<expectedFcb, delivered>>
         /\ \/ line'[p] = line[p] /\ ~HandleStatusOfLink(s)
            \/ /\ HandleStatusOfLink(s)
               /\ line'[p] = Append(line[p], Fixed("RESET_REMOTE_LINK", FALSE, FALSE))
<1>1. p \in Stations /\ p # s
  BY TwoStations
<1>2. line = [t \in Stations |-> line[t]]
  BY DEF PerStation
<1>3. line[s] # <<>> /\ Head(line[s]) = line[s][1]
  BY ReadFrame
<1>4. CASE HandleStatusOfLink(s)
  <2>1. line' = [line EXCEPT ![s] = Tail(line[s]),
                     ![p] = Append(line[p], Fixed("RESET_REMOTE_LINK", FALSE, FALSE))]
        /\ UNCHANGED <<expectedFcb, delivered>>
    BY <1>4 DEF HandleStatusOfLink, TakeAndSend
  <2>2. line'[p] = Append(line[p], Fixed("RESET_REMOTE_LINK", FALSE, FALSE))
    BY <1>1, <1>2, <2>1
  <2> QED
    BY <1>4, <2>1, <2>2
<1>5. CASE ~HandleStatusOfLink(s)
           /\ (\/ HandleDFC(s) \/ HandleResetAck(s) \/ HandleAck(s) \/ HandleStrayAck(s)
               \/ HandleNack(s) \/ HandleIllegal(s) \/ HandleServiceNotImplemented(s))
  <2>1. line' = [line EXCEPT ![s] = Tail(line[s])] /\ UNCHANGED <<expectedFcb, delivered>>
    BY <1>5 DEF HandleDFC, HandleResetAck, HandleAck, HandleStrayAck, HandleNack, HandleIllegal,
       HandleServiceNotImplemented, IsAnswer, TakeSilently, history
  <2>2. line'[p] = line[p]
    BY <1>1, <1>2, <2>1
  <2> QED
    BY <1>5, <2>1, <2>2
<1>6. CASE \/ HandleWrongFCB(s) \/ HandleResetRemoteLink(s) \/ HandleTestFunction(s)
           \/ HandleUserDataConfirmed(s) \/ HandleRequestLinkStatus(s) \/ ForeignAnswer(s)
  BY <1>3, <1>6 DEF HandleWrongFCB, HandleResetRemoteLink, HandleTestFunction,
     HandleUserDataConfirmed, HandleRequestLinkStatus, ForeignAnswer
<1> QED
  BY <1>4, <1>5, <1>6 DEF HandleMessage, HandleFrame

(* The user state is not ERROR while the primary has the link, waits for   *)
(* an acknowledgement or finds the secondary busy.                         *)
LEMMA NoErrorWhileUpKept ==
  ASSUME TypeOK, NoErrorWhileUp, [Next]_vars
  PROVE  NoErrorWhileUp'
<1> DEFINE Up == {"LINK_LAYERS_AVAILABLE", "SEND_CONFIRM", "BUSY"}
           Kept(t) == primaryState'[t] \in Up => state'[t] # "ERROR"
<1>1. /\ primaryState \in [Stations -> {"IDLE", "REQUEST_STATUS", "RESET_REMOTE_LINK",
                                        "LINK_LAYERS_AVAILABLE", "SEND_CONFIRM", "BUSY"}]
      /\ state \in [Stations -> {"IDLE", "ERROR", "BUSY", "AVAILABLE"}]
  BY DEF TypeOK
<1>2. \A t \in Stations : primaryState[t] \in Up => state[t] # "ERROR"
  BY DEF NoErrorWhileUp
<1>3. ASSUME NEW s \in Stations, HandleMessage(s), NEW t \in Stations
      PROVE  Kept(t)
  BY <1>1, <1>2, <1>3 DEF HandleMessage, HandleFrame, HandleWrongFCB, HandleResetRemoteLink,
     HandleTestFunction, HandleUserDataConfirmed, HandleRequestLinkStatus, HandleDFC,
     HandleResetAck, HandleAck, HandleStrayAck, HandleNack, HandleIllegal, HandleStatusOfLink,
     HandleServiceNotImplemented, ForeignAnswer, primary, setNewState
<1>4. ASSUME NEW s \in Stations, RunStateMachine(s), NEW t \in Stations
      PROVE  Kept(t)
  BY <1>1, <1>2, <1>4 DEF RunStateMachine, RunIdle, RunTimeoutStatusOrReset, RunSendTestFunction,
     RunSendUserData, RunRepeat, RunGiveUp, RunNothing, primary, vars, setNewState
<1>5. ASSUME NEW s \in Stations, Lose(s) \/ sendTest(s) \/ (\E c \in Classes[s] : Enqueue(s, c)),
             NEW t \in Stations
      PROVE  Kept(t)
  BY <1>2, <1>5 DEF Lose, sendTest, Enqueue, primary
<1>6. CASE UNCHANGED vars
  BY <1>2, <1>6 DEF vars, primary, NoErrorWhileUp
<1> QED
  BY <1>3, <1>4, <1>5, <1>6 DEF Next, NoErrorWhileUp

(* What the station that takes the step gave up is paid for. *)
LEMMA RefusalsCountedOwn ==
  ASSUME TypeOK, PerStation, HasWhatItSent, QueuesOK, FaultTypes, CountTypes, NoErrorWhileUp,
         RefusalsCounted, NEW s \in Stations,
         \/ HandleMessage(s) \/ RunStateMachine(s) \/ Lose(s) \/ sendTest(s)
         \/ \E c \in Classes[s] : Enqueue(s, c)
  PROVE  /\ IsFiniteSet(abandoned'[s])
         /\ Cardinality(abandoned'[s]) + Cardinality(Indices(line'[s], Refusal))
              <= errors'[s] + faults'.foreign
<1> DEFINE F == Frames(s)
           a == Cardinality(abandoned[s])
           r == Cardinality(Indices(line[s], Refusal))
           rr == Cardinality(Indices(line'[s], Refusal))
<1>1. line[s] \in Seq(F) /\ IsFiniteSet(abandoned[s]) /\ errors[s] \in Nat
  BY DEF TypeOK, CountTypes
<1>2. line'[s] = line[s] \/ (line[s] # <<>> /\ line'[s] = Tail(line[s]))
  BY HandleLine, RunLine, EnvironmentLine
<1>3. line'[s] \in Seq(F)
  BY <1>1, <1>2, TailIndex
<1> HIDE DEF F
<1>4. /\ a \in Nat /\ r \in Nat /\ rr \in Nat
      /\ IsFiniteSet(abandoned[s] \cup {lastSendAsdu[s]})
      /\ Cardinality(abandoned[s] \cup {lastSendAsdu[s]}) \in Nat
      /\ Cardinality(abandoned[s] \cup {lastSendAsdu[s]}) <= a + 1
  BY <1>1, <1>3, OneMoreElement, IndicesFinite
<1>5. rr <= r
  BY <1>1, <1>2, <1>4, TailIndices
<1>6. a + r <= errors[s] + faults.foreign
  BY DEF RefusalsCounted
<1>7. faults.foreign \in Nat /\ faults'.foreign \in Nat /\ faults'.foreign >= faults.foreign
  <2>1. faults.foreign \in Nat
    BY DEF FaultTypes
  <2>2. faults'.foreign \in Nat /\ faults'.foreign >= faults.foreign
    BY <2>1, HandleFaults, RunFaults, EnvironmentFaults
  <2> QED
    BY <2>1, <2>2
<1>8. /\ errors'[s] \in Nat /\ errors'[s] >= errors[s]
      /\ \/ abandoned'[s] = abandoned[s]
         \/ /\ abandoned'[s] = abandoned[s] \cup {lastSendAsdu[s]} /\ InHand(s)
            /\ state[s] # "ERROR" => errors'[s] = errors[s] + 1
         \/ /\ abandoned'[s] = abandoned[s] \cup {lastSendAsdu[s]}
            /\ line[s] # <<>> /\ line[s][1] = Refusal /\ line'[s] = Tail(line[s])
  BY GiveUpSteps
<1>9. CASE abandoned'[s] = abandoned[s]
  <2>1. a + rr <= errors'[s] + faults'.foreign
    BY <1>1, <1>4, <1>5, <1>6, <1>7, <1>8
  <2> QED
    BY <1>1, <1>9, <2>1
<1>10. CASE /\ abandoned'[s] = abandoned[s] \cup {lastSendAsdu[s]} /\ InHand(s)
            /\ state[s] # "ERROR" => errors'[s] = errors[s] + 1
  <2>1. errors'[s] = errors[s] + 1
    BY <1>10 DEF InHand, NoErrorWhileUp
  <2>2. a + 1 + rr <= errors'[s] + faults'.foreign
    BY <1>1, <1>4, <1>5, <1>6, <1>7, <2>1
  <2> HIDE DEF a, rr
  <2>3. Cardinality(abandoned'[s]) <= a + 1 /\ Cardinality(abandoned'[s]) \in Nat
    BY <1>4, <1>10
  <2>4. Cardinality(abandoned'[s]) + rr <= errors'[s] + faults'.foreign
    BY <1>4, <1>7, <1>8, <2>2, <2>3
  <2> QED
    BY <1>4, <1>10, <2>4 DEF rr
<1>11. CASE /\ abandoned'[s] = abandoned[s] \cup {lastSendAsdu[s]}
            /\ line[s] # <<>> /\ line[s][1] = Refusal /\ line'[s] = Tail(line[s])
  <2>1. rr <= r - 1
    BY <1>1, <1>11, TailIndices
  <2>2. a + 1 + rr <= errors'[s] + faults'.foreign
    BY <1>1, <1>4, <1>6, <1>7, <1>8, <2>1
  <2> HIDE DEF a, rr
  <2>3. Cardinality(abandoned'[s]) <= a + 1 /\ Cardinality(abandoned'[s]) \in Nat
    BY <1>4, <1>11
  <2>4. Cardinality(abandoned'[s]) + rr <= errors'[s] + faults'.foreign
    BY <1>4, <1>7, <1>8, <2>2, <2>3
  <2> QED
    BY <1>4, <1>11, <2>4 DEF rr
<1> QED
  BY <1>8, <1>9, <1>10, <1>11

(* A refusal on its way to the other station is paid for by the foreign    *)
(* answer it is.                                                           *)
LEMMA RefusalsCountedPeer ==
  ASSUME TypeOK, PerStation, HasWhatItSent, QueuesOK, FaultTypes, CountTypes,
         RefusalsCounted, NEW s \in Stations, NEW p, p = Peer(s),
         \/ HandleMessage(s) \/ RunStateMachine(s) \/ Lose(s) \/ sendTest(s)
         \/ \E c \in Classes[s] : Enqueue(s, c)
  PROVE  /\ IsFiniteSet(abandoned'[p])
         /\ Cardinality(abandoned'[p]) + Cardinality(Indices(line'[p], Refusal))
              <= errors'[p] + faults'.foreign
<1> DEFINE F == Frames(p)
           a == Cardinality(abandoned[p])
           r == Cardinality(Indices(line[p], Refusal))
           rr == Cardinality(Indices(line'[p], Refusal))
<1>1. p \in Stations /\ p # s
  BY TwoStations
<1>2. /\ line[p] \in Seq(F) /\ IsFiniteSet(abandoned[p]) /\ errors[p] \in Nat
      /\ faults.foreign \in Nat
  BY <1>1 DEF TypeOK, CountTypes, FaultTypes
<1>3. abandoned'[p] = abandoned[p] /\ errors'[p] = errors[p]
  BY <1>1, GiveUpSteps
<1>4. a + r <= errors[p] + faults.foreign
  BY <1>1 DEF RefusalsCounted
<1>5. a \in Nat /\ r \in Nat
  BY <1>2, FS_CardinalityType, IndicesFinite
<1>6. faults'.foreign \in Nat /\ faults'.foreign >= faults.foreign
  BY <1>2, HandleFaults, RunFaults, EnvironmentFaults
<1>7. \/ line'[p] = line[p]
      \/ \E f \in F : f # Refusal /\ line'[p] = Append(line[p], f)
      \/ \E f \in F : line'[p] = Append(line[p], f) /\ faults'.foreign = faults.foreign + 1
  <2>1. CASE HandleMessage(s) /\ line[s][1].prm
    <3>1. /\ Answer("ACK") \in F /\ Answer("STATUS_OF_LINK") \in F /\ ForeignAnswers \subseteq F
          /\ Answer("ACK") # Refusal /\ Answer("STATUS_OF_LINK") # Refusal
      BY SentFrames DEF Answer, Refusal
    <3>2. ForeignAnswer(s) => faults'.foreign = faults.foreign + 1
      BY <2>1, HandleFaults
    <3>3. \/ line'[p] = line[p]
          \/ line'[p] = Append(line[p], Answer("ACK"))
          \/ line'[p] = Append(line[p], Answer("STATUS_OF_LINK"))
          \/ (\E f \in ForeignAnswers : line'[p] = Append(line[p], f)) /\ ForeignAnswer(s)
      BY <2>1, SecondaryAnswers DEF Replied
    <3> HIDE DEF F
    <3> QED
      BY <3>1, <3>2, <3>3
  <2>2. CASE HandleMessage(s) /\ ~line[s][1].prm
    <3>1. /\ Fixed("RESET_REMOTE_LINK", FALSE, FALSE) \in F
          /\ Fixed("RESET_REMOTE_LINK", FALSE, FALSE) # Refusal
      <4>1. Fixed("RESET_REMOTE_LINK", FALSE, FALSE) \in F
        BY SentFrames
      <4>2. Fixed("RESET_REMOTE_LINK", FALSE, FALSE).prm # Refusal.prm
        BY DEF Fixed, Answer, Refusal
      <4> QED
        BY <4>1, <4>2
    <3> HIDE DEF F
    <3> QED
      BY <2>2, <3>1, PrimaryReads
  <2>3. CASE RunStateMachine(s)
    <3>1. ~Refusal.prm
      BY DEF Refusal, Answer
    <3> QED
      BY <2>3, <3>1, RunSendsRequests
  <2>4. CASE Lose(s) \/ sendTest(s) \/ \E c \in Classes[s] : Enqueue(s, c)
    BY <2>4, EnvironmentLine
  <2> QED
    BY <2>1, <2>2, <2>3, <2>4
<1> HIDE DEF F
<1>8. CASE line'[p] = line[p]
  BY <1>2, <1>3, <1>4, <1>5, <1>6, <1>8
<1>9. ASSUME NEW f \in F, line'[p] = Append(line[p], f),
             f # Refusal \/ faults'.foreign = faults.foreign + 1
      PROVE  a + rr <= errors[p] + faults'.foreign
  <2>1. rr <= r + (IF f = Refusal THEN 1 ELSE 0)
    BY <1>2, <1>9, AppendIndices
  <2>2. Append(line[p], f) \in Seq(F)
    BY <1>2
  <2>3. rr \in Nat
    BY <1>9, <2>2, IndicesFinite
  <2> HIDE DEF a, r, rr
  <2> QED
    BY <1>2, <1>4, <1>5, <1>6, <1>9, <2>1, <2>3
<1> QED
  BY <1>2, <1>3, <1>7, <1>8, <1>9

(* The first states satisfy the invariant. *)
LEMMA InitRInv == Init => RInv
<1> SUFFICES ASSUME Init PROVE RInv
  OBVIOUS
<1>1. IInv /\ FaultTypes
  BY InitPInv DEF PInv
<1>2. CountTypes /\ NoErrorWhileUp
  BY FS_EmptySet DEF Init, CountTypes, NoErrorWhileUp
<1>3. ASSUME NEW s \in Stations
      PROVE  Cardinality(abandoned[s]) + Cardinality(Indices(line[s], Refusal))
               <= errors[s] + faults.foreign
  <2>1. abandoned[s] = {} /\ Indices(line[s], Refusal) = {} /\ errors[s] = 0 /\ faults.foreign = 0
    BY DEF Init, Indices
  <2> QED
    BY <2>1, FS_EmptySet
<1> QED
  BY <1>1, <1>2, <1>3 DEF RInv, RefusalsCounted

(* Every step preserves the invariant about what was given up. *)
LEMMA NextRInv == RInv /\ [Next]_vars => RInv'
<1> SUFFICES ASSUME RInv, [Next]_vars PROVE RInv'
  OBVIOUS
<1>1. /\ IInv /\ FaultTypes /\ CountTypes /\ NoErrorWhileUp /\ RefusalsCounted
      /\ TypeOK /\ PerStation /\ HasWhatItSent /\ QueuesOK
  BY DEF RInv, IInv
<1>2. IInv' /\ FaultTypes' /\ NoErrorWhileUp'
  BY <1>1, NextIInv, FaultsAddUp, NoErrorWhileUpKept
<1>3. CASE UNCHANGED vars
  <2>1. CountTypes' /\ RefusalsCounted'
    BY <1>1, <1>3 DEF vars, history, CountTypes, RefusalsCounted
  <2> QED
    BY <1>2, <2>1 DEF RInv
<1>4. ASSUME NEW s \in Stations,
             \/ HandleMessage(s) \/ RunStateMachine(s) \/ Lose(s) \/ sendTest(s)
             \/ \E c \in Classes[s] : Enqueue(s, c)
      PROVE  CountTypes' /\ RefusalsCounted'
  <2> DEFINE Counted(t) == /\ IsFiniteSet(abandoned'[t])
                        /\ Cardinality(abandoned'[t]) + Cardinality(Indices(line'[t], Refusal))
                             <= errors'[t] + faults'.foreign
  <2>1. Counted(s)
    BY <1>1, <1>4, RefusalsCountedOwn
  <2>2. Counted(Peer(s))
    BY <1>1, <1>4, RefusalsCountedPeer
  <2>3. errors' \in [Stations -> Nat]
    BY <1>1, <1>4, GiveUpSteps
  <2>4. \A t \in Stations : Counted(t)
    BY <2>1, <2>2, TwoStations
  <2> QED
    BY <2>3, <2>4 DEF CountTypes, RefusalsCounted, Refusal
<1> QED
  BY <1>2, <1>3, <1>4 DEF Next, RInv

(* An ASDU that the primary gives up is reported to the user as a change   *)
(* to LL_STATE_ERROR, but for one per foreign answer: nothing else loses   *)
(* user data silently, whatever is lost, late or tested.                   *)
THEOREM LossesReported == Spec => []LossReported
<1>1. RInv => LossReported
  <2> SUFFICES ASSUME RInv, NEW s \in Stations
               PROVE  Cardinality(abandoned[s]) <= errors[s] + faults.foreign
    BY DEF LossReported
  <2>1. Cardinality(abandoned[s]) + Cardinality(Indices(line[s], Refusal))
          <= errors[s] + faults.foreign
    BY DEF RInv, RefusalsCounted
  <2>2. /\ Cardinality(abandoned[s]) \in Nat /\ errors[s] \in Nat /\ faults.foreign \in Nat
        /\ line[s] \in Seq(Frames(s))
    BY FS_CardinalityType DEF RInv, IInv, CountTypes, FaultTypes, TypeOK
  <2>3. Cardinality(Indices(line[s], Refusal)) \in Nat
    BY <2>2, IndicesFinite
  <2> QED
    BY <2>1, <2>2, <2>3
<1> QED
  BY <1>1, InitRInv, NextRInv, PTL DEF Spec

---------------------------------------------------------------------------
(* What the faults cost.  While no timer runs out early, each primary has  *)
(* at most one frame under way, its request or the answer to it.  Debt is  *)
(* what a primary will still lose although no further fault happens: what  *)
(* the faults have cost and will cost together is bounded by the faults.   *)
Those(L, K) == {L[i] : i \in 1..Len(L)} \cap K

UnderWay(s) ==
  Those(line[Peer(s)], Requests(Peer(s))) \cup Those(line[s], Answers(s))

LinkStatusRequest == Fixed("REQUEST_LINK_STATUS", FALSE, FALSE)
LinkReset == Fixed("RESET_REMOTE_LINK", FALSE, FALSE)
TestFrame(s) == Fixed("TEST_FUNCTION_FOR_LINK", repeatedFcb(s), TRUE)

(* The frame under way is the request of the primary's state or its        *)
(* answer; an ACK says what the secondary expects next; and a test frame   *)
(* stands for user data only after these have been lost.                   *)
Fits(s) ==
  /\ primaryState[s] = "REQUEST_STATUS" =>
       UnderWay(s) \subseteq {LinkStatusRequest, Answer("STATUS_OF_LINK")} \cup ForeignAnswers
  /\ primaryState[s] = "RESET_REMOTE_LINK" =>
       /\ UnderWay(s) \subseteq {LinkReset, Answer("ACK")} \cup ForeignAnswers
       /\ Answer("ACK") \in UnderWay(s) => expectedFcb[Peer(s)] = TRUE
  /\ primaryState[s] = "SEND_CONFIRM" =>
       /\ UnderWay(s) \subseteq {TestFrame(s), Repetition(s), Answer("ACK")} \cup ForeignAnswers
       /\ Answer("ACK") \in UnderWay(s) => expectedFcb[Peer(s)] = nextFcb[s]
       /\ TestFrame(s) \in UnderWay(s) /\ lastSendAsdu[s] # NoAsdu => repeats[s] >= 1

(* The ASDU in hand, if the peer does not have it yet.                     *)
Held(s) ==
  IF lastSendAsdu[s] # NoAsdu /\ ~WasDelivered(s, lastSendAsdu[s]) THEN 1 ELSE 0

(* After a link reset the secondary expects FCB 1.                         *)
AfterReset(s) == IF nextFcb[s] THEN 0 ELSE 1

Smaller(a, b) == IF a <= b THEN a ELSE b

InStep(s) == nextFcb[s] = expectedFcb[Peer(s)]

(* In step, what was sent has been accepted, or is the repetition of what  *)
(* was: without an ACK it is given up.  Out of step it will be accepted,   *)
(* unless it is lost so often that it is given up.                         *)
DebtWhileSent(s) ==
  IF UnderWay(s) \cap ForeignAnswers # {} THEN 3
  ELSE IF InStep(s)
       THEN Held(s) + (IF Answer("ACK") \in UnderWay(s) THEN 0 ELSE AfterReset(s))
       ELSE Smaller(repeats[s] + (IF UnderWay(s) = {} THEN 1 ELSE 0), Held(s) + AfterReset(s))

Debt(s) ==
  IF primaryState[s] = "SEND_CONFIRM" THEN DebtWhileSent(s)
  ELSE IF primaryState[s] = "LINK_LAYERS_AVAILABLE"
       THEN IF InStep(s) THEN 0 ELSE IF nextFcb[s] THEN 2 ELSE 1
  ELSE IF primaryState[s] = "BUSY" THEN 0
  ELSE AfterReset(s)

Paid(s) ==
  Cardinality(undelivered(s)) + Debt(s) <= faults.lost + 3 * faults.foreign

WhilePromptPaid == faults.late = 0 => \A s \in Stations : Fits(s) /\ Paid(s)

DInv == PInv /\ CountTypes /\ WhilePromptPaid

(* No frame of a kind is none. *)
LEMMA ThoseNone ==
  ASSUME NEW L, NEW K, NoneOf(L, K)
  PROVE  Those(L, K) = {}
BY DEF NoneOf, Those

(* The frames of a kind after one frame was taken. *)
LEMMA ThoseTail ==
  ASSUME NEW T, NEW L \in Seq(T), L # <<>>, NEW K
  PROVE  /\ L[1] \notin K => Those(Tail(L), K) = Those(L, K)
         /\ L[1] \in K /\ AtMostOneOf(L, K) => Those(L, K) = {L[1]} /\ Those(Tail(L), K) = {}
         /\ Those(Tail(L), K) \subseteq Those(L, K)
<1> DEFINE M == Tail(L)
<1>1. /\ Len(M) = Len(L) - 1 /\ Len(L) \in Nat \ {0}
      /\ \A i \in 1..Len(M) : M[i] = L[i + 1]
  BY TailIndex
<1> HIDE DEF M
<1>2. 1 \in 1..Len(L) /\ \A i \in 1..Len(M) : i + 1 \in 1..Len(L) /\ i + 1 # 1
  BY <1>1
<1>3. \A i \in 1..Len(L) : i = 1 \/ (i - 1 \in 1..Len(M) /\ (i - 1) + 1 = i)
  BY <1>1
<1>4. Those(M, K) \subseteq Those(L, K)
  BY <1>1, <1>2 DEF Those
<1>5. L[1] \notin K => Those(L, K) \subseteq Those(M, K)
  <2> SUFFICES ASSUME L[1] \notin K, NEW i \in 1..Len(L), L[i] \in K
               PROVE  L[i] \in Those(M, K)
    BY DEF Those
  <2>1. i # 1
    OBVIOUS
  <2>2. PICK j \in 1..Len(M) : j = i - 1 /\ j + 1 = i
    BY <1>3, <2>1
  <2>3. M[j] = L[i]
    BY <1>1, <2>2
  <2> QED
    BY <2>2, <2>3 DEF Those
<1>6. L[1] \in K /\ AtMostOneOf(L, K) => Those(L, K) = {L[1]} /\ Those(M, K) = {}
  BY <1>1, <1>2 DEF AtMostOneOf, Those
<1> QED
  BY <1>4, <1>5, <1>6 DEF M

(* The frames of a kind after one was appended. *)
LEMMA ThoseAppend ==
  ASSUME NEW T, NEW L \in Seq(T), NEW f \in T, NEW K
  PROVE  Those(Append(L, f), K) = Those(L, K) \cup ({f} \cap K)
<1> DEFINE M == Append(L, f)
<1>1. /\ Len(M) = Len(L) + 1 /\ Len(L) \in Nat
      /\ \A i \in 1..Len(L) : M[i] = L[i]
      /\ M[Len(L) + 1] = f
  BY AppendIndex
<1> HIDE DEF M
<1>2. \A i : i \in 1..Len(M) <=> i \in 1..Len(L) \/ i = Len(L) + 1
  BY <1>1
<1>3. Those(M, K) \subseteq Those(L, K) \cup ({f} \cap K)
  BY <1>1, <1>2 DEF Those
<1>4. Those(L, K) \subseteq Those(M, K)
  BY <1>1, <1>2 DEF Those
<1>5. {f} \cap K \subseteq Those(M, K)
  BY <1>1, <1>2 DEF Those
<1> QED
  BY <1>3, <1>4, <1>5 DEF M

(* At most one frame is under way, and none unless a timer limits the wait *)
(* for it.                                                                 *)
LEMMA UnderWayOne ==
  ASSUME TypeOK, NEW s \in Stations, OneOutstanding(s)
  PROVE  /\ \A f, g \in UnderWay(s) : f = g
         /\ Nothing(s) => UnderWay(s) = {}
         /\ ~hasTimeout(s) => UnderWay(s) = {}
<1>1. Nothing(s) => UnderWay(s) = {}
  BY ThoseNone DEF Nothing, UnderWay
<1>2. \A L, K : AtMostOneOf(L, K) => \A f, g \in Those(L, K) : f = g
  BY DEF AtMostOneOf, Those
<1>3. \A f, g \in UnderWay(s) : f = g
  <2> DEFINE A == Those(line[Peer(s)], Requests(Peer(s)))
             B == Those(line[s], Answers(s))
  <2>1. (\A f, g \in A : f = g) /\ (\A f, g \in B : f = g)
    BY <1>2 DEF OneOutstanding
  <2>2. A = {} \/ B = {}
    BY ThoseNone DEF OneOutstanding
  <2>3. UnderWay(s) = A \cup B
    BY DEF UnderWay
  <2> HIDE DEF A, B
  <2> QED
    BY <2>1, <2>2, <2>3
<1> QED
  BY <1>1, <1>3 DEF OneOutstanding

(* What is under way for the primary of s, when s reads a request.         *)
LEMMA UnderWayRequestRead ==
  ASSUME TypeOK, PerStation, NEW s \in Stations, OneOutstanding(s), OneOutstanding(Peer(s)),
         HandleMessage(s), line[s][1].prm, NEW p, p = Peer(s)
  PROVE  /\ UnderWay(s)' = UnderWay(s)
         /\ UnderWay(p) = {line[s][1]}
         /\ line'[p] = line[p] => UnderWay(p)' = {}
         /\ \A f \in Answers(p) : line'[p] = Append(line[p], f) => UnderWay(p)' = {f}
<1>1. p \in Stations /\ p # s /\ Peer(p) = s
  BY TwoStations
<1>2. line[p] \in Seq(Frames(p)) /\ line[s] \in Seq(Frames(s))
  BY <1>1 DEF TypeOK
<1>3. line[s] # <<>> /\ line'[s] = Tail(line[s]) /\ line[s][1] \in Frames(s)
  BY HandleLine, ReadFrame
<1>4. line[s][1] \in Requests(s) /\ line[s][1] \notin Answers(s)
  BY <1>3 DEF Requests, Answers
<1>5. line'[p] = line[p] \/ \E f \in Answers(p) : line'[p] = Append(line[p], f)
  BY HandleKinds
<1>6. \A f \in Answers(p) : f \in Frames(p) /\ f \notin Requests(p)
  BY DEF Answers, Requests
<1>7. AtMostOneOf(line[s], Requests(s)) /\ ~NoneOf(line[s], Requests(s))
  BY <1>1, <1>2, <1>3, <1>4, TailOutstanding DEF OneOutstanding
<1>8. NoneOf(line[p], Answers(p))
  BY <1>1, <1>7 DEF OneOutstanding
<1>9. Those(line'[s], Answers(s)) = Those(line[s], Answers(s))
  BY <1>2, <1>3, <1>4, ThoseTail
<1>10. Those(line'[p], Requests(p)) = Those(line[p], Requests(p))
  <2>1. ASSUME NEW f \in Answers(p), line'[p] = Append(line[p], f)
        PROVE  Those(line'[p], Requests(p)) = Those(line[p], Requests(p))
    <3>1. Those(Append(line[p], f), Requests(p)) = Those(line[p], Requests(p)) \cup ({f} \cap Requests(p))
      BY <1>2, <1>6, ThoseAppend
    <3> QED
      BY <1>6, <2>1, <3>1
  <2> QED
    BY <1>5, <2>1
<1>11. UnderWay(s)' = UnderWay(s)
  BY <1>9, <1>10 DEF UnderWay, Requests, Answers
<1>12. Those(line[s], Requests(s)) = {line[s][1]} /\ Those(line'[s], Requests(s)) = {}
  BY <1>2, <1>3, <1>4, <1>7, ThoseTail
<1>13. Those(line[p], Answers(p)) = {}
  BY <1>8, ThoseNone
<1>14. \A f \in Answers(p) : line'[p] = Append(line[p], f) => Those(line'[p], Answers(p)) = {f}
  <2> SUFFICES ASSUME NEW f \in Answers(p), line'[p] = Append(line[p], f)
               PROVE  Those(line'[p], Answers(p)) = {f}
    OBVIOUS
  <2>1. Those(Append(line[p], f), Answers(p)) = Those(line[p], Answers(p)) \cup ({f} \cap Answers(p))
    BY <1>2, <1>6, ThoseAppend
  <2> QED
    BY <1>13, <2>1
<1>15. /\ UnderWay(p) = Those(line[s], Requests(s)) \cup Those(line[p], Answers(p))
       /\ UnderWay(p)' = Those(line'[s], Requests(s)) \cup Those(line'[p], Answers(p))
  BY <1>1 DEF UnderWay, Requests, Answers
<1> QED
  BY <1>11, <1>12, <1>13, <1>14, <1>15

(* What is under way when s reads an answer. *)
LEMMA UnderWayAnswerRead ==
  ASSUME TypeOK, PerStation, NEW s \in Stations, OneOutstanding(s), OneOutstanding(Peer(s)),
         HandleMessage(s), ~line[s][1].prm, NEW p, p = Peer(s)
  PROVE  /\ UnderWay(p)' = UnderWay(p)
         /\ UnderWay(s) = {line[s][1]}
         /\ ~HandleStatusOfLink(s) => UnderWay(s)' = {}
         /\ HandleStatusOfLink(s) => UnderWay(s)' = {LinkReset}
<1>1. p \in Stations /\ p # s /\ Peer(p) = s
  BY TwoStations
<1>2. line[p] \in Seq(Frames(p)) /\ line[s] \in Seq(Frames(s))
  BY <1>1 DEF TypeOK
<1>3. line[s] # <<>> /\ line'[s] = Tail(line[s]) /\ line[s][1] \in Frames(s)
  BY HandleLine, ReadFrame
<1>4. line[s][1] \in Answers(s) /\ line[s][1] \notin Requests(s)
  BY <1>3 DEF Requests, Answers
<1>5. \/ line'[p] = line[p] /\ ~HandleStatusOfLink(s)
      \/ HandleStatusOfLink(s) /\ line'[p] = Append(line[p], LinkReset)
  BY PrimaryReads DEF LinkReset
<1>6. LinkReset \in Frames(p) /\ LinkReset \in Requests(p) /\ LinkReset \notin Answers(p)
  <2>1. LinkReset \in Frames(p)
    BY SentFrames DEF LinkReset
  <2>2. LinkReset.prm
    BY DEF LinkReset, Fixed
  <2> QED
    BY <2>1, <2>2 DEF Requests, Answers
<1>7. AtMostOneOf(line[s], Answers(s)) /\ ~NoneOf(line[s], Answers(s))
  BY <1>2, <1>3, <1>4, TailOutstanding DEF OneOutstanding
<1>8. NoneOf(line[p], Requests(p))
  BY <1>7 DEF OneOutstanding
<1>9. Those(line'[s], Requests(s)) = Those(line[s], Requests(s))
  BY <1>2, <1>3, <1>4, ThoseTail
<1>10. /\ Those(Append(line[p], LinkReset), Answers(p)) = Those(line[p], Answers(p))
       /\ Those(Append(line[p], LinkReset), Requests(p)) = {LinkReset}
  <2>1. /\ Those(Append(line[p], LinkReset), Answers(p))
             = Those(line[p], Answers(p)) \cup ({LinkReset} \cap Answers(p))
        /\ Those(Append(line[p], LinkReset), Requests(p))
             = Those(line[p], Requests(p)) \cup ({LinkReset} \cap Requests(p))
    BY <1>2, <1>6, ThoseAppend
  <2>2. Those(line[p], Requests(p)) = {}
    BY <1>8, ThoseNone
  <2> QED
    BY <1>6, <2>1, <2>2
<1>11. UnderWay(p)' = UnderWay(p)
  <2>1. Those(line'[p], Answers(p)) = Those(line[p], Answers(p))
    BY <1>5, <1>10
  <2> QED
    BY <1>1, <1>9, <2>1 DEF UnderWay, Requests, Answers
<1>12. Those(line[s], Answers(s)) = {line[s][1]} /\ Those(line'[s], Answers(s)) = {}
  BY <1>2, <1>3, <1>4, <1>7, ThoseTail
<1>13. Those(line[p], Requests(p)) = {}
  BY <1>8, ThoseNone
<1>14. /\ UnderWay(s) = Those(line[p], Requests(p)) \cup Those(line[s], Answers(s))
       /\ UnderWay(s)' = Those(line'[p], Requests(p)) \cup Those(line'[s], Answers(s))
  BY <1>1 DEF UnderWay, Requests, Answers
<1> QED
  BY <1>5, <1>10, <1>11, <1>12, <1>13, <1>14

(* What is under way when a frame is lost, a test is requested or an ASDU  *)
(* enqueued.                                                               *)
LEMMA UnderWayEnvironment ==
  ASSUME TypeOK, PerStation, NEW s \in Stations,
         Lose(s) \/ sendTest(s) \/ (\E c \in Classes[s] : Enqueue(s, c)),
         NEW t \in Stations
  PROVE  /\ UnderWay(t)' \subseteq UnderWay(t)
         /\ ~Lose(s) => UnderWay(t)' = UnderWay(t)
<1>1. /\ Peer(s) \in Stations /\ Peer(s) # s /\ Peer(Peer(s)) = s /\ (t = s \/ t = Peer(s))
      /\ Peer(t) \in Stations
  BY TwoStations
<1>2. line[s] \in Seq(Frames(s))
  BY DEF TypeOK
<1>3. \/ line' = line
      \/ Lose(s) /\ line[s] # <<>> /\ line'[s] = Tail(line[s]) /\ line'[Peer(s)] = line[Peer(s)]
  BY EnvironmentLine
<1>4. \A x \in Stations : \A K : Those(line'[x], K) \subseteq Those(line[x], K)
  BY <1>1, <1>2, <1>3, ThoseTail, TwoStations
<1>5. UnderWay(t)' = Those(line'[Peer(t)], Requests(Peer(t))) \cup Those(line'[t], Answers(t))
  BY DEF UnderWay, Requests, Answers
<1>6. UnderWay(t)' \subseteq UnderWay(t)
  BY <1>1, <1>4, <1>5 DEF UnderWay
<1>7. ASSUME line' = line
      PROVE  UnderWay(t)' = UnderWay(t)
  BY <1>5, <1>7 DEF UnderWay
<1>8. ~Lose(s) => line' = line
  BY <1>3
<1> QED
  BY <1>6, <1>7, <1>8

(* What is under way after a run of the state machine.                     *)
LEMMA UnderWayRun ==
  ASSUME TypeOK, PerStation, HasWhatItSent, QueuesOK, NEW s \in Stations,
         RunStateMachine(s), NEW p, p = Peer(s)
  PROVE  /\ UnderWay(p)' = UnderWay(p)
         /\ line'[p] = line[p] => UnderWay(s)' = UnderWay(s)
         /\ \A f \in Requests(p) : line'[p] = Append(line[p], f) /\ Nothing(s) =>
              UnderWay(s)' = {f}
<1>1. p \in Stations /\ p # s /\ Peer(p) = s
  BY TwoStations
<1>2. line[p] \in Seq(Frames(p)) /\ line[s] \in Seq(Frames(s))
  BY <1>1 DEF TypeOK
<1>3. line'[s] = line[s]
  BY RunLine
<1>4. \/ line'[p] = line[p]
      \/ \E f \in Frames(p) : f.prm /\ line'[p] = Append(line[p], f)
  BY RunSendsRequests
<1>5. Those(line'[p], Answers(p)) = Those(line[p], Answers(p))
  <2>1. ASSUME NEW f \in Frames(p), f.prm, line'[p] = Append(line[p], f)
        PROVE  Those(line'[p], Answers(p)) = Those(line[p], Answers(p))
    <3>1. f \notin Answers(p)
      BY <2>1 DEF Answers
    <3>2. Those(Append(line[p], f), Answers(p)) = Those(line[p], Answers(p)) \cup ({f} \cap Answers(p))
      BY <1>2, ThoseAppend
    <3> QED
      BY <2>1, <3>1, <3>2
  <2> QED
    BY <1>4, <2>1
<1>6. ASSUME NEW f \in Requests(p), line'[p] = Append(line[p], f), Nothing(s)
      PROVE  UnderWay(s)' = {f}
  <2>1. Those(line[p], Requests(p)) = {} /\ Those(line[s], Answers(s)) = {}
    BY <1>6, ThoseNone DEF Nothing
  <2>2. f \in Frames(p)
    BY DEF Requests
  <2>3. Those(Append(line[p], f), Requests(p)) = Those(line[p], Requests(p)) \cup ({f} \cap Requests(p))
    BY <1>2, <2>2, ThoseAppend
  <2> QED
    BY <1>3, <1>6, <2>1, <2>3 DEF UnderWay, Requests, Answers
<1> QED
  BY <1>1, <1>3, <1>5, <1>6 DEF UnderWay, Requests, Answers

(* The undelivered ASDUs are finitely many.  Giving up the one in hand     *)
(* adds at most it, and nothing if the peer has it.                        *)
LEMMA UndeliveredStep ==
  ASSUME NEW t \in Stations, IsFiniteSet(abandoned[t]),
         \A a : WasDelivered(t, a) => WasDelivered(t, a)',
         \/ abandoned'[t] = abandoned[t]
         \/ abandoned'[t] = abandoned[t] \cup {lastSendAsdu[t]} /\ lastSendAsdu[t] # NoAsdu
  PROVE  /\ Cardinality(undelivered(t)) \in Nat /\ Cardinality(undelivered(t))' \in Nat
         /\ Cardinality(undelivered(t))' <= Cardinality(undelivered(t)) + Held(t)
         /\ abandoned'[t] = abandoned[t] =>
              Cardinality(undelivered(t))' <= Cardinality(undelivered(t))
<1> DEFINE U == undelivered(t)
           V == undelivered(t)'
<1>1. /\ U = {a \in abandoned[t] : ~WasDelivered(t, a)}
      /\ V = {a \in abandoned'[t] : ~(WasDelivered(t, a)')}
  BY DEF undelivered, WasDelivered
<1>2. U \in SUBSET abandoned[t]
  BY <1>1
<1>3. IsFiniteSet(U) /\ Cardinality(U) \in Nat
  BY <1>2, FS_Subset, FS_CardinalityType
<1> HIDE DEF U, V
<1>4. ASSUME V \subseteq U
      PROVE  Cardinality(V) \in Nat /\ Cardinality(V) <= Cardinality(U)
  <2>1. V \in SUBSET U
    BY <1>4
  <2> QED
    BY <1>3, <2>1, FS_Subset, FS_CardinalityType
<1>5. abandoned'[t] = abandoned[t] => V \subseteq U
  BY <1>1
<1>6. Held(t) \in {0, 1}
  BY DEF Held
<1>7. CASE abandoned'[t] = abandoned[t] \cup {lastSendAsdu[t]} /\ lastSendAsdu[t] # NoAsdu
  <2>1. CASE WasDelivered(t, lastSendAsdu[t])
    <3>1. V \subseteq U
      BY <1>1, <1>7, <2>1
    <3> QED
      BY <1>3, <1>4, <1>6, <3>1 DEF U, V
  <2>2. CASE ~WasDelivered(t, lastSendAsdu[t])
    <3>1. Held(t) = 1
      BY <1>7, <2>2 DEF Held
    <3>2. V \in SUBSET (U \cup {lastSendAsdu[t]})
      BY <1>1, <1>7
    <3>3. /\ IsFiniteSet(U \cup {lastSendAsdu[t]})
          /\ Cardinality(U \cup {lastSendAsdu[t]}) \in Nat
          /\ Cardinality(U \cup {lastSendAsdu[t]}) <= Cardinality(U) + 1
      BY <1>3, OneMoreElement
    <3>4. Cardinality(V) \in Nat /\ Cardinality(V) <= Cardinality(U \cup {lastSendAsdu[t]})
      BY <3>2, <3>3, FS_Subset, FS_CardinalityType
    <3>5. Cardinality(V) <= Cardinality(U) + 1
      BY <1>3, <3>3, <3>4
    <3>6. abandoned'[t] = abandoned[t] => Cardinality(V) <= Cardinality(U)
      BY <1>4, <1>5
    <3> QED
      BY <1>3, <3>1, <3>4, <3>5, <3>6 DEF U, V
  <2> QED
    BY <2>1, <2>2
<1>8. CASE abandoned'[t] = abandoned[t]
  <2>1. Cardinality(V) \in Nat /\ Cardinality(V) <= Cardinality(U)
    BY <1>4, <1>5, <1>8
  <2> QED
    BY <1>3, <1>6, <2>1 DEF U, V
<1> QED
  BY <1>7, <1>8

(* The debt is a small number. *)
LEMMA DebtBounds ==
  ASSUME TypeOK, NEW s \in Stations
  PROVE  /\ Debt(s) \in 0..3 /\ Held(s) \in {0, 1} /\ AfterReset(s) \in {0, 1}
         /\ primaryState[s] # "SEND_CONFIRM" => Debt(s) \in 0..2
         /\ UnderWay(s) \cap ForeignAnswers = {} => Debt(s) \in 0..2
<1>1. Held(s) \in {0, 1} /\ AfterReset(s) \in {0, 1} /\ repeats[s] \in Nat
  BY BalancedAssumption DEF Held, AfterReset, TypeOK
<1>2. ASSUME NEW r \in Nat, NEW h \in {0, 1}, NEW a \in {0, 1}
      PROVE  Smaller(r, h + a) \in 0..2 /\ Smaller(r + 1, h + a) \in 0..2
  BY DEF Smaller
<1>3. DebtWhileSent(s) \in 0..3 /\ (UnderWay(s) \cap ForeignAnswers = {} => DebtWhileSent(s) \in 0..2)
  BY <1>1, <1>2 DEF DebtWhileSent
<1>4. primaryState[s] # "SEND_CONFIRM" => Debt(s) \in 0..2
  BY <1>1 DEF Debt
<1>5. primaryState[s] = "SEND_CONFIRM" => Debt(s) = DebtWhileSent(s)
  BY DEF Debt
<1> QED
  BY <1>1, <1>3, <1>4, <1>5

(* How the primary of s goes on when it reads an answer. *)
LEMMA AnswerEffects ==
  ASSUME TypeOK, PerStation, NEW s \in Stations, HandleMessage(s), ~line[s][1].prm
  PROVE  /\ nextFcb' = nextFcb /\ repeats' = repeats
         /\ HandleStatusOfLink(s) =>
              primaryState[s] = "REQUEST_STATUS" /\ primaryState'[s] = "RESET_REMOTE_LINK"
         /\ primaryState[s] = "REQUEST_STATUS" /\ ~HandleStatusOfLink(s) =>
              primaryState'[s] \in {"REQUEST_STATUS", "IDLE"}
         /\ primaryState[s] = "RESET_REMOTE_LINK" =>
              \/ primaryState'[s] \in {"RESET_REMOTE_LINK", "REQUEST_STATUS", "IDLE"}
              \/ primaryState'[s] = "LINK_LAYERS_AVAILABLE" /\ line[s][1] = Answer("ACK")
         /\ primaryState[s] = "SEND_CONFIRM" =>
              /\ primaryState'[s] \in {"BUSY", "IDLE", "LINK_LAYERS_AVAILABLE"}
              /\ line[s][1] = Answer("ACK") =>
                   primaryState'[s] = "LINK_LAYERS_AVAILABLE" /\ abandoned' = abandoned
<1>1. /\ line[s] # <<>> /\ Head(line[s]) = line[s][1] /\ line[s][1] \in Frames(s)
  BY ReadFrame
<1>2. /\ primaryState \in [Stations -> {"IDLE", "REQUEST_STATUS", "RESET_REMOTE_LINK",
                                        "LINK_LAYERS_AVAILABLE", "SEND_CONFIRM", "BUSY"}]
  BY DEF TypeOK
<1>3. /\ Answer("ACK").fc = "ACK" /\ ~Answer("ACK").dfc
      /\ ~line[s][1].dfc => line[s][1] = Answer(line[s][1].fc)
  BY <1>1, AnswerType DEF Answer
<1>4. CASE \/ HandleWrongFCB(s) \/ HandleResetRemoteLink(s) \/ HandleTestFunction(s)
           \/ HandleUserDataConfirmed(s) \/ HandleRequestLinkStatus(s) \/ ForeignAnswer(s)
  BY <1>1, <1>4 DEF HandleWrongFCB, HandleResetRemoteLink, HandleTestFunction,
     HandleUserDataConfirmed, HandleRequestLinkStatus, ForeignAnswer
<1>5. CASE HandleDFC(s) \/ HandleNack(s) \/ HandleIllegal(s) \/ HandleServiceNotImplemented(s)
  <2>1. line[s][1] # Answer("ACK")
    BY <1>1, <1>3, <1>5 DEF HandleDFC, HandleNack, HandleIllegal, HandleServiceNotImplemented,
       IsAnswer
  <2> QED
    BY <1>1, <1>2, <1>3, <1>5, <2>1 DEF HandleDFC, HandleNack, HandleIllegal,
       HandleServiceNotImplemented, IsAnswer, HandleStatusOfLink
<1>6. CASE HandleResetAck(s) \/ HandleAck(s) \/ HandleStrayAck(s)
  BY <1>1, <1>2, <1>3, <1>6 DEF HandleResetAck, HandleAck, HandleStrayAck, IsAnswer,
     HandleStatusOfLink, history
<1>7. CASE HandleStatusOfLink(s)
  BY <1>1, <1>2, <1>7 DEF HandleStatusOfLink
<1> QED
  BY <1>4, <1>5, <1>6, <1>7 DEF HandleMessage, HandleFrame

(* A step that leaves the primary, what the secondary expects and what it  *)
(* got alone, and takes at most a frame off the line.                      *)
LEMMA SameView ==
  ASSUME TypeOK, NEW t \in Stations, Fits(t), \A f, g \in UnderWay(t) : f = g,
         primaryState'[t] = primaryState[t], nextFcb'[t] = nextFcb[t],
         repeats'[t] = repeats[t], lastSendAsdu'[t] = lastSendAsdu[t],
         expectedFcb'[Peer(t)] = expectedFcb[Peer(t)], delivered'[Peer(t)] = delivered[Peer(t)],
         UnderWay(t)' \subseteq UnderWay(t)
  PROVE  /\ Fits(t)' /\ Held(t)' = Held(t)
         /\ Debt(t)' \in 0..3
         /\ Debt(t)' <= Debt(t) + 1
         /\ UnderWay(t)' = UnderWay(t) => Debt(t)' = Debt(t)
<1>1. /\ Held(t)' = Held(t) /\ AfterReset(t)' = AfterReset(t) /\ InStep(t)' = InStep(t)
      /\ TestFrame(t)' = TestFrame(t) /\ Repetition(t)' = Repetition(t)
  BY DEF Held, AfterReset, InStep, WasDelivered, TestFrame, Repetition, repeatedFcb
<1>2. Fits(t)'
  BY <1>1 DEF Fits, LinkStatusRequest, LinkReset, Answer, ForeignAnswers
<1>3. repeats[t] \in Nat /\ Held(t) \in {0, 1} /\ AfterReset(t) \in {0, 1} /\ Debt(t) \in 0..3
  BY DebtBounds, BalancedAssumption DEF TypeOK
<1>4. UnderWay(t)' = UnderWay(t) \/ UnderWay(t)' = {}
  OBVIOUS
<1>5. CASE UnderWay(t)' = UnderWay(t)
  <2>1. Debt(t)' = Debt(t)
    BY <1>1, <1>5 DEF Debt, DebtWhileSent, ForeignAnswers, Answer
  <2> QED
    BY <1>1, <1>2, <1>3, <2>1
<1>6. CASE UnderWay(t)' = {} /\ UnderWay(t) # {}
  <2>1. CASE primaryState[t] = "SEND_CONFIRM"
    <3>1. /\ Debt(t) = DebtWhileSent(t) /\ Debt(t)' = DebtWhileSent(t)'
      BY <2>1 DEF Debt
    <3>2. DebtWhileSent(t)' = IF InStep(t) THEN Held(t) + AfterReset(t)
                              ELSE Smaller(repeats[t] + 1, Held(t) + AfterReset(t))
      BY <1>1, <1>6 DEF DebtWhileSent, Smaller
    <3>3. DebtWhileSent(t) = 3 \/
            DebtWhileSent(t) = (IF InStep(t)
                                THEN Held(t) + (IF Answer("ACK") \in UnderWay(t) THEN 0 ELSE AfterReset(t))
                                ELSE Smaller(repeats[t], Held(t) + AfterReset(t)))
      BY <1>3, <1>6 DEF DebtWhileSent, Smaller
    <3>4. \A r \in Nat, c \in 0..2 : /\ Smaller(r + 1, c) <= Smaller(r, c) + 1
                                     /\ Smaller(r + 1, c) \in 0..2
      BY DEF Smaller
    <3>5. Held(t) + AfterReset(t) \in 0..2
      BY <1>3
    <3>6. DebtWhileSent(t)' \in 0..2
      BY <1>3, <3>2, <3>4, <3>5
    <3>7. DebtWhileSent(t)' <= DebtWhileSent(t) + 1
      BY <1>3, <3>2, <3>3, <3>4, <3>5, <3>6
    <3> QED
      BY <1>1, <1>2, <1>6, <3>1, <3>6, <3>7
  <2>2. CASE primaryState[t] # "SEND_CONFIRM"
    <3>1. Debt(t)' = Debt(t)
      BY <1>1, <2>2 DEF Debt
    <3> QED
      BY <1>1, <1>2, <1>3, <3>1
  <2> QED
    BY <2>1, <2>2
<1> QED
  BY <1>4, <1>5, <1>6

(* What was paid stays paid, when what is lost and owed grows by no more   *)
(* than the faults.                                                        *)
LEMMA StaysPaid ==
  ASSUME NEW t \in Stations, Paid(t), NEW c, c = Cardinality(undelivered(t)),
         NEW d, d = Cardinality(undelivered(t))', c \in Nat, d \in Nat,
         NEW more \in Nat, NEW lost \in Nat, NEW foreign \in Nat,
         faults.lost \in Nat, faults.foreign \in Nat,
         faults'.lost >= faults.lost + lost, faults'.foreign >= faults.foreign + foreign,
         faults'.lost \in Nat, faults'.foreign \in Nat,
         Debt(t) \in Nat, Debt(t)' \in Nat,
         d <= c + more, Debt(t)' + more <= Debt(t) + lost + 3 * foreign
  PROVE  Paid(t)'
<1>1. c + Debt(t) <= faults.lost + 3 * faults.foreign
  BY DEF Paid
<1>2. PICK D \in Nat, DD \in Nat, l \in Nat, ll \in Nat, f \in Nat, ff \in Nat :
        /\ D = Debt(t) /\ DD = Debt(t)'
        /\ l = faults.lost /\ ll = faults'.lost /\ f = faults.foreign /\ ff = faults'.foreign
  OBVIOUS
<1>3. d + DD <= ll + 3 * ff
  BY <1>1, <1>2
<1> QED
  BY <1>2, <1>3 DEF Paid

(* What a step of this kind costs is paid. *)
LEMMA PaidStep ==
  ASSUME TypeOK, PerStation, [Next]_vars, FaultTypes, CountTypes, NEW t \in Stations, Paid(t),
         NEW lost \in Nat, NEW foreign \in Nat, NEW more,
         faults'.lost >= faults.lost + lost, faults'.foreign >= faults.foreign + foreign,
         Debt(t)' \in Nat,
         \/ abandoned'[t] = abandoned[t] /\ more = 0
         \/ /\ abandoned'[t] = abandoned[t] \cup {lastSendAsdu[t]} /\ lastSendAsdu[t] # NoAsdu
            /\ more = Held(t),
         Debt(t)' + more <= Debt(t) + lost + 3 * foreign
  PROVE  Paid(t)'
<1>1. \A a : WasDelivered(t, a) => WasDelivered(t, a)'
  BY DeliveredGrows
<1>2. IsFiniteSet(abandoned[t])
  BY DEF CountTypes
<1>3. PICK c, d : c = Cardinality(undelivered(t)) /\ d = Cardinality(undelivered(t))'
  OBVIOUS
<1>4. c \in Nat /\ d \in Nat /\ d <= c + more /\ more \in Nat
  <2>1. /\ Cardinality(undelivered(t)) \in Nat /\ Cardinality(undelivered(t))' \in Nat
        /\ Cardinality(undelivered(t))' <= Cardinality(undelivered(t)) + Held(t)
        /\ abandoned'[t] = abandoned[t] =>
             Cardinality(undelivered(t))' <= Cardinality(undelivered(t))
    BY <1>1, <1>2, UndeliveredStep
  <2>2. Held(t) \in {0, 1}
    BY DebtBounds
  <2> QED
    BY <1>3, <2>1, <2>2
<1>5. Debt(t) \in Nat
  BY DebtBounds
<1>6. /\ faults.lost \in Nat /\ faults.foreign \in Nat
      /\ faults'.lost \in Nat /\ faults'.foreign \in Nat
  BY FaultsAddUp DEF FaultTypes
<1> QED
  BY <1>3, <1>4, <1>5, <1>6, StaysPaid

(* A lost frame costs at most one; a test requested and an ASDU enqueued   *)
(* cost nothing.                                                           *)
LEMMA EnvironmentPaid ==
  ASSUME TypeOK, PerStation, QueuesOK, FaultTypes, CountTypes, [Next]_vars, NEW s \in Stations,
         Lose(s) \/ sendTest(s) \/ (\E c \in Classes[s] : Enqueue(s, c)),
         NEW t \in Stations, OneOutstanding(t), Fits(t), Paid(t)
  PROVE  Fits(t)' /\ Paid(t)'
<1>1. /\ UnderWay(t)' \subseteq UnderWay(t)
      /\ ~Lose(s) => UnderWay(t)' = UnderWay(t)
  BY UnderWayEnvironment
<1>2. \A f, g \in UnderWay(t) : f = g
  BY UnderWayOne
<1>3. /\ UNCHANGED <<primaryState, nextFcb, repeats, lastSendAsdu, expectedFcb, delivered, abandoned>>
  BY DEF Lose, sendTest, Enqueue, primary, history
<1>4. /\ Fits(t)' /\ Held(t)' = Held(t)
      /\ Debt(t)' \in 0..3
      /\ Debt(t)' <= Debt(t) + 1
      /\ UnderWay(t)' = UnderWay(t) => Debt(t)' = Debt(t)
  BY <1>1, <1>2, <1>3, SameView
<1>5. Debt(t)' \in Nat /\ Debt(t) \in Nat
  BY <1>4, DebtBounds
<1>6. /\ Lose(s) => faults'.lost = faults.lost + 1 /\ faults'.foreign = faults.foreign
      /\ ~Lose(s) => faults'.lost = faults.lost /\ faults'.foreign = faults.foreign
  BY EnvironmentFaults
<1>7. faults.lost \in Nat /\ faults.foreign \in Nat
  BY DEF FaultTypes
<1>8. CASE Lose(s)
  <2>1. faults'.lost >= faults.lost + 1 /\ faults'.foreign >= faults.foreign + 0
    BY <1>6, <1>7, <1>8
  <2>2. Debt(t)' + 0 <= Debt(t) + 1 + 3 * 0
    BY <1>4, <1>5
  <2>3. abandoned'[t] = abandoned[t]
    BY <1>3
  <2>4. 0 \in Nat /\ 1 \in Nat
    OBVIOUS
  <2>5. Paid(t)'
    BY <1>5, <2>1, <2>2, <2>3, <2>4, PaidStep
  <2> QED
    BY <1>4, <2>5
<1>9. CASE ~Lose(s)
  <2>1. faults'.lost >= faults.lost + 0 /\ faults'.foreign >= faults.foreign + 0
    BY <1>6, <1>7, <1>9
  <2>2. Debt(t)' + 0 <= Debt(t) + 0 + 3 * 0
    BY <1>1, <1>4, <1>5, <1>9
  <2>3. abandoned'[t] = abandoned[t]
    BY <1>3
  <2>4. 0 \in Nat
    OBVIOUS
  <2>5. Paid(t)'
    BY <1>5, <2>1, <2>2, <2>3, <2>4, PaidStep
  <2> QED
    BY <1>4, <2>5
<1> QED
  BY <1>8, <1>9

(* A step that leaves alone all that concerns the primary costs nothing. *)
LEMMA UntouchedPaid ==
  ASSUME TypeOK, PerStation, FaultTypes, CountTypes, [Next]_vars,
         NEW t \in Stations, OneOutstanding(t), Fits(t), Paid(t),
         primaryState'[t] = primaryState[t], nextFcb'[t] = nextFcb[t],
         repeats'[t] = repeats[t], lastSendAsdu'[t] = lastSendAsdu[t],
         expectedFcb'[Peer(t)] = expectedFcb[Peer(t)], delivered'[Peer(t)] = delivered[Peer(t)],
         abandoned'[t] = abandoned[t], UnderWay(t)' = UnderWay(t),
         faults'.lost >= faults.lost, faults'.foreign >= faults.foreign
  PROVE  Fits(t)' /\ Paid(t)'
<1>1. \A f, g \in UnderWay(t) : f = g
  BY UnderWayOne
<1>2. Fits(t)' /\ Debt(t)' = Debt(t)
  BY <1>1, SameView
<1>3. Debt(t) \in Nat
  BY DebtBounds
<1>4. faults.lost \in Nat /\ faults.foreign \in Nat
  BY DEF FaultTypes
<1>5. Debt(t)' \in Nat /\ Debt(t)' + 0 <= Debt(t) + 0 + 3 * 0 /\ 0 \in Nat
  BY <1>2, <1>3
<1>6. faults'.lost >= faults.lost + 0 /\ faults'.foreign >= faults.foreign + 0
  BY <1>4
<1>7. Paid(t)'
  BY <1>5, <1>6, PaidStep
<1> QED
  BY <1>2, <1>7

(* A request read costs the station's own primary nothing, an answer read  *)
(* or a run of the state machine costs the peer's nothing.                 *)
LEMMA BystanderPaid ==
  ASSUME TypeOK, PerStation, QueuesOK, HasWhatItSent, FaultTypes, CountTypes, [Next]_vars,
         NEW s \in Stations, NEW t \in Stations,
         \/ HandleMessage(s) /\ line[s][1].prm /\ t = s
         \/ HandleMessage(s) /\ ~line[s][1].prm /\ t = Peer(s)
         \/ RunStateMachine(s) /\ t = Peer(s),
         OneOutstanding(s), OneOutstanding(Peer(s)), Fits(t), Paid(t)
  PROVE  Fits(t)' /\ Paid(t)'
<1>1. Peer(s) \in Stations /\ Peer(s) # s /\ Peer(Peer(s)) = s
  BY TwoStations
<1>2. faults.lost \in Nat /\ faults.foreign \in Nat
  BY DEF FaultTypes
<1>3. CASE HandleMessage(s) /\ line[s][1].prm /\ t = s
  <2>1. UnderWay(s)' = UnderWay(s)
    BY <1>3, UnderWayRequestRead
  <2>2. UNCHANGED <<primary, abandoned>>
    BY <1>3, SecondaryAnswers
  <2>3. expectedFcb'[Peer(s)] = expectedFcb[Peer(s)] /\ delivered'[Peer(s)] = delivered[Peer(s)]
    BY <1>1, <1>3, OtherStation
  <2>4. faults'.lost >= faults.lost /\ faults'.foreign >= faults.foreign
    BY <1>2, <1>3, HandleFaults
  <2> QED
    BY <1>3, <2>1, <2>2, <2>3, <2>4, UntouchedPaid DEF primary
<1>4. CASE HandleMessage(s) /\ ~line[s][1].prm /\ t = Peer(s)
  <2>1. UnderWay(t)' = UnderWay(t)
    BY <1>4, UnderWayAnswerRead
  <2>2. UNCHANGED <<expectedFcb, delivered>>
    BY <1>4, PrimaryReads
  <2>3. /\ primaryState'[t] = primaryState[t] /\ nextFcb'[t] = nextFcb[t]
        /\ lastSendAsdu'[t] = lastSendAsdu[t]
    BY <1>1, <1>4, OtherStation
  <2>4. repeats'[t] = repeats[t]
    BY <1>4, AnswerEffects
  <2>5. abandoned'[t] = abandoned[t]
    BY <1>1, <1>4, GiveUpSteps
  <2>6. faults'.lost >= faults.lost /\ faults'.foreign >= faults.foreign
    BY <1>2, <1>4, HandleFaults
  <2> QED
    BY <2>1, <2>2, <2>3, <2>4, <2>5, <2>6, UntouchedPaid
<1>5. CASE RunStateMachine(s) /\ t = Peer(s)
  <2>1. UnderWay(t)' = UnderWay(t)
    BY <1>5, UnderWayRun
  <2>2. UNCHANGED <<expectedFcb, delivered>>
    BY <1>5, OnlyHandlersRead
  <2>3. /\ primaryState'[t] = primaryState[t] /\ nextFcb'[t] = nextFcb[t]
        /\ lastSendAsdu'[t] = lastSendAsdu[t]
    BY <1>1, <1>5, OtherStation
  <2>4. repeats'[t] = repeats[t]
    BY <1>1, <1>5 DEF TypeOK, RunStateMachine, RunIdle, RunTimeoutStatusOrReset,
       RunSendTestFunction, RunSendUserData, RunRepeat, RunGiveUp, RunNothing, vars, primary
  <2>5. abandoned'[t] = abandoned[t]
    BY <1>1, <1>5, GiveUpSteps
  <2>6. faults'.lost >= faults.lost /\ faults'.foreign >= faults.foreign
    BY <1>2, <1>5, RunFaults
  <2> QED
    BY <2>1, <2>2, <2>3, <2>4, <2>5, <2>6, UntouchedPaid
<1> QED
  BY <1>3, <1>4, <1>5

(* The link reset is no ACK. *)
LEMMA ResetFits == LinkReset # Answer("ACK") /\ LinkReset' = LinkReset
<1>1. LinkReset.prm = TRUE /\ Answer("ACK").prm = FALSE
  BY DEF LinkReset, Fixed, Answer
<1> QED
  BY <1>1 DEF LinkReset, Fixed

(* An answer read by the primary it is for.                                *)
LEMMA AnswerPaid ==
  ASSUME TypeOK, PerStation, QueuesOK, HasWhatItSent, FaultTypes, CountTypes,
         [Next]_vars, NEW s \in Stations, HandleMessage(s), ~line[s][1].prm,
         OneOutstanding(s), OneOutstanding(Peer(s)), Fits(s), Paid(s)
  PROVE  Fits(s)' /\ Paid(s)'
<1>1. /\ UnderWay(s) = {line[s][1]}
      /\ ~HandleStatusOfLink(s) => UnderWay(s)' = {}
      /\ HandleStatusOfLink(s) => UnderWay(s)' = {LinkReset}
  BY UnderWayAnswerRead
<1>2. /\ nextFcb' = nextFcb /\ repeats' = repeats
      /\ HandleStatusOfLink(s) =>
           primaryState[s] = "REQUEST_STATUS" /\ primaryState'[s] = "RESET_REMOTE_LINK"
      /\ primaryState[s] = "REQUEST_STATUS" /\ ~HandleStatusOfLink(s) =>
           primaryState'[s] \in {"REQUEST_STATUS", "IDLE"}
      /\ primaryState[s] = "RESET_REMOTE_LINK" =>
           \/ primaryState'[s] \in {"RESET_REMOTE_LINK", "REQUEST_STATUS", "IDLE"}
           \/ primaryState'[s] = "LINK_LAYERS_AVAILABLE" /\ line[s][1] = Answer("ACK")
      /\ primaryState[s] = "SEND_CONFIRM" =>
           /\ primaryState'[s] \in {"BUSY", "IDLE", "LINK_LAYERS_AVAILABLE"}
           /\ line[s][1] = Answer("ACK") =>
                primaryState'[s] = "LINK_LAYERS_AVAILABLE" /\ abandoned' = abandoned
  BY AnswerEffects
<1>3. UNCHANGED <<expectedFcb, delivered>>
  BY PrimaryReads
<1>4. primaryState[s] \in {"REQUEST_STATUS", "RESET_REMOTE_LINK", "SEND_CONFIRM"}
  BY <1>1, UnderWayOne DEF hasTimeout
<1>5. /\ faults.lost \in Nat /\ faults.foreign \in Nat
      /\ faults'.lost = faults.lost /\ faults'.foreign >= faults.foreign
  BY HandleFaults DEF FaultTypes
<1>6. faults'.lost >= faults.lost + 0 /\ faults'.foreign >= faults.foreign + 0 /\ 0 \in Nat
  BY <1>5
<1>7. \/ abandoned'[s] = abandoned[s]
      \/ abandoned'[s] = abandoned[s] \cup {lastSendAsdu[s]} /\ InHand(s)
  BY GiveUpSteps
<1>8. Fits(s)'
  <2>1. CASE HandleStatusOfLink(s)
    BY <1>1, <1>2, <2>1, ResetFits DEF Fits
  <2>2. CASE ~HandleStatusOfLink(s)
    BY <1>1, <2>2 DEF Fits
  <2> QED
    BY <2>1, <2>2
<1>9. AfterReset(s)' = AfterReset(s) /\ (InStep(s)' <=> InStep(s))
  BY <1>2, <1>3 DEF AfterReset, InStep
<1>10. /\ primaryState'[s] = "LINK_LAYERS_AVAILABLE" =>
            Debt(s)' = (IF InStep(s) THEN 0 ELSE IF nextFcb[s] THEN 2 ELSE 1)
       /\ primaryState'[s] = "BUSY" => Debt(s)' = 0
       /\ primaryState'[s] \in {"IDLE", "REQUEST_STATUS", "RESET_REMOTE_LINK"} =>
            Debt(s)' = AfterReset(s)
  BY <1>2, <1>9 DEF Debt
<1>11. Debt(s) \in 0..3 /\ Held(s) \in {0, 1} /\ AfterReset(s) \in {0, 1}
  BY DebtBounds
<1>12. CASE primaryState[s] \in {"REQUEST_STATUS", "RESET_REMOTE_LINK"}
  <2>1. abandoned'[s] = abandoned[s]
    BY <1>7, <1>12 DEF InHand
  <2>2. Debt(s) = AfterReset(s)
    BY <1>12 DEF Debt
  <2>3. Debt(s)' = AfterReset(s)
    <3>1. line[s][1] = Answer("ACK") /\ primaryState[s] = "RESET_REMOTE_LINK" => expectedFcb[Peer(s)] = TRUE
      BY <1>1 DEF Fits
    <3>2. CASE primaryState'[s] \in {"RESET_REMOTE_LINK", "REQUEST_STATUS", "IDLE"}
      BY <1>10, <3>2
    <3>3. CASE primaryState[s] = "RESET_REMOTE_LINK" /\ primaryState'[s] = "LINK_LAYERS_AVAILABLE"
               /\ line[s][1] = Answer("ACK")
      <4>1. InStep(s) <=> nextFcb[s]
        BY <3>1, <3>3, TwoStations DEF InStep, TypeOK
      <4> QED
        BY <1>10, <3>3, <4>1 DEF AfterReset
    <3> QED
      BY <1>2, <1>12, <3>2, <3>3
  <2>4. Debt(s)' \in Nat /\ Debt(s)' + 0 <= Debt(s) + 0 + 3 * 0
    BY <1>11, <2>2, <2>3
  <2>5. Paid(s)'
    BY <1>6, <2>1, <2>4, PaidStep
  <2> QED
    BY <1>8, <2>5
<1>13. CASE primaryState[s] = "SEND_CONFIRM"
  <2>1. line[s][1] \in {TestFrame(s), Repetition(s), Answer("ACK")} \cup ForeignAnswers
    BY <1>1, <1>13 DEF Fits
  <2>2. TestFrame(s).prm /\ Repetition(s).prm
    BY DEF TestFrame, Repetition, Fixed, UserData
  <2>3. CASE line[s][1] = Answer("ACK")
    <3>1. InStep(s)
      BY <1>1, <1>13, <2>3 DEF Fits, InStep
    <3>2. abandoned'[s] = abandoned[s] /\ Debt(s)' = 0
      BY <1>2, <1>10, <1>13, <2>3, <3>1
    <3>3. Debt(s)' \in Nat /\ Debt(s)' + 0 <= Debt(s) + 0 + 3 * 0
      BY <1>11, <3>2
    <3>4. Paid(s)'
      BY <1>6, <3>2, <3>3, PaidStep
    <3> QED
      BY <1>8, <3>4
  <2>4. CASE line[s][1] \in ForeignAnswers
    <3>1. Debt(s) = 3
      BY <1>1, <1>13, <2>4 DEF Debt, DebtWhileSent
    <3>2. Debt(s)' \in 0..2
      BY <1>2, <1>10, <1>11, <1>13
    <3>3. PICK more \in {0, 1} :
            \/ abandoned'[s] = abandoned[s] /\ more = 0
            \/ /\ abandoned'[s] = abandoned[s] \cup {lastSendAsdu[s]} /\ lastSendAsdu[s] # NoAsdu
               /\ more = Held(s)
      BY <1>7, <1>11 DEF InHand
    <3>4. Debt(s)' \in Nat /\ Debt(s)' + more <= Debt(s) + 0 + 3 * 0
      BY <3>1, <3>2, <3>3
    <3>5. Paid(s)'
      BY <1>6, <3>3, <3>4, PaidStep
    <3> QED
      BY <1>8, <3>5
  <2> QED
    BY <2>1, <2>2, <2>3, <2>4
<1> QED
  BY <1>4, <1>12, <1>13

(* A frame of the primary that wants an ACK is no answer, and a test frame *)
(* is no user data.                                                        *)
LEMMA SentKinds ==
  ASSUME NEW s
  PROVE  /\ TestFrame(s) # Answer("ACK") /\ Repetition(s) # Answer("ACK")
         /\ TestFrame(s) \notin ForeignAnswers /\ Repetition(s) \notin ForeignAnswers
         /\ TestFrame(s) # Repetition(s)
<1>1. TestFrame(s).prm = TRUE /\ Repetition(s).prm = TRUE
  BY DEF TestFrame, Repetition, Fixed, UserData
<1>2. Answer("ACK").prm = FALSE /\ \A f \in ForeignAnswers : f.prm = FALSE
  BY DEF Answer, ForeignAnswers
<1>3. /\ TestFrame(s).fc = "TEST_FUNCTION_FOR_LINK" /\ Repetition(s).fc = "USER_DATA_CONFIRMED"
  BY DEF TestFrame, Repetition, Fixed, UserData
<1> QED
  BY <1>1, <1>2, <1>3

(* Sending a test frame or user data for the first time costs nothing.     *)
LEMMA FirstSendPaid ==
  ASSUME TypeOK, PerStation, FaultTypes, CountTypes, [Next]_vars, NEW s \in Stations, Paid(s),
         primaryState[s] = "LINK_LAYERS_AVAILABLE", primaryState'[s] = "SEND_CONFIRM",
         nextFcb'[s] = ~nextFcb[s], repeats'[s] = 0, expectedFcb' = expectedFcb,
         abandoned'[s] = abandoned[s],
         NEW f, UnderWay(s)' = {f},
         (f = TestFrame(s)' /\ lastSendAsdu'[s] = NoAsdu) \/ f = Repetition(s)',
         faults'.lost = faults.lost, faults'.foreign = faults.foreign
  PROVE  Fits(s)' /\ Paid(s)'
<1>1. /\ TestFrame(s)' # Answer("ACK") /\ Repetition(s)' # Answer("ACK")
      /\ TestFrame(s)' \notin ForeignAnswers /\ Repetition(s)' \notin ForeignAnswers
      /\ TestFrame(s)' # Repetition(s)'
  <2>1. TestFrame(s)'.prm = TRUE /\ Repetition(s)'.prm = TRUE
    BY DEF TestFrame, Repetition, Fixed, UserData
  <2>2. Answer("ACK").prm = FALSE /\ \A g \in ForeignAnswers : g.prm = FALSE
    BY DEF Answer, ForeignAnswers
  <2>3. TestFrame(s)'.fc = "TEST_FUNCTION_FOR_LINK" /\ Repetition(s)'.fc = "USER_DATA_CONFIRMED"
    BY DEF TestFrame, Repetition, Fixed, UserData
  <2> QED
    BY <2>1, <2>2, <2>3
<1>2. f # Answer("ACK") /\ f \notin ForeignAnswers
  BY <1>1
<1>3. Answer("ACK")' = Answer("ACK") /\ ForeignAnswers' = ForeignAnswers
  BY DEF Answer, ForeignAnswers
<1>4. Fits(s)'
  <2>1. UnderWay(s)' \subseteq ({TestFrame(s), Repetition(s), Answer("ACK")} \cup ForeignAnswers)'
    BY <1>3
  <2>2. Answer("ACK")' \notin UnderWay(s)'
    BY <1>2, <1>3
  <2>3. TestFrame(s)' \in UnderWay(s)' => lastSendAsdu'[s] = NoAsdu
    BY <1>1
  <2> QED
    BY <2>1, <2>2, <2>3 DEF Fits
<1>5. nextFcb[s] \in BOOLEAN /\ expectedFcb[Peer(s)] \in BOOLEAN
  BY TwoStations DEF TypeOK
<1>6. InStep(s)' <=> ~InStep(s)
  BY <1>5 DEF InStep
<1>7. Held(s)' \in {0, 1}
  BY DEF Held
<1>8. AfterReset(s)' = IF nextFcb[s] THEN 1 ELSE 0
  BY <1>5 DEF AfterReset
<1>9. Debt(s)' = IF InStep(s)' THEN Held(s)' + AfterReset(s)'
                 ELSE Smaller(0, Held(s)' + AfterReset(s)')
  BY <1>2, <1>3 DEF Debt, DebtWhileSent, Smaller
<1>10. Debt(s) = IF InStep(s) THEN 0 ELSE IF nextFcb[s] THEN 2 ELSE 1
  BY DEF Debt
<1>11. Debt(s)' \in Nat /\ Debt(s)' <= Debt(s)
  BY <1>6, <1>7, <1>8, <1>9, <1>10 DEF Smaller
<1>12. faults.lost \in Nat /\ faults.foreign \in Nat
  BY DEF FaultTypes
<1>13. /\ Debt(s)' + 0 <= Debt(s) + 0 + 3 * 0 /\ 0 \in Nat
       /\ faults'.lost >= faults.lost + 0 /\ faults'.foreign >= faults.foreign + 0
  BY <1>10, <1>11, <1>12
<1>14. Paid(s)'
  BY <1>11, <1>13, PaidStep
<1> QED
  BY <1>4, <1>14

(* A repetition uses up what the loss of the frame before it cost.         *)
LEMMA RepeatPaid ==
  ASSUME TypeOK, PerStation, FaultTypes, CountTypes, [Next]_vars, NEW s \in Stations, Paid(s),
         primaryState[s] = "SEND_CONFIRM", primaryState'[s] = "SEND_CONFIRM",
         nextFcb'[s] = nextFcb[s], repeats'[s] = repeats[s] + 1, expectedFcb' = expectedFcb,
         delivered' = delivered, lastSendAsdu'[s] = lastSendAsdu[s], abandoned'[s] = abandoned[s],
         UnderWay(s) = {}, NEW f, UnderWay(s)' = {f}, f \in {TestFrame(s), Repetition(s)},
         faults'.lost = faults.lost, faults'.foreign = faults.foreign
  PROVE  Fits(s)' /\ Paid(s)'
<1>1. f # Answer("ACK") /\ f \notin ForeignAnswers
  BY SentKinds
<1>2. /\ Answer("ACK")' = Answer("ACK") /\ ForeignAnswers' = ForeignAnswers
      /\ TestFrame(s)' = TestFrame(s) /\ Repetition(s)' = Repetition(s)
  BY DEF Answer, ForeignAnswers, TestFrame, Repetition, repeatedFcb
<1>3. repeats[s] \in Nat
  BY BalancedAssumption DEF TypeOK
<1>4. Fits(s)'
  <2>1. UnderWay(s)' \subseteq ({TestFrame(s), Repetition(s), Answer("ACK")} \cup ForeignAnswers)'
    BY <1>2
  <2>2. Answer("ACK")' \notin UnderWay(s)'
    BY <1>1, <1>2
  <2>3. repeats'[s] >= 1
    BY <1>3
  <2> QED
    BY <2>1, <2>2, <2>3 DEF Fits
<1>5. Held(s)' = Held(s) /\ AfterReset(s)' = AfterReset(s) /\ (InStep(s)' <=> InStep(s))
  BY DEF Held, AfterReset, InStep, WasDelivered
<1>6. Debt(s) = IF InStep(s) THEN Held(s) + AfterReset(s)
                ELSE Smaller(repeats[s] + 1, Held(s) + AfterReset(s))
  BY DEF Debt, DebtWhileSent, Smaller
<1>7. Debt(s)' = IF InStep(s) THEN Held(s) + AfterReset(s)
                 ELSE Smaller(repeats[s] + 1 + 0, Held(s) + AfterReset(s))
  BY <1>1, <1>2, <1>5 DEF Debt, DebtWhileSent, Smaller
<1>8. Debt(s)' = Debt(s)
  BY <1>3, <1>6, <1>7
<1>9. Debt(s) \in Nat /\ faults.lost \in Nat /\ faults.foreign \in Nat
  BY DebtBounds DEF FaultTypes
<1>10. /\ Debt(s)' \in Nat /\ Debt(s)' + 0 <= Debt(s) + 0 + 3 * 0 /\ 0 \in Nat
       /\ faults'.lost >= faults.lost + 0 /\ faults'.foreign >= faults.foreign + 0
  BY <1>8, <1>9
<1>11. Paid(s)'
  BY <1>10, PaidStep
<1> QED
  BY <1>4, <1>11

(* What is lost when the ASDU in hand is given up was owed.                *)
LEMMA GiveUpPaid ==
  ASSUME TypeOK, PerStation, QueuesOK, FaultTypes, CountTypes, [Next]_vars, Repeats >= 1,
         NEW s \in Stations, Paid(s), RunGiveUp(s), UnderWay(s) = {},
         faults'.lost = faults.lost, faults'.foreign = faults.foreign
  PROVE  Fits(s)' /\ Paid(s)'
<1>1. /\ primaryState[s] = "SEND_CONFIRM" /\ repeats[s] >= Repeats
      /\ primaryState'[s] = "IDLE" /\ nextFcb' = nextFcb
  BY DEF RunGiveUp, TypeOK
<1>2. Fits(s)'
  BY <1>1 DEF Fits
<1>3. /\ repeats[s] \in Nat /\ Repeats \in Nat
      /\ Held(s) \in {0, 1} /\ AfterReset(s) \in {0, 1}
  BY DebtBounds, BalancedAssumption DEF TypeOK
<1>4. Debt(s) = Held(s) + AfterReset(s)
  <2>1. Debt(s) = IF InStep(s) THEN Held(s) + AfterReset(s)
                  ELSE Smaller(repeats[s] + 1, Held(s) + AfterReset(s))
    BY <1>1 DEF Debt, DebtWhileSent, Smaller
  <2>2. repeats[s] + 1 >= 2
    BY <1>1, <1>3
  <2>3. Smaller(repeats[s] + 1, Held(s) + AfterReset(s)) = Held(s) + AfterReset(s)
    BY <1>3, <2>2 DEF Smaller
  <2> QED
    BY <2>1, <2>3
<1>5. Debt(s)' = AfterReset(s)
  BY <1>1 DEF Debt, AfterReset
<1>6. PICK more \in {0, 1} :
        \/ abandoned'[s] = abandoned[s] /\ more = 0
        \/ /\ abandoned'[s] = abandoned[s] \cup {lastSendAsdu[s]} /\ lastSendAsdu[s] # NoAsdu
           /\ more = Held(s)
  <2>1. abandoned' = [abandoned EXCEPT ![s] = IF InHand(s) THEN @ \cup {lastSendAsdu[s]} ELSE @]
    BY DEF RunGiveUp, GiveUp
  <2>2. abandoned'[s] = IF InHand(s) THEN abandoned[s] \cup {lastSendAsdu[s]} ELSE abandoned[s]
    BY <2>1 DEF PerStation
  <2> QED
    BY <1>3, <2>2 DEF InHand
<1>7. more <= Held(s)
  BY <1>3, <1>6
<1>8. faults.lost \in Nat /\ faults.foreign \in Nat
  BY DEF FaultTypes
<1>9. /\ Debt(s)' \in Nat /\ Debt(s)' + more <= Debt(s) + 0 + 3 * 0 /\ 0 \in Nat
      /\ faults'.lost >= faults.lost + 0 /\ faults'.foreign >= faults.foreign + 0
  BY <1>3, <1>4, <1>5, <1>7, <1>8
<1>10. Paid(s)'
  BY <1>6, <1>9, PaidStep
<1> QED
  BY <1>2, <1>10

(* A run of the state machine costs its primary nothing it does not owe.   *)
LEMMA RunPaid ==
  ASSUME TypeOK, PerStation, QueuesOK, HasWhatItSent, FaultTypes, CountTypes, InHandOnlyWhileSent,
         [Next]_vars, Repeats >= 1, NEW s \in Stations, RunStateMachine(s),
         OneOutstanding(s), Fits(s), Paid(s), faults.late = 0, faults'.late = 0
  PROVE  Fits(s)' /\ Paid(s)'
<1> DEFINE p == Peer(s)
<1>1. p \in Stations /\ p # s
  BY TwoStations
<1>2. /\ UNCHANGED <<expectedFcb, delivered>>
      /\ faults'.lost = faults.lost /\ faults'.foreign = faults.foreign
      /\ faults.lost \in Nat /\ faults.foreign \in Nat
  BY OnlyHandlersRead, RunFaults DEF FaultTypes
<1>3. /\ line'[p] = line[p] => UnderWay(s)' = UnderWay(s)
      /\ \A f \in Requests(p) : line'[p] = Append(line[p], f) /\ Nothing(s) => UnderWay(s)' = {f}
  BY UnderWayRun
<1>4. Nothing(s) => UnderWay(s) = {}
  BY UnderWayOne
<1> HIDE DEF p
<1>5. \A f : Send(s, f) => line'[p] = Append(line[p], f)
  BY <1>1 DEF Send, p, PerStation
<1>6. nextFcb[s] \in BOOLEAN
  BY DEF TypeOK
<1>7. CASE RunIdle(s)
  <2>1. /\ primaryState[s] = "IDLE" /\ primaryState'[s] = "REQUEST_STATUS"
        /\ nextFcb' = nextFcb /\ abandoned' = abandoned /\ Send(s, LinkStatusRequest)
    BY <1>7 DEF RunIdle, TypeOK, LinkStatusRequest, history
  <2>2. LinkStatusRequest \in Requests(p)
    BY SentFrames DEF LinkStatusRequest, Requests, p, Fixed
  <2>3. Nothing(s)
    BY <2>1 DEF OneOutstanding, hasTimeout
  <2>4. UnderWay(s)' = {LinkStatusRequest}
    BY <1>3, <1>5, <2>1, <2>2, <2>3
  <2>5. Fits(s)'
    BY <2>1, <2>4 DEF Fits, LinkStatusRequest, Fixed
  <2>6. Debt(s)' = Debt(s)
    BY <2>1 DEF Debt, AfterReset
  <2>7. /\ Debt(s)' \in Nat /\ Debt(s)' + 0 <= Debt(s) + 0 + 3 * 0 /\ 0 \in Nat
        /\ faults'.lost >= faults.lost + 0 /\ faults'.foreign >= faults.foreign + 0
    BY <1>2, <2>6, DebtBounds
  <2>8. Paid(s)'
    BY <2>1, <2>7, PaidStep
  <2> QED
    BY <2>5, <2>8
<1>8. CASE RunTimeoutStatusOrReset(s)
  <2>1. /\ primaryState[s] \in {"REQUEST_STATUS", "RESET_REMOTE_LINK"} /\ primaryState'[s] = "IDLE"
        /\ nextFcb' = nextFcb /\ abandoned' = abandoned
    BY <1>8 DEF RunTimeoutStatusOrReset, TypeOK
  <2>2. Fits(s)'
    BY <2>1 DEF Fits
  <2>3. Debt(s)' = Debt(s)
    BY <2>1 DEF Debt, AfterReset
  <2>4. /\ Debt(s)' \in Nat /\ Debt(s)' + 0 <= Debt(s) + 0 + 3 * 0 /\ 0 \in Nat
        /\ faults'.lost >= faults.lost + 0 /\ faults'.foreign >= faults.foreign + 0
    BY <1>2, <2>3, DebtBounds
  <2>5. Paid(s)'
    BY <2>1, <2>4, PaidStep
  <2> QED
    BY <2>2, <2>5
<1>9. CASE RunSendTestFunction(s)
  <2>1. /\ primaryState[s] = "LINK_LAYERS_AVAILABLE" /\ primaryState'[s] = "SEND_CONFIRM"
        /\ nextFcb'[s] = ~nextFcb[s] /\ repeats'[s] = 0 /\ abandoned' = abandoned
        /\ lastSendAsdu' = lastSendAsdu
        /\ Send(s, Fixed("TEST_FUNCTION_FOR_LINK", nextFcb[s], TRUE))
    BY <1>9 DEF RunSendTestFunction, TypeOK, history
  <2>2. TestFrame(s)' = Fixed("TEST_FUNCTION_FOR_LINK", nextFcb[s], TRUE)
    BY <1>6, <2>1 DEF TestFrame, repeatedFcb, Fixed, NoAsdu
  <2>3. TestFrame(s)' \in Requests(p)
    <3>1. Fixed("TEST_FUNCTION_FOR_LINK", nextFcb[s], TRUE) \in Frames(p)
      BY <1>6, SentFrames DEF p
    <3>2. Fixed("TEST_FUNCTION_FOR_LINK", nextFcb[s], TRUE).prm
      BY DEF Fixed
    <3> QED
      BY <2>2, <3>1, <3>2 DEF Requests
  <2>4. Nothing(s) /\ lastSendAsdu'[s] = NoAsdu
    BY <2>1 DEF OneOutstanding, hasTimeout, InHandOnlyWhileSent
  <2>5. UnderWay(s)' = {TestFrame(s)'}
    BY <1>3, <1>5, <2>1, <2>2, <2>3, <2>4
  <2> QED
    BY <1>2, <2>1, <2>4, <2>5, FirstSendPaid
<1>10. CASE RunSendUserData(s)
  <2>1. /\ primaryState[s] = "LINK_LAYERS_AVAILABLE" /\ primaryState'[s] = "SEND_CONFIRM"
        /\ nextFcb'[s] = ~nextFcb[s] /\ repeats'[s] = 0 /\ abandoned' = abandoned
    BY <1>10 DEF RunSendUserData, TypeOK, history
  <2>2. line'[p] = Append(line[p], Repetition(s)') /\ Repetition(s)' \in Frames(p)
    BY <1>10, SentIsRepetition DEF p
  <2>3. Repetition(s)'.prm
    BY DEF Repetition, UserData
  <2>4. Repetition(s)' \in Requests(p) /\ Nothing(s)
    BY <2>1, <2>2, <2>3 DEF Requests, OneOutstanding, hasTimeout
  <2>5. UnderWay(s)' = {Repetition(s)'}
    BY <1>3, <2>2, <2>4
  <2> QED
    BY <1>2, <2>1, <2>5, FirstSendPaid
<1>11. CASE RunRepeat(s)
  <2>1. /\ primaryState[s] = "SEND_CONFIRM" /\ primaryState' = primaryState
        /\ nextFcb' = nextFcb /\ repeats'[s] = repeats[s] + 1 /\ abandoned' = abandoned
        /\ lastSendAsdu' = lastSendAsdu
        /\ Send(s, IF sendLinkLayerTestFunction[s] THEN TestFrame(s) ELSE Repetition(s))
    BY <1>11 DEF RunRepeat, TypeOK, history, TestFrame, Repetition
  <2>2. PICK f : /\ f = (IF sendLinkLayerTestFunction[s] THEN TestFrame(s) ELSE Repetition(s))
                 /\ Send(s, f)
    BY <2>1
  <2>3. f \in Requests(p)
    <3>1. CASE sendLinkLayerTestFunction[s]
      <4>1. repeatedFcb(s) \in BOOLEAN
        BY <1>6 DEF repeatedFcb
      <4>2. TestFrame(s) \in Frames(p)
        BY <4>1, SentFrames DEF TestFrame, p
      <4>3. TestFrame(s).prm
        BY DEF TestFrame, Fixed
      <4> QED
        BY <2>2, <3>1, <4>2, <4>3 DEF Requests
    <3>2. CASE ~sendLinkLayerTestFunction[s]
      <4>1. MayRepeat(s)
        BY <2>1, <3>2, InHandType
      <4>2. Repetition(s) \in Frames(p)
        BY <4>1, RepetitionType DEF p
      <4>3. Repetition(s).prm
        BY DEF Repetition, UserData
      <4> QED
        BY <2>2, <3>2, <4>2, <4>3 DEF Requests
    <3> QED
      BY <3>1, <3>2
  <2>4. Nothing(s)
    BY <1>11, PromptTimeout DEF RunRepeat
  <2>5. UnderWay(s) = {} /\ UnderWay(s)' = {f}
    BY <1>3, <1>4, <1>5, <2>2, <2>3, <2>4
  <2>6. f \in {TestFrame(s), Repetition(s)}
    BY <2>2
  <2>7. /\ primaryState'[s] = "SEND_CONFIRM" /\ nextFcb'[s] = nextFcb[s]
        /\ lastSendAsdu'[s] = lastSendAsdu[s] /\ abandoned'[s] = abandoned[s]
    BY <2>1
  <2> QED
    BY <1>2, <2>1, <2>5, <2>6, <2>7, RepeatPaid
<1>12. CASE RunGiveUp(s)
  <2>1. Nothing(s)
    BY <1>12, PromptTimeout DEF RunGiveUp
  <2>2. UnderWay(s) = {}
    BY <1>4, <2>1
  <2> QED
    BY <1>2, <1>12, <2>2, GiveUpPaid
<1>13. CASE RunNothing(s)
  <2>1. UNCHANGED vars
    BY <1>13 DEF RunNothing
  <2>2. /\ UNCHANGED <<primaryState, nextFcb, repeats, lastSendAsdu, expectedFcb, delivered,
                       abandoned, line>>
    BY <2>1 DEF vars, primary, history
  <2>3. UnderWay(s)' = UnderWay(s)
    BY <1>3, <2>2
  <2>4. faults'.lost >= faults.lost /\ faults'.foreign >= faults.foreign
    BY <1>2
  <2> QED
    BY <2>2, <2>3, <2>4, UntouchedPaid
<1> QED
  BY <1>7, <1>8, <1>9, <1>10, <1>11, <1>12, <1>13 DEF RunStateMachine

(* An ACK is no foreign answer, and neither is the link status. *)
LEMMA AnswerKinds ==
  /\ Answer("ACK") \notin ForeignAnswers /\ Answer("ACK") # Answer("STATUS_OF_LINK")
  /\ Answer("ACK").prm = FALSE /\ Answer("STATUS_OF_LINK").prm = FALSE
  /\ \A f \in ForeignAnswers : f.prm = FALSE
<1>1. /\ Answer("ACK").fc = "ACK" /\ Answer("ACK").dfc = FALSE
      /\ Answer("STATUS_OF_LINK").fc = "STATUS_OF_LINK"
      /\ Answer("ACK").prm = FALSE /\ Answer("STATUS_OF_LINK").prm = FALSE
  BY DEF Answer
<1>2. \A f \in ForeignAnswers : f.prm = FALSE /\ (f.fc = "ACK" => f.dfc = TRUE)
  BY DEF ForeignAnswers, Answer
<1> QED
  BY <1>1, <1>2

(* What is under way for the primary of p after s handled its request r.   *)
InReply(s, p, r) ==
  \/ /\ UnderWay(p)' = {} /\ UNCHANGED <<expectedFcb, delivered>>
     /\ r.fcv /\ r.fcb # expectedFcb[s]
  \/ /\ UnderWay(p)' = {Answer("ACK")} /\ UNCHANGED delivered
     /\ r.fc = "RESET_REMOTE_LINK" /\ expectedFcb'[s] = TRUE
  \/ /\ UnderWay(p)' = {Answer("ACK")} /\ UNCHANGED delivered
     /\ r.fc = "TEST_FUNCTION_FOR_LINK"
     /\ r.fcv => r.fcb = expectedFcb[s] /\ expectedFcb'[s] = ~expectedFcb[s]
  \/ /\ UnderWay(p)' = {Answer("ACK")}
     /\ delivered'[s] = Append(delivered[s], r.asdu)
     /\ r.fc = "USER_DATA_CONFIRMED"
     /\ r.fcv => r.fcb = expectedFcb[s] /\ expectedFcb'[s] = ~expectedFcb[s]
  \/ /\ UnderWay(p)' = {Answer("STATUS_OF_LINK")}
     /\ UNCHANGED <<expectedFcb, delivered>> /\ r.fc = "REQUEST_LINK_STATUS"
  \/ /\ \E f \in ForeignAnswers : UnderWay(p)' = {f}
     /\ UNCHANGED <<expectedFcb, delivered>> /\ ForeignAnswer(s)

(* The peer's primary has one frame under way when s reads its request,    *)
(* and at most the answer afterwards.                                      *)
LEMMA RequestAnswered ==
  ASSUME TypeOK, PerStation, NEW s \in Stations, OneOutstanding(s), OneOutstanding(Peer(s)),
         HandleMessage(s), line[s][1].prm, NEW p, p = Peer(s), NEW r, r = line[s][1]
  PROVE  /\ UnderWay(p) = {r}
         /\ InReply(s, p, r)
<1>1. /\ UnderWay(p) = {r}
      /\ line'[p] = line[p] => UnderWay(p)' = {}
      /\ \A f \in Answers(p) : line'[p] = Append(line[p], f) => UnderWay(p)' = {f}
  BY UnderWayRequestRead
<1>2. /\ Answer("ACK") \in Answers(p) /\ Answer("STATUS_OF_LINK") \in Answers(p)
      /\ ForeignAnswers \subseteq Answers(p)
  BY SentFrames DEF Answers
<1>3. Replied(s, p, r)
  BY SecondaryAnswers
<1> QED
  BY <1>1, <1>2, <1>3 DEF Replied, InReply

(* The answer to a request for the link status or to a link reset changes  *)
(* nothing in what is owed.                                                *)
LEMMA LinkRequestPaid ==
  ASSUME TypeOK, PerStation, FaultTypes, CountTypes, [Next]_vars, NEW s \in Stations,
         HandleMessage(s), line[s][1].prm, OneOutstanding(s), OneOutstanding(Peer(s)),
         NEW p, p = Peer(s), NEW r, r = line[s][1], Fits(p), Paid(p),
         primaryState[p] \in {"REQUEST_STATUS", "RESET_REMOTE_LINK"}
  PROVE  Fits(p)' /\ Paid(p)'
<1>1. p \in Stations /\ p # s /\ Peer(p) = s
  BY TwoStations
<1>2. UNCHANGED <<primaryState, nextFcb, abandoned>>
  BY SecondaryAnswers DEF primary
<1>3. /\ UnderWay(p) = {r}
      /\ \/ r.fcv
         \/ UnderWay(p)' = {Answer("ACK")} /\ r.fc = "RESET_REMOTE_LINK" /\ expectedFcb'[s] = TRUE
         \/ r.fc \in {"TEST_FUNCTION_FOR_LINK", "USER_DATA_CONFIRMED"}
         \/ UnderWay(p)' = {Answer("STATUS_OF_LINK")} /\ r.fc = "REQUEST_LINK_STATUS"
         \/ \E f \in ForeignAnswers : UnderWay(p)' = {f}
  BY RequestAnswered DEF InReply
<1>4. r.prm
  OBVIOUS
<1>5. /\ LinkStatusRequest.fcv = FALSE /\ LinkStatusRequest.fc = "REQUEST_LINK_STATUS"
      /\ LinkReset.fcv = FALSE /\ LinkReset.fc = "RESET_REMOTE_LINK"
  BY DEF LinkStatusRequest, LinkReset, Fixed
<1>6. /\ LinkStatusRequest' = LinkStatusRequest /\ Answer("ACK")' = Answer("ACK")
      /\ Answer("STATUS_OF_LINK")' = Answer("STATUS_OF_LINK") /\ ForeignAnswers' = ForeignAnswers
      /\ LinkReset' = LinkReset
  BY DEF LinkStatusRequest, LinkReset, Fixed, Answer, ForeignAnswers
<1>7. Fits(p)'
  <2>1. CASE primaryState[p] = "REQUEST_STATUS"
    <3>1. r = LinkStatusRequest
      BY <1>3, <1>4, <2>1, AnswerKinds DEF Fits
    <3>2. UnderWay(p)' \subseteq {Answer("STATUS_OF_LINK")} \cup ForeignAnswers
      BY <1>3, <1>5, <3>1
    <3> QED
      BY <1>2, <1>6, <2>1, <3>2 DEF Fits
  <2>2. CASE primaryState[p] = "RESET_REMOTE_LINK"
    <3>1. r = LinkReset
      BY <1>3, <1>4, <2>2, AnswerKinds DEF Fits
    <3>2. /\ UnderWay(p)' \subseteq {Answer("ACK")} \cup ForeignAnswers
          /\ Answer("ACK") \in UnderWay(p)' => expectedFcb'[s] = TRUE
      BY <1>3, <1>5, <3>1, AnswerKinds
    <3> QED
      BY <1>1, <1>2, <1>6, <2>2, <3>2 DEF Fits
  <2> QED
    BY <2>1, <2>2
<1>8. Debt(p)' = Debt(p)
  BY <1>2 DEF Debt, AfterReset
<1>9. /\ faults'.lost >= faults.lost + 0 /\ faults'.foreign >= faults.foreign + 0
  BY HandleFaults
<1>10. Debt(p)' \in Nat /\ Debt(p)' + 0 <= Debt(p) + 0 + 3 * 0 /\ 0 \in Nat
  BY <1>1, <1>8, DebtBounds
<1>11. Paid(p)'
  BY <1>1, <1>2, <1>9, <1>10, PaidStep
<1> QED
  BY <1>7, <1>11

(* The secondary's answer to a test frame or to user data brings the       *)
(* stations back into step: an ASDU it accepts is no longer owed, a        *)
(* repetition it drops owes what the frame before it owed.  A foreign      *)
(* answer may cost three.                                                  *)
LEMMA SentFramePaid ==
  ASSUME TypeOK, PerStation, QueuesOK, FaultTypes, CountTypes, [Next]_vars, NEW s \in Stations,
         HandleMessage(s), line[s][1].prm, OneOutstanding(s), OneOutstanding(Peer(s)),
         NEW p, p = Peer(s), NEW r, r = line[s][1], Fits(p), Paid(p),
         primaryState[p] = "SEND_CONFIRM"
  PROVE  Fits(p)' /\ Paid(p)'
<1>1. p \in Stations /\ p # s /\ Peer(p) = s
  BY TwoStations
<1>2. UNCHANGED <<primaryState, nextFcb, repeats, lastSendAsdu, abandoned>>
  BY SecondaryAnswers DEF primary
<1>3. /\ UnderWay(p) = {r}
      /\ \/ /\ UnderWay(p)' = {} /\ UNCHANGED <<expectedFcb, delivered>>
            /\ r.fcv /\ r.fcb # expectedFcb[s]
         \/ r.fc \in {"RESET_REMOTE_LINK", "REQUEST_LINK_STATUS"}
         \/ /\ UnderWay(p)' = {Answer("ACK")} /\ UNCHANGED delivered
            /\ r.fc = "TEST_FUNCTION_FOR_LINK"
            /\ r.fcv => r.fcb = expectedFcb[s] /\ expectedFcb'[s] = ~expectedFcb[s]
         \/ /\ UnderWay(p)' = {Answer("ACK")}
            /\ delivered'[s] = Append(delivered[s], r.asdu)
            /\ r.fc = "USER_DATA_CONFIRMED"
            /\ r.fcv => r.fcb = expectedFcb[s] /\ expectedFcb'[s] = ~expectedFcb[s]
         \/ /\ \E f \in ForeignAnswers : UnderWay(p)' = {f}
            /\ UNCHANGED <<expectedFcb, delivered>> /\ ForeignAnswer(s)
  <2>1. UnderWay(p) = {r} /\ InReply(s, p, r)
    BY RequestAnswered
  <2> QED
    BY <2>1 DEF InReply
<1>4. r.prm
  OBVIOUS
<1>5. r \in {TestFrame(p), Repetition(p)}
  BY <1>2, <1>3, <1>4, AnswerKinds DEF Fits
<1>6. /\ r.fcv = TRUE /\ r.fcb = ~nextFcb[p]
      /\ r.fc \in {"TEST_FUNCTION_FOR_LINK", "USER_DATA_CONFIRMED"}
      /\ r.fc = "TEST_FUNCTION_FOR_LINK" => r = TestFrame(p)
      /\ r.fc = "USER_DATA_CONFIRMED" => r.asdu = lastSendAsdu[p]
  <2>1. CASE r = TestFrame(p)
    BY <2>1 DEF TestFrame, Fixed, repeatedFcb
  <2>2. CASE r = Repetition(p)
    BY <2>2 DEF Repetition, UserData, repeatedFcb
  <2> QED
    BY <1>5, <2>1, <2>2
<1>7. /\ nextFcb[p] \in BOOLEAN /\ expectedFcb[s] \in BOOLEAN /\ repeats[p] \in Nat
  BY <1>1, BalancedAssumption DEF TypeOK
<1>8. /\ Held(p) \in {0, 1} /\ AfterReset(p) \in {0, 1} /\ Debt(p) \in 0..3
      /\ AfterReset(p)' = AfterReset(p)
      /\ \A a : WasDelivered(p, a) => WasDelivered(p, a)'
  BY <1>1, <1>2, DebtBounds, DeliveredGrows DEF AfterReset
<1>9. /\ TestFrame(p)' = TestFrame(p) /\ Repetition(p)' = Repetition(p)
      /\ Answer("ACK")' = Answer("ACK") /\ ForeignAnswers' = ForeignAnswers
  BY <1>2 DEF TestFrame, Repetition, repeatedFcb, Answer, ForeignAnswers
<1>10. r \notin ForeignAnswers /\ r # Answer("ACK")
  BY <1>4, AnswerKinds
<1>11. Debt(p) = IF InStep(p) THEN Held(p) + AfterReset(p)
                 ELSE Smaller(repeats[p], Held(p) + AfterReset(p))
  <2>1. UnderWay(p) \cap ForeignAnswers = {} /\ Answer("ACK") \notin UnderWay(p) /\ UnderWay(p) # {}
    BY <1>3, <1>10
  <2>2. repeats[p] + 0 = repeats[p]
    BY <1>7
  <2> QED
    BY <2>1, <2>2 DEF Debt, DebtWhileSent
<1>12. InStep(p) <=> r.fcb # expectedFcb[s]
  BY <1>1, <1>6, <1>7 DEF InStep
<1>13. /\ faults.lost \in Nat /\ faults.foreign \in Nat
       /\ faults'.lost >= faults.lost + 0 /\ faults'.foreign >= faults.foreign + 0
       /\ ForeignAnswer(s) => faults'.foreign >= faults.foreign + 1
       /\ 0 \in Nat /\ 1 \in Nat
  BY HandleFaults
<1>14. CASE /\ UnderWay(p)' = {} /\ UNCHANGED <<expectedFcb, delivered>>
            /\ r.fcb # expectedFcb[s]
  <2>1. Held(p)' = Held(p) /\ InStep(p)' /\ InStep(p)
    BY <1>1, <1>2, <1>12, <1>14 DEF Held, InStep, WasDelivered
  <2>2. Debt(p)' = Held(p)' + AfterReset(p)'
    BY <1>2, <1>14, <2>1 DEF Debt, DebtWhileSent
  <2>3. Debt(p)' \in Nat /\ Debt(p)' + 0 <= Debt(p) + 0 + 3 * 0
    BY <1>8, <1>11, <2>1, <2>2
  <2>4. Fits(p)'
    BY <1>2, <1>14 DEF Fits
  <2>5. Paid(p)'
    BY <1>1, <1>2, <1>13, <2>3, PaidStep
  <2> QED
    BY <2>4, <2>5
<1>15. CASE /\ UnderWay(p)' = {Answer("ACK")} /\ r.fcb = expectedFcb[s]
            /\ expectedFcb'[s] = ~expectedFcb[s]
            /\ \/ r.fc = "TEST_FUNCTION_FOR_LINK" /\ UNCHANGED delivered
               \/ r.fc = "USER_DATA_CONFIRMED" /\ delivered'[s] = Append(delivered[s], r.asdu)
  <2>1. InStep(p)' /\ ~InStep(p) /\ expectedFcb'[s] = nextFcb'[p]
    BY <1>1, <1>2, <1>6, <1>7, <1>12, <1>15 DEF InStep
  <2>2. Debt(p)' = Held(p)'
    <3>1. Held(p)' \in {0, 1}
      BY DEF Held
    <3>2. Debt(p)' = Held(p)' + 0
      BY <1>2, <1>9, <1>15, <2>1, AnswerKinds DEF Debt, DebtWhileSent
    <3> QED
      BY <3>1, <3>2
  <2>3. Held(p)' <= Debt(p) /\ Held(p)' \in Nat
    <3>1. CASE r.fc = "TEST_FUNCTION_FOR_LINK" /\ UNCHANGED delivered
      <4>1. Held(p)' = Held(p)
        BY <1>2, <3>1 DEF Held, WasDelivered
      <4>2. Held(p) = 1 => repeats[p] >= 1
        BY <1>3, <1>6, <3>1 DEF Fits, Held
      <4>3. Debt(p) = Smaller(repeats[p], Held(p) + AfterReset(p))
        BY <1>11, <2>1
      <4> QED
        BY <1>7, <1>8, <4>1, <4>2, <4>3 DEF Smaller
    <3>2. CASE r.fc = "USER_DATA_CONFIRMED" /\ delivered'[s] = Append(delivered[s], r.asdu)
      <4>1. r.asdu = lastSendAsdu[p]
        BY <1>6, <3>2
      <4>2. lastSendAsdu[p] # NoAsdu => WasDelivered(p, lastSendAsdu[p])'
        <5>1. delivered[s] \in Seq(AsdusOf(p)) /\ lastSendAsdu[p] \in AsdusOf(p) \cup {NoAsdu}
          BY <1>1 DEF TypeOK
        <5>2. SUFFICES ASSUME lastSendAsdu[p] \in AsdusOf(p)
                       PROVE  \E n \in DOMAIN delivered'[s] : delivered'[s][n] = lastSendAsdu'[p]
          BY <1>1, <1>2, <5>1 DEF WasDelivered
        <5>3. /\ Len(delivered'[s]) = Len(delivered[s]) + 1 /\ Len(delivered[s]) \in Nat
              /\ delivered'[s] \in Seq(AsdusOf(p))
              /\ delivered'[s][Len(delivered[s]) + 1] = lastSendAsdu[p]
          BY <3>2, <4>1, <5>1, <5>2, AppendIndex
        <5>4. Len(delivered[s]) + 1 \in DOMAIN delivered'[s]
          BY <5>3
        <5> QED
          BY <1>2, <5>3, <5>4
      <4>3. Held(p)' = 0
        BY <1>2, <4>2 DEF Held, NoAsdu
      <4> QED
        BY <1>8, <4>3
    <3> QED
      BY <1>15, <3>1, <3>2
  <2>4. Debt(p)' \in Nat /\ Debt(p)' + 0 <= Debt(p) + 0 + 3 * 0
    BY <1>8, <2>2, <2>3
  <2>5. Fits(p)'
    <3>1. /\ UnderWay(p)' \subseteq ({TestFrame(p), Repetition(p), Answer("ACK")} \cup ForeignAnswers)'
          /\ expectedFcb'[Peer(p)] = nextFcb'[p]
      BY <1>1, <1>9, <1>15, <2>1
    <3>2. TestFrame(p)' \notin UnderWay(p)'
      BY <1>9, <1>15, SentKinds
    <3> QED
      BY <1>2, <3>1, <3>2 DEF Fits
  <2>6. Paid(p)'
    BY <1>1, <1>2, <1>13, <2>4, PaidStep
  <2> QED
    BY <2>5, <2>6
<1>16. CASE /\ \E f \in ForeignAnswers : UnderWay(p)' = {f}
            /\ UNCHANGED <<expectedFcb, delivered>> /\ ForeignAnswer(s)
  <2>1. PICK f \in ForeignAnswers : UnderWay(p)' = {f}
    BY <1>16
  <2>2. Debt(p)' = 3
    BY <1>2, <1>9, <2>1 DEF Debt, DebtWhileSent
  <2>3. Debt(p)' \in Nat /\ Debt(p)' + 0 <= Debt(p) + 0 + 3 * 1
    BY <1>8, <2>2
  <2>4. Fits(p)'
    <3>1. f # Answer("ACK") /\ f # TestFrame(p)
      BY AnswerKinds, SentKinds
    <3>2. UnderWay(p)' \subseteq ({TestFrame(p), Repetition(p), Answer("ACK")} \cup ForeignAnswers)'
      BY <1>9, <2>1
    <3>3. Answer("ACK")' \notin UnderWay(p)' /\ TestFrame(p)' \notin UnderWay(p)'
      BY <1>9, <2>1, <3>1
    <3> QED
      BY <1>2, <3>2, <3>3 DEF Fits
  <2>5. Paid(p)'
    <3>1. faults'.foreign >= faults.foreign + 1
      BY <1>13, <1>16
    <3> QED
      BY <1>1, <1>2, <1>13, <2>3, <3>1, PaidStep
  <2> QED
    BY <2>4, <2>5
<1> QED
  BY <1>3, <1>6, <1>14, <1>15, <1>16

(* At the start nothing is owed. *)
LEMMA InitDInv == Init => DInv
<1> SUFFICES ASSUME Init PROVE DInv
  OBVIOUS
<1>1. PInv /\ CountTypes
  BY InitPInv, InitRInv DEF RInv
<1>2. ASSUME NEW s \in Stations
      PROVE  Fits(s) /\ Paid(s)
  <2>1. /\ Peer(s) \in Stations /\ primaryState[s] = "IDLE" /\ nextFcb[s] = TRUE
        /\ abandoned[s] = {} /\ faults.lost = 0 /\ faults.foreign = 0
    BY <1>2, TwoStations DEF Init
  <2>2. Fits(s)
    BY <2>1 DEF Fits
  <2>3. Debt(s) = 0
    BY <2>1 DEF Debt, AfterReset
  <2>4. undelivered(s) = {}
    BY <2>1 DEF undelivered
  <2>5. Cardinality(undelivered(s)) = 0
    BY <2>4, FS_EmptySet
  <2> QED
    BY <2>1, <2>2, <2>3, <2>5 DEF Paid
<1> QED
  BY <1>1, <1>2 DEF DInv, WhilePromptPaid

(* Every step preserves the invariant about what the faults cost. *)
LEMMA NextDInv ==
  ASSUME Repeats >= 1
  PROVE  DInv /\ [Next]_vars => DInv'
<1> SUFFICES ASSUME DInv, [Next]_vars PROVE DInv'
  OBVIOUS
<1>1. /\ PInv /\ CountTypes /\ WhilePromptPaid /\ FaultTypes /\ InHandOnlyWhileSent /\ WhilePrompt
      /\ TypeOK /\ PerStation /\ HasWhatItSent /\ QueuesOK
  BY DEF DInv, PInv, IInv
<1>2. PInv'
  BY <1>1, NextPInv
<1>3. CASE UNCHANGED vars
  <2>1. CountTypes'
    BY <1>1, <1>3 DEF vars, history, CountTypes
  <2>2. ASSUME faults'.late = 0, NEW t \in Stations
        PROVE  Fits(t)' /\ Paid(t)'
    <3>1. Fits(t) /\ Paid(t) /\ OneOutstanding(t) /\ Peer(t) \in Stations
      BY <1>1, <1>3, <2>2, TwoStations DEF WhilePromptPaid, WhilePrompt, vars
    <3>2. UnderWay(t)' = UnderWay(t)
      BY <1>3 DEF vars, UnderWay, Requests, Answers
    <3>3. UNCHANGED <<primaryState, nextFcb, repeats, lastSendAsdu, expectedFcb, delivered,
                      abandoned, faults>>
      BY <1>3 DEF vars, primary, history
    <3>4. faults'.lost >= faults.lost /\ faults'.foreign >= faults.foreign
      BY <1>1, <3>3 DEF FaultTypes
    <3> QED
      BY <1>1, <3>1, <3>2, <3>3, <3>4, UntouchedPaid
  <2> QED
    BY <1>2, <2>1, <2>2 DEF DInv, WhilePromptPaid
<1>4. ASSUME NEW s \in Stations,
             \/ HandleMessage(s) \/ RunStateMachine(s) \/ Lose(s) \/ sendTest(s)
             \/ \E c \in Classes[s] : Enqueue(s, c)
      PROVE  DInv'
  <2>1. /\ Peer(s) \in Stations /\ Peer(s) # s /\ Peer(Peer(s)) = s
        /\ \A t \in Stations : t = s \/ t = Peer(s)
    BY TwoStations
  <2>2. CountTypes'
    <3>1. /\ errors' \in [Stations -> Nat]
          /\ abandoned'[s] = abandoned[s] \/ abandoned'[s] = abandoned[s] \cup {lastSendAsdu[s]}
          /\ \A t \in Stations : t # s => abandoned'[t] = abandoned[t]
      BY <1>1, <1>4, GiveUpSteps
    <3>2. \A t \in Stations : IsFiniteSet(abandoned[t])
      BY <1>1 DEF CountTypes
    <3>3. IsFiniteSet(abandoned'[s])
      <4>1. IsFiniteSet(abandoned[s])
        BY <3>2
      <4>2. IsFiniteSet(abandoned[s] \cup {lastSendAsdu[s]})
        BY <4>1, FS_AddElement
      <4> QED
        BY <3>1, <4>1, <4>2
    <3> QED
      BY <3>1, <3>2, <3>3 DEF CountTypes
  <2>3. ASSUME faults'.late = 0
        PROVE  Fits(s)' /\ Paid(s)' /\ Fits(Peer(s))' /\ Paid(Peer(s))'
    <3>1. faults.late = 0
      BY <1>1, <2>3, FaultsAddUp DEF FaultTypes
    <3>2. \A t \in Stations : Fits(t) /\ Paid(t) /\ OneOutstanding(t)
      BY <1>1, <3>1 DEF WhilePromptPaid, WhilePrompt
    <3>3. CASE Lose(s) \/ sendTest(s) \/ (\E c \in Classes[s] : Enqueue(s, c))
      BY <1>1, <2>1, <3>2, <3>3, EnvironmentPaid
    <3>4. CASE RunStateMachine(s)
      <4>1. Fits(s)' /\ Paid(s)'
        BY <1>1, <2>3, <3>1, <3>2, <3>4, RunPaid
      <4>2. Fits(Peer(s))' /\ Paid(Peer(s))'
        BY <1>1, <2>1, <3>2, <3>4, BystanderPaid
      <4> QED
        BY <4>1, <4>2
    <3>5. CASE HandleMessage(s) /\ ~line[s][1].prm
      <4>1. Fits(s)' /\ Paid(s)'
        BY <1>1, <2>1, <3>2, <3>5, AnswerPaid
      <4>2. Fits(Peer(s))' /\ Paid(Peer(s))'
        BY <1>1, <2>1, <3>2, <3>5, BystanderPaid
      <4> QED
        BY <4>1, <4>2
    <3>6. CASE HandleMessage(s) /\ line[s][1].prm
      <4>1. Fits(s)' /\ Paid(s)'
        BY <1>1, <2>1, <3>2, <3>6, BystanderPaid
      <4>2. PICK p, r : p = Peer(s) /\ r = line[s][1]
        OBVIOUS
      <4>3. p \in Stations /\ Fits(p) /\ Paid(p) /\ OneOutstanding(s) /\ OneOutstanding(Peer(s))
        BY <2>1, <3>2, <4>2
      <4>4. UnderWay(p) = {r}
        BY <1>1, <3>6, <4>2, <4>3, RequestAnswered
      <4>5. primaryState[p] \in {"REQUEST_STATUS", "RESET_REMOTE_LINK", "SEND_CONFIRM"}
        BY <1>1, <4>2, <4>3, <4>4, UnderWayOne DEF hasTimeout
      <4>6. CASE primaryState[p] \in {"REQUEST_STATUS", "RESET_REMOTE_LINK"}
        BY <1>1, <3>6, <4>1, <4>2, <4>3, <4>6, LinkRequestPaid
      <4>7. CASE primaryState[p] = "SEND_CONFIRM"
        BY <1>1, <3>6, <4>1, <4>2, <4>3, <4>7, SentFramePaid
      <4> QED
        BY <4>5, <4>6, <4>7
    <3> QED
      BY <1>4, <3>3, <3>4, <3>5, <3>6
  <2> QED
    BY <1>2, <2>1, <2>2, <2>3 DEF DInv, WhilePromptPaid
<1> QED
  BY <1>3, <1>4 DEF Next

(* As long as no timer runs out while the answer is under way, the ASDUs   *)
(* that are given up and never reach the peer are bounded by the frames    *)
(* lost and three times the foreign answers, although a link reset sets    *)
(* the secondary's expectedFcb and leaves nextFcb alone; and they are      *)
(* reported.  The primary repeats a frame at least once, as with the       *)
(* default parameters (timeoutForAck 200 ms, timeoutRepeat 1000 ms: up to  *)
(* four times, for the time since the first transmission has to exceed the *)
(* one as well as that since the last one the other):                      *)
(* without any repetition a lost frame may cost two ASDUs.                 *)
THEOREM LossesAccounted ==
  ASSUME Repeats >= 1
  PROVE  Spec => [](faults.late = 0 => LossAccounted)
<1>1. DInv => (faults.late = 0 => LossBounded)
  <2> SUFFICES ASSUME DInv, faults.late = 0, NEW s \in Stations
               PROVE  Cardinality(undelivered(s)) <= faults.lost + faults.late + 3 * faults.foreign
    BY DEF LossBounded
  <2>1. Paid(s) /\ TypeOK /\ FaultTypes /\ IsFiniteSet(abandoned[s])
    BY DEF DInv, PInv, IInv, WhilePromptPaid, CountTypes
  <2>2. undelivered(s) \in SUBSET abandoned[s]
    BY DEF undelivered
  <2>3. Cardinality(undelivered(s)) \in Nat
    BY <2>1, <2>2, FS_Subset, FS_CardinalityType
  <2>4. Debt(s) \in Nat /\ faults.lost \in Nat /\ faults.foreign \in Nat
    BY <2>1, DebtBounds DEF FaultTypes
  <2>5. Cardinality(undelivered(s)) + Debt(s) <= faults.lost + 3 * faults.foreign
    BY <2>1 DEF Paid
  <2> QED
    BY <2>3, <2>4, <2>5
<1>2. LossReported /\ DInv => (faults.late = 0 => LossAccounted)
  BY <1>1 DEF LossAccounted
<1>3. DInv /\ [Next]_vars => DInv'
  BY NextDInv
<1> QED
  BY <1>2, <1>3, InitDInv, LossesReported, PTL DEF Spec
=============================================================================
