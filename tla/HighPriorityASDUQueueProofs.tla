--------------------- MODULE HighPriorityASDUQueueProofs ---------------------
(***************************************************************************)
(* Proofs about the response queue when all responses have one size, for   *)
(* every such size and every size of the buffer.  (With several sizes the  *)
(* queue is not the FIFO it should be: see the run highprio_mixed.)        *)
(***************************************************************************)
EXTENDS HighPriorityASDUQueue, FiniteSetTheorems, TLAPS

-----------------------------------------------------------------------------
(* Iterated functions: the loops that go from one entry of the buffer to   *)
(* the next                                                                *)

(* A set of natural numbers that has an element has a least one. *)
LEMMA LeastNatural ==
  ASSUME NEW T \in SUBSET Nat, T # {}
  PROVE  \E x \in T : \A y \in T : x <= y
<1> DEFINE R == StrictSubsetOrdering(Nat)
           S == FiniteSubsetsOf(Nat)
           U == {1..k : k \in T}
<1>1. IsWellFoundedOn(R, S)
  BY FS_StrictSubsetOrderingWellFounded
<1>2. U \subseteq S /\ U # {}
  <2>1. \A k \in T : 1..k \subseteq Nat /\ IsFiniteSet(1..k)
    BY FS_Interval
  <2> QED
    BY <2>1 DEF FiniteSubsetsOf
<1>3. PICK u \in U : \A v \in U : ~ (<<v, u>> \in R)
  <2> HIDE DEF R, S, U
  <2> QED
    BY <1>1, <1>2, WFMin
<1>4. PICK x \in T : u = 1..x
  OBVIOUS
<1>5. ASSUME NEW y \in T, ~ x <= y PROVE FALSE
  <2>1. 1..y \subseteq 1..x /\ 1..y # 1..x
    <3>1. x \in Nat /\ y \in Nat /\ x \in 1..x /\ x \notin 1..y
      BY <1>5
    <3> QED
      BY <3>1
  <2>2. <<1..y, 1..x>> \in R
    BY <2>1 DEF StrictSubsetOrdering
  <2> QED
    BY <2>2, <1>3, <1>4
<1> QED
  BY <1>5

(* f is x, g[x], g[g[x]] and so on. *)
IsIteration(f, M, x, g) == f = [i \in 1..M |-> IF i = 1 THEN x ELSE g[f[i - 1]]]

(* There is such a function, so what is recursively defined as one is one. *)
LEMMA Iteration ==
  ASSUME NEW M \in Nat, NEW x, NEW g
  PROVE  \E f : IsIteration(f, M, x, g)
<1> DEFINE Def(k, f) == IsIteration(f, k, x, g)
           T == {k \in Nat : ~\E f : Def(k, f)}
<1> SUFFICES ASSUME M \in T PROVE FALSE
  OBVIOUS
<1>1. PICK k \in T : \A j \in T : k <= j
  <2> HIDE DEF Def
  <2> QED BY LeastNatural
<1>2. k # 0
  <2> DEFINE e == [i \in 1..0 |-> x]
  <2>1. Def(0, e)
    BY DEF IsIteration
  <2> QED BY <2>1
<1>3. k - 1 \in Nat /\ k - 1 \notin T
  <2> HIDE DEF Def
  <2> QED  BY <1>1, <1>2
<1>4. PICK f : Def(k - 1, f)
  <2> HIDE DEF Def
  <2> QED  BY <1>3
<1> DEFINE h == [i \in 1..k |-> IF i = 1 THEN x ELSE g[f[i - 1]]]
<1>5. \A i \in 1..(k - 1) : h[i] = f[i]
  BY <1>4, <1>3 DEF IsIteration
<1>6. Def(k, h)
  <2>1. \A i \in 1..k : i # 1 => i - 1 \in 1..(k - 1)
    BY <1>3
  <2>2. \A i \in 1..k : h[i] = IF i = 1 THEN x ELSE g[h[i - 1]]
    BY <1>5, <2>1
  <2> QED BY <2>2 DEF IsIteration
<1> QED
  BY <1>6, <1>1

-----------------------------------------------------------------------------
(* The slots of the buffer                                                 *)

OneSize == \E s \in AsduSizes : AsduSizes = {s}

AsduSize == CHOOSE s : AsduSizes = {s}
EntrySize == HeaderSize + AsduSize
Slots == Size \div EntrySize

(* The slot that is i slots behind slot 0 on the circle, for i < 2 Slots.  *)
Circle(i) == IF i < Slots THEN i ELSE i - Slots

(* Where the i-th entry is, if the first one is in slot a. *)
Address(a, i) == Circle(a + i - 1) * EntrySize

(* There is one size, and at least one slot of it fits into the buffer;    *)
(* what is left behind the last slot is too small for another.             *)
LEMMA SlotsFit ==
  ASSUME OneSize
  PROVE  /\ AsduSizes = {AsduSize} /\ AsduSize \in Nat
         /\ Size \in Nat /\ EntrySize \in Nat \ {0} /\ Slots \in Nat \ {0}
         /\ Slots * EntrySize <= Size /\ Size < Slots * EntrySize + EntrySize
<1>1. AsduSizes = {AsduSize} /\ AsduSize \in Nat
  BY SizesAssumption DEF OneSize, AsduSize
<1>2. Size \in Nat /\ EntrySize \in Nat \ {0} /\ EntrySize <= Size
  BY <1>1, SizesAssumption DEF EntrySize
<1>3. ASSUME NEW m \in Nat, NEW d \in Nat \ {0}, d <= m
      PROVE  m \div d \in Nat /\ (m \div d) * d <= m /\ m < (m \div d) * d + d /\ m \div d # 0
  BY <1>3
<1> QED
  BY <1>1, <1>2, <1>3 DEF Slots

(* Different slots do not overlap. *)
LEMMA SlotsApart ==
  ASSUME NEW d \in Nat \ {0}, NEW a \in Nat, NEW b \in Nat
  PROVE  /\ a * d \in Nat /\ (a + 1) * d = a * d + d
         /\ a < b => a * d + d <= b * d
         /\ a = b <=> a * d = b * d
<1>1. a * d \in Nat /\ b * d \in Nat /\ (a + 1) * d = a * d + d
  OBVIOUS
<1>2. ASSUME NEW x \in Nat, NEW y \in Nat, x < y
      PROVE  x * d + d <= y * d
  <2>1. y - x - 1 \in Nat /\ (y - x - 1) * d \in Nat
    BY <1>2
  <2>2. (y - x - 1) * d = y * d - x * d - d
    OBVIOUS
  <2> QED
    BY <2>1, <2>2
<1> QED
  BY <1>1, <1>2

-----------------------------------------------------------------------------
(* The inductive invariant                                                 *)

(* The entries lie in consecutive slots, the first of them in slot a.      *)
Held(a) ==
  /\ entryCounter \in 1..Slots
  /\ firstEntry = a * EntrySize
  /\ lastEntry = Address(a, entryCounter)
  /\ lastInBufferEntry = IF a + entryCounter <= Slots THEN lastEntry
                                                      ELSE (Slots - 1) * EntrySize
  /\ \A i \in 1..entryCounter : mem[Address(a, i)].size = AsduSize

RingOK == entryCounter = 0 \/ \E a \in 0..(Slots - 1) : Held(a)

IInv == TypeOK /\ RingOK

(* The addresses of slots are addresses of the buffer; only behind the     *)
(* last slot there is no other.                                            *)
LEMMA SlotAddress ==
  ASSUME OneSize, NEW c \in 0..(Slots - 1)
  PROVE  /\ c * EntrySize \in Offsets
         /\ c * EntrySize + EntrySize <= Size
         /\ c * EntrySize + EntrySize + EntrySize > Size <=> c = Slots - 1
         /\ (c + 1) * EntrySize = c * EntrySize + EntrySize
<1>1. /\ Size \in Nat /\ EntrySize \in Nat \ {0} /\ Slots \in Nat \ {0} /\ c \in Nat
      /\ Slots * EntrySize <= Size /\ Size < Slots * EntrySize + EntrySize
  BY SlotsFit
<1> DEFINE p == c * EntrySize
           q == Slots * EntrySize
           r == (c + 1) * EntrySize
<1>2. /\ p \in Nat /\ q \in Nat /\ r = p + EntrySize /\ p + EntrySize <= q
      /\ c + 1 < Slots => r + EntrySize <= q
      /\ c + 1 = Slots => r = q
  BY <1>1, SlotsApart
<1> HIDE DEF p, q, r
<1>3. c + 1 < Slots \/ c + 1 = Slots
  BY <1>1
<1>4. /\ p \in 0..(Size - 1) /\ p + EntrySize <= Size
      /\ p + EntrySize + EntrySize > Size <=> c = Slots - 1
  BY <1>1, <1>2, <1>3 DEF q
<1> QED
  BY <1>2, <1>4 DEF p, r, Offsets

(* The slots of different entries are different and do not overlap.        *)
LEMMA EntriesApart ==
  ASSUME OneSize, NEW a \in 0..(Slots - 1), NEW i \in 1..(Slots + 1), NEW j \in 1..(Slots + 1),
         i < j, j - i < Slots
  PROVE  /\ Address(a, i) \in Offsets /\ Address(a, j) \in Offsets
         /\ \/ Address(a, i) + EntrySize <= Address(a, j)
            \/ Address(a, j) + EntrySize <= Address(a, i)
<1>1. EntrySize \in Nat \ {0} /\ Slots \in Nat \ {0}
  BY SlotsFit
<1> DEFINE b == Circle(a + i - 1)
           c == Circle(a + j - 1)
<1>2. b \in 0..(Slots - 1) /\ c \in 0..(Slots - 1) /\ (b < c \/ c < b)
  BY <1>1 DEF Circle
<1> HIDE DEF b, c
<1>3. b * EntrySize \in Offsets /\ c * EntrySize \in Offsets
  BY <1>2, SlotAddress
<1>4. /\ b < c => b * EntrySize + EntrySize <= c * EntrySize
      /\ c < b => c * EntrySize + EntrySize <= b * EntrySize
  BY <1>1, <1>2, SlotsApart
<1> QED
  BY <1>2, <1>3, <1>4 DEF Address, b, c

(* What enqueue computes in a ring of entries: the address behind the last *)
(* one, the end of the buffer, and that all slots are taken.               *)
LEMMA PlaceInRing ==
  ASSUME OneSize, NEW a \in 0..(Slots - 1), Held(a)
  PROVE  /\ lastEntry \in Offsets /\ firstEntry \in Offsets
         /\ place(EntrySize) = Address(a, entryCounter + 1)
         /\ place(EntrySize) \in Offsets /\ place(EntrySize) + EntrySize <= Size
         /\ wraps(EntrySize) <=> a + entryCounter = Slots
         /\ place(EntrySize) > firstEntry <=> a + entryCounter < Slots
         /\ isRejected(EntrySize) <=> entryCounter = Slots
<1>1. EntrySize \in Nat \ {0} /\ Slots \in Nat \ {0} /\ Size \in Nat /\ AsduSize \in Nat
  BY SlotsFit
<1> DEFINE b == Circle(a + entryCounter - 1)
           c == Circle(a + entryCounter)
<1>2. /\ entryCounter \in 1..Slots /\ entryCounter # 0 /\ entryCounter > 0
      /\ firstEntry = a * EntrySize /\ lastEntry = b * EntrySize
      /\ mem[b * EntrySize].size = AsduSize
  BY <1>1 DEF Held, Address
<1>3. /\ b \in 0..(Slots - 1) /\ c \in 0..(Slots - 1)
      /\ b = Slots - 1 <=> a + entryCounter = Slots
      /\ c = IF b = Slots - 1 THEN 0 ELSE b + 1
      /\ c > a <=> a + entryCounter < Slots
      /\ c = a <=> entryCounter = Slots
  BY <1>1, <1>2 DEF Circle
<1>4. Address(a, entryCounter + 1) = c * EntrySize
  BY <1>1, <1>2 DEF Address
<1> HIDE DEF b, c
<1>5. behindLast = b * EntrySize + EntrySize
  <2>1. b * EntrySize \in Int /\ HeaderSize \in Int
    BY <1>1, <1>3, SlotAddress, SizesAssumption DEF Offsets
  <2> QED
    BY <1>1, <1>2, <2>1 DEF behindLast, EndOf, EntrySize
<1>6. /\ b * EntrySize \in Offsets /\ c * EntrySize \in Offsets /\ a * EntrySize \in Offsets
      /\ c * EntrySize + EntrySize <= Size
      /\ b * EntrySize + EntrySize + EntrySize > Size <=> b = Slots - 1
      /\ (b + 1) * EntrySize = b * EntrySize + EntrySize
  BY <1>3, SlotAddress
<1>7. wraps(EntrySize) <=> b = Slots - 1
  BY <1>5, <1>6 DEF wraps
<1>8. place(EntrySize) = c * EntrySize
  BY <1>1, <1>3, <1>5, <1>6, <1>7 DEF place
<1>9. /\ c > a => a * EntrySize + EntrySize <= c * EntrySize
      /\ a > c => c * EntrySize + EntrySize <= a * EntrySize
  BY <1>1, <1>3, SlotsApart
<1>10. c * EntrySize > firstEntry <=> c > a
  BY <1>1, <1>2, <1>3, <1>6, <1>9 DEF Offsets
<1>11. isRejected(EntrySize) <=> c = a
  BY <1>1, <1>2, <1>3, <1>6, <1>8, <1>9 DEF isRejected, Offsets
<1> QED
  BY <1>2, <1>3, <1>4, <1>6, <1>7, <1>8, <1>10, <1>11

(* Memory after an entry was written at address n. *)
Written(n, x) ==
  [p \in Offsets |-> IF p = n THEN [size |-> AsduSize, asdu |-> x]
                     ELSE IF p > n /\ p < n + EntrySize THEN Blank ELSE mem[p]]

(* The entries at p and q do not overlap. *)
Apart(p, q) == p + EntrySize <= q \/ q + EntrySize <= p

(* The entry can be read where it was written. *)
LEMMA WrittenThere ==
  ASSUME NEW n \in Offsets, NEW x
  PROVE  Written(n, x)[n] = [size |-> AsduSize, asdu |-> x]
BY DEF Written

(* Writing an entry changes nothing in front of it or behind it.           *)
LEMMA WrittenOnlyThere ==
  ASSUME OneSize, NEW n \in Offsets, NEW x, NEW p \in Offsets, Apart(p, n)
  PROVE  Written(n, x)[p] = mem[p]
<1>1. EntrySize \in Nat \ {0} /\ Size \in Nat
  BY SlotsFit
<1>2. p \in Int /\ n \in Int /\ p # n /\ ~(p > n /\ p < n + EntrySize)
  BY <1>1 DEF Offsets, Apart
<1> QED
  BY <1>2 DEF Written

(* A response that is accepted becomes the last entry, and leaves the      *)
(* others alone; when every slot is taken nothing changes.                 *)
LEMMA EnqueueInRing ==
  ASSUME OneSize, TypeOK, NEW a \in 0..(Slots - 1), Held(a), NEW x \in Payloads,
         HighPriorityASDUQueue_enqueue(AsduSize, x)
  PROVE  /\ Held(a)'
         /\ entryCounter = Slots => entryCounter' = entryCounter /\ mem' = mem
         /\ entryCounter # Slots =>
              /\ entryCounter' = entryCounter + 1
              /\ mem'[Address(a, entryCounter + 1)] = [size |-> AsduSize, asdu |-> x]
              /\ \A i \in 1..entryCounter : mem'[Address(a, i)] = mem[Address(a, i)]
<1>1. /\ EntrySize \in Nat \ {0} /\ Slots \in Nat \ {0} /\ EntrySize = HeaderSize + AsduSize
      /\ entryCounter \in 1..Slots /\ entryCounter > 0 /\ entryCounter # 0
  BY SlotsFit DEF Held, EntrySize
<1> DEFINE next == Address(a, entryCounter + 1)
<1>2. /\ next \in Offsets /\ place(EntrySize) = next
      /\ next > firstEntry <=> a + entryCounter < Slots
      /\ wraps(EntrySize) <=> a + entryCounter = Slots
      /\ isRejected(EntrySize) <=> entryCounter = Slots
  BY PlaceInRing DEF next
<1> HIDE DEF next
<1>call. /\ place(HeaderSize + AsduSize) = next
         /\ next > firstEntry <=> a + entryCounter < Slots
         /\ wraps(HeaderSize + AsduSize) <=> a + entryCounter = Slots
         /\ isRejected(HeaderSize + AsduSize) <=> entryCounter = Slots
  BY <1>2 DEF EntrySize
<1>3. /\ firstEntry' = firstEntry
      /\ lastInBufferEntry' = IF a + entryCounter < Slots THEN next
                              ELSE IF a + entryCounter = Slots THEN lastEntry
                              ELSE lastInBufferEntry
      /\ lastEntry' = IF entryCounter = Slots THEN lastEntry ELSE next
      /\ entryCounter' = IF entryCounter = Slots THEN entryCounter ELSE entryCounter + 1
  BY <1>1, <1>call DEF HighPriorityASDUQueue_enqueue
<1>mem. mem' = IF entryCounter = Slots THEN mem ELSE Written(next, x)
  BY <1>call DEF HighPriorityASDUQueue_enqueue, Written, EntrySize
<1>4. /\ firstEntry = a * EntrySize /\ lastEntry = Address(a, entryCounter)
      /\ lastInBufferEntry = IF a + entryCounter <= Slots THEN lastEntry
                                                          ELSE (Slots - 1) * EntrySize
      /\ \A i \in 1..entryCounter : mem[Address(a, i)].size = AsduSize
  BY DEF Held
<1>5. a + entryCounter = Slots => Address(a, entryCounter) = (Slots - 1) * EntrySize
  BY <1>1 DEF Address, Circle
<1>6. CASE entryCounter = Slots
  <2>1. a + entryCounter >= Slots /\ (a + entryCounter <= Slots => a + entryCounter = Slots)
    BY <1>1, <1>6
  <2>2. lastInBufferEntry' = lastInBufferEntry
    BY <1>1, <1>3, <1>4, <1>5, <2>1
  <2>3. UNCHANGED <<entryCounter, firstEntry, lastEntry, lastInBufferEntry, mem>>
    BY <1>3, <1>mem, <1>6, <2>2
  <2> QED
    BY <1>6, <2>3 DEF Held
<1>7. CASE entryCounter # Slots
  <2>1. entryCounter' = entryCounter + 1 /\ entryCounter' \in 1..Slots /\ lastEntry' = next
    BY <1>1, <1>3, <1>7
  <2>2. lastEntry' = Address(a, entryCounter')
    BY <2>1 DEF next
  <2>3. \A i \in 1..entryCounter : mem'[Address(a, i)] = mem[Address(a, i)]
    <3>1. \A i \in 1..entryCounter : Address(a, i) \in Offsets /\ Apart(Address(a, i), next)
      BY <1>1, <1>7, EntriesApart DEF next, Apart
    <3>2. \A p \in Offsets : Apart(p, next) => Written(next, x)[p] = mem[p]
      BY <1>2, WrittenOnlyThere
    <3> QED
      BY <1>mem, <1>7, <3>1, <3>2
  <2>4. mem'[next] = [size |-> AsduSize, asdu |-> x]
    BY <1>2, <1>mem, <1>7, WrittenThere
  <2>5. \A i \in 1..entryCounter' : mem'[Address(a, i)].size = AsduSize
    <3>1. \A i \in 1..entryCounter' : i \in 1..entryCounter \/ i = entryCounter + 1
      BY <1>1, <2>1
    <3> QED
      BY <1>4, <2>3, <2>4, <3>1 DEF next
  <2>6. lastInBufferEntry' = IF a + entryCounter' <= Slots THEN lastEntry'
                                                           ELSE (Slots - 1) * EntrySize
    <3>1. a + entryCounter' <= Slots <=> a + entryCounter < Slots
      BY <1>1, <2>1
    <3>2. a + entryCounter < Slots \/ a + entryCounter = Slots \/ ~(a + entryCounter <= Slots)
      BY <1>1
    <3> QED
      BY <1>1, <1>3, <1>4, <1>5, <2>1, <3>1, <3>2
  <2> QED
    BY <1>3, <1>4, <1>7, <2>1, <2>2, <2>3, <2>4, <2>5, <2>6 DEF Held, next
<1> QED
  BY <1>6, <1>7

(* The first response that is queued makes a ring of its own. *)
LEMMA EnqueueInEmpty ==
  ASSUME OneSize, TypeOK, NEW x \in Payloads, entryCounter = 0,
         HighPriorityASDUQueue_enqueue(AsduSize, x)
  PROVE  /\ Held(0)' /\ entryCounter' = 1
         /\ mem'[Address(0, 1)] = [size |-> AsduSize, asdu |-> x]
<1>1. /\ EntrySize \in Nat \ {0} /\ Slots \in Nat \ {0} /\ Size \in Nat /\ EntrySize <= Size
      /\ AsduSizes = {AsduSize}
  BY SlotsFit, SizesAssumption DEF EntrySize
<1>2. Address(0, 1) = 0 /\ 0 * EntrySize = 0 /\ 0 \in Offsets
  BY <1>1 DEF Address, Circle, Offsets
<1>3. place(HeaderSize + AsduSize) = 0 /\ ~isRejected(HeaderSize + AsduSize)
  <2>1. ~wraps(EntrySize)
    BY <1>1 DEF wraps, behindLast
  <2> QED
    BY <2>1 DEF place, isRejected, behindLast, EntrySize
<1>4. /\ firstEntry' = 0 /\ lastEntry' = 0 /\ lastInBufferEntry' = 0 /\ entryCounter' = 1
      /\ mem' = Written(0, x)
  BY <1>3 DEF HighPriorityASDUQueue_enqueue, Written, EntrySize
<1>5. mem'[0] = [size |-> AsduSize, asdu |-> x]
  BY <1>2, <1>4, WrittenThere
<1>6. \A i \in 1..1 : i = 1
  OBVIOUS
<1> QED
  BY <1>1, <1>2, <1>4, <1>5, <1>6 DEF Held

(* Taking the oldest response moves the start of the ring to the next slot. *)
LEMMA DequeueInRing ==
  ASSUME OneSize, NEW a \in 0..(Slots - 1), Held(a), HighPriorityASDUQueue_getNextASDU
  PROVE  /\ entryCounter' = entryCounter - 1 /\ mem' = mem
         /\ entryCounter' # 0 =>
              /\ Circle(a + 1) \in 0..(Slots - 1)
              /\ Held(Circle(a + 1))'
              /\ \A i \in 1..entryCounter' : Address(Circle(a + 1), i) = Address(a, i + 1)
<1>1. /\ EntrySize \in Nat \ {0} /\ Slots \in Nat \ {0} /\ entryCounter \in 1..Slots
      /\ AsduSize \in Nat
  BY SlotsFit DEF Held
<1>2. entryCounter' = entryCounter - 1 /\ mem' = mem
  BY DEF HighPriorityASDUQueue_getNextASDU
<1> DEFINE b == Circle(a + 1)
<1>3. ASSUME entryCounter' # 0
      PROVE  /\ b \in 0..(Slots - 1) /\ Held(b)'
             /\ \A i \in 1..entryCounter' : Address(b, i) = Address(a, i + 1)
  <2>1. entryCounter \in 2..Slots /\ entryCounter' \in 1..Slots
    BY <1>1, <1>2, <1>3
  <2>2. b = (IF a = Slots - 1 THEN 0 ELSE a + 1) /\ b \in 0..(Slots - 1)
    BY <1>1 DEF Circle
  <2>3. \A i \in 1..entryCounter' : Circle(b + i - 1) = Circle(a + (i + 1) - 1)
    BY <1>1, <1>2, <2>1, <2>2 DEF Circle
  <2>4. \A i \in 1..entryCounter' : Address(b, i) = Address(a, i + 1)
    BY <2>3 DEF Address
  <2>5. /\ firstEntry = a * EntrySize /\ lastEntry = Address(a, entryCounter)
        /\ lastInBufferEntry = IF a + entryCounter <= Slots THEN lastEntry
                                                            ELSE (Slots - 1) * EntrySize
        /\ \A i \in 1..entryCounter : mem[Address(a, i)].size = AsduSize
    BY DEF Held
  <2>6. Address(a, 1) = a * EntrySize /\ mem[firstEntry].size = AsduSize /\ 1 \in 1..entryCounter
    BY <1>1, <2>1, <2>5 DEF Address, Circle
  <2>7. firstEntry # lastEntry
    <3>1. Circle(a + entryCounter - 1) \in 0..(Slots - 1) /\ Circle(a + entryCounter - 1) # a
      BY <1>1, <2>1 DEF Circle
    <3> QED
      BY <1>1, <2>5, <3>1, SlotsApart DEF Address
  <2>8. firstEntry = lastInBufferEntry <=> a = Slots - 1
    <3>1. a + entryCounter <= Slots => a # Slots - 1
      BY <1>1, <2>1
    <3>2. a = Slots - 1 <=> a * EntrySize = (Slots - 1) * EntrySize
      BY <1>1, SlotsApart
    <3> QED
      BY <2>5, <2>7, <3>1, <3>2
  <2>9. a # Slots - 1 => EndOf(firstEntry) = (a + 1) * EntrySize
    <3>1. a * EntrySize \in Nat /\ (a + 1) * EntrySize = a * EntrySize + EntrySize
      BY <1>1, SlotsApart
    <3> QED
      BY <1>1, <2>5, <2>6, <3>1, SizesAssumption DEF EndOf, EntrySize
  <2>10. /\ firstEntry' = (IF a = Slots - 1 THEN 0 ELSE (a + 1) * EntrySize)
         /\ lastInBufferEntry' = (IF a = Slots - 1 THEN lastEntry ELSE lastInBufferEntry)
         /\ lastEntry' = lastEntry
    BY <1>3, <2>7, <2>8, <2>9 DEF HighPriorityASDUQueue_getNextASDU
  <2>11. firstEntry' = b * EntrySize
    BY <1>1, <2>2, <2>10
  <2>12. lastEntry' = Address(b, entryCounter')
    BY <1>1, <1>2, <2>1, <2>4, <2>5, <2>10
  <2>13. lastInBufferEntry' = IF b + entryCounter' <= Slots THEN lastEntry'
                                                            ELSE (Slots - 1) * EntrySize
    <3>1. CASE a = Slots - 1
      <4>1. b + entryCounter' <= Slots
        BY <2>1, <2>2, <3>1
      <4> QED
        BY <2>10, <3>1, <4>1
    <3>2. CASE a # Slots - 1
      <4>1. b + entryCounter' <= Slots <=> a + entryCounter <= Slots
        BY <1>1, <1>2, <2>1, <2>2, <3>2
      <4> QED
        BY <2>5, <2>10, <3>2, <4>1
    <3> QED
      BY <3>1, <3>2
  <2>14. \A i \in 1..entryCounter' : mem'[Address(b, i)].size = AsduSize
    <3>1. \A i \in 1..entryCounter' : i + 1 \in 1..entryCounter
      BY <1>1, <1>2, <2>1
    <3> QED
      BY <1>2, <2>4, <2>5, <3>1
  <2> HIDE DEF b
  <2> QED
    BY <2>1, <2>2, <2>4, <2>11, <2>12, <2>13, <2>14 DEF Held
<1> QED
  BY <1>2, <1>3

-----------------------------------------------------------------------------
(* The queue that the entries represent                                    *)

(* The address of the entry behind the one at p, as getNextASDU finds it.  *)
Successor == [p \in Offsets |-> IF p = lastInBufferEntry THEN 0 ELSE EndOf(p) % Size]

IsWalk(f) == IsIteration(f, MaxEntries, firstEntry, Successor)

(* There are no more entries than the buffer has room for. *)
LEMMA SlotsBound ==
  ASSUME OneSize
  PROVE  MaxEntries \in Nat /\ Slots <= MaxEntries
<1>1. /\ HeaderSize \in Nat \ {0} /\ AsduSize \in Nat /\ Slots \in Nat /\ Size \in Nat
      /\ Slots * EntrySize <= Size /\ EntrySize = HeaderSize + AsduSize
  BY SlotsFit, SizesAssumption DEF EntrySize
<1>2. ASSUME NEW m \in Nat, NEW d \in Nat \ {0}
      PROVE  m \div d \in Nat /\ m < (m \div d) * d + d
  BY <1>2
<1>3. MaxEntries \in Nat /\ Size < MaxEntries * HeaderSize + HeaderSize
  BY <1>1, <1>2 DEF MaxEntries
<1>4. Slots * HeaderSize <= Slots * EntrySize
  <2>1. Slots * EntrySize = Slots * HeaderSize + Slots * AsduSize /\ Slots * AsduSize \in Nat
        /\ Slots * HeaderSize \in Nat
    BY <1>1
  <2> QED
    BY <1>1, <2>1
<1>5. MaxEntries < Slots => MaxEntries * HeaderSize + HeaderSize <= Slots * HeaderSize
  BY <1>1, <1>3, SlotsApart
<1>6. Slots * HeaderSize \in Int /\ Slots * EntrySize \in Int /\ MaxEntries * HeaderSize \in Int
  BY <1>1, <1>3
<1> QED
  BY <1>1, <1>3, <1>4, <1>5, <1>6

(* A walk over the entries of a ring finds them slot by slot.              *)
LEMMA WalkInRing ==
  ASSUME OneSize, NEW a \in 0..(Slots - 1), Held(a), NEW f, IsWalk(f)
  PROVE  \A i \in 1..entryCounter : f[i] = Address(a, i)
<1>1. /\ EntrySize \in Nat \ {0} /\ Slots \in Nat \ {0} /\ entryCounter \in 1..Slots
      /\ AsduSize \in Nat /\ Size \in Nat /\ HeaderSize \in Nat
      /\ MaxEntries \in Nat /\ entryCounter <= MaxEntries
  BY SlotsFit, SlotsBound, SizesAssumption DEF Held
<1>2. /\ firstEntry = a * EntrySize /\ lastEntry = Address(a, entryCounter)
      /\ lastInBufferEntry = IF a + entryCounter <= Slots THEN lastEntry
                                                          ELSE (Slots - 1) * EntrySize
      /\ \A i \in 1..entryCounter : mem[Address(a, i)].size = AsduSize
  BY DEF Held
<1>3. \A i \in 1..entryCounter : f[i] = IF i = 1 THEN firstEntry ELSE Successor[f[i - 1]]
  BY <1>1 DEF IsWalk, IsIteration
<1> DEFINE T == {i \in 1..entryCounter : f[i] # Address(a, i)}
<1> SUFFICES ASSUME T # {} PROVE FALSE
  OBVIOUS
<1>4. PICK k \in T : \A j \in T : k <= j
  <2>1. T \in SUBSET Nat
    BY <1>1
  <2> HIDE DEF T
  <2> QED
    BY <2>1, LeastNatural
<1>5. k # 1
  BY <1>1, <1>2, <1>3 DEF Address, Circle
<1>6. k - 1 \in 1..entryCounter /\ f[k - 1] = Address(a, k - 1)
  BY <1>1, <1>4, <1>5
<1> DEFINE c == Circle(a + (k - 1) - 1)
<1>7. c \in 0..(Slots - 1) /\ Address(a, k - 1) = c * EntrySize /\ k \in 2..entryCounter
  BY <1>1, <1>5, <1>6 DEF Circle, Address
<1>8. Circle(a + k - 1) = IF c = Slots - 1 THEN 0 ELSE c + 1
  BY <1>1, <1>7 DEF Circle
<1>9. lastInBufferEntry = c * EntrySize <=> c = Slots - 1
  <2>1. CASE a + entryCounter <= Slots
    <3>1. Circle(a + entryCounter - 1) \in 0..(Slots - 1) /\ c < Circle(a + entryCounter - 1)
      BY <1>1, <1>7, <2>1 DEF Circle
    <3>2. c # Slots - 1
      BY <1>1, <1>7, <3>1
    <3>3. Circle(a + entryCounter - 1) * EntrySize # c * EntrySize
      BY <1>1, <1>7, <3>1, SlotsApart
    <3> QED
      BY <1>2, <2>1, <3>2, <3>3 DEF Address
  <2>2. CASE ~(a + entryCounter <= Slots)
    <3>1. c = Slots - 1 <=> c * EntrySize = (Slots - 1) * EntrySize
      BY <1>1, <1>7, SlotsApart
    <3> QED
      BY <1>2, <2>2, <3>1
  <2> QED
    BY <2>1, <2>2
<1> HIDE DEF c
<1>10. c * EntrySize \in Offsets /\ mem[c * EntrySize].size = AsduSize
  BY <1>2, <1>6, <1>7, SlotAddress
<1>11. CASE c = Slots - 1
  <2>1. Successor[c * EntrySize] = 0
    BY <1>9, <1>10, <1>11 DEF Successor
  <2>2. Address(a, k) = 0
    BY <1>1, <1>8, <1>11 DEF Address
  <2> QED
    BY <1>3, <1>4, <1>5, <1>6, <1>7, <2>1, <2>2
<1>12. CASE c # Slots - 1
  <2>1. c + 1 \in 0..(Slots - 1) /\ Circle(a + k - 1) = c + 1
    BY <1>1, <1>7, <1>8, <1>12
  <2>2. (c + 1) * EntrySize \in Offsets /\ (c + 1) * EntrySize = c * EntrySize + EntrySize
    BY <1>7, <2>1, SlotAddress
  <2>3. EndOf(c * EntrySize) = (c + 1) * EntrySize
    BY <1>1, <1>10, <2>2 DEF EndOf, EntrySize, Offsets
  <2>4. ((c + 1) * EntrySize) % Size = (c + 1) * EntrySize
    <3> DEFINE p == (c + 1) * EntrySize
    <3>1. p \in 0..(Size - 1)
      BY <2>2 DEF Offsets
    <3> HIDE DEF p
    <3>2. p % Size = p
      BY <1>1, <3>1
    <3> QED
      BY <3>2 DEF p
  <2>5. Successor[c * EntrySize] = (c + 1) * EntrySize
    BY <1>9, <1>10, <1>12, <2>3, <2>4 DEF Successor
  <2>6. Address(a, k) = (c + 1) * EntrySize
    BY <2>1 DEF Address
  <2> QED
    BY <1>3, <1>4, <1>5, <1>6, <1>7, <2>5, <2>6
<1> QED
  BY <1>11, <1>12

(* The queue is what lies in the slots, from the first entry to the last.  *)
LEMMA QueuedInRing ==
  ASSUME OneSize, NEW a \in 0..(Slots - 1), Held(a)
  PROVE  Queued = [i \in 1..entryCounter |-> mem[Address(a, i)].asdu]
<1> DEFINE at == CHOOSE f : IsWalk(f)
<1>1. Queued = [i \in 1..entryCounter |-> mem[at[i]].asdu]
  BY DEF Queued, IsWalk, IsIteration, Successor
<1>2. IsWalk(at)
  <2>1. \E f : IsWalk(f)
    BY SlotsBound, Iteration DEF IsWalk
  <2> QED
    BY <2>1
<1> HIDE DEF at
<1>3. \A i \in 1..entryCounter : at[i] = Address(a, i)
  BY <1>2, WalkInRing
<1> QED
  BY <1>1, <1>3

(* Without entries the queue is empty. *)
LEMMA QueuedEmpty ==
  ASSUME entryCounter = 0
  PROVE  Queued = <<>>
BY DEF Queued

-----------------------------------------------------------------------------
(* The theorems                                                            *)

(* In a ring of entries the indices are addresses of the buffer.           *)
LEMMA RingTypes ==
  ASSUME OneSize, NEW a \in 0..(Slots - 1), Held(a)'
  PROVE  /\ entryCounter' \in Nat
         /\ {firstEntry', lastEntry', lastInBufferEntry'} \subseteq Offsets \cup {NULL}
<1>1. Slots \in Nat \ {0} /\ EntrySize \in Nat \ {0}
  BY SlotsFit
<1>held. /\ entryCounter' \in 1..Slots /\ firstEntry' = a * EntrySize
         /\ lastEntry' = Address(a, entryCounter')
         /\ lastInBufferEntry' \in {lastEntry', (Slots - 1) * EntrySize}
  BY DEF Held
<1>2. Circle(a + entryCounter' - 1) \in 0..(Slots - 1) /\ Slots - 1 \in 0..(Slots - 1)
  <2>1. \A e \in 1..Slots : Circle(a + e - 1) \in 0..(Slots - 1)
    BY <1>1 DEF Circle
  <2>2. Slots - 1 \in 0..(Slots - 1)
    BY <1>1
  <2> QED
    BY <1>held, <2>1, <2>2
<1>3. /\ a * EntrySize \in Offsets /\ (Slots - 1) * EntrySize \in Offsets
      /\ Circle(a + entryCounter' - 1) * EntrySize \in Offsets
  BY <1>2, SlotAddress
<1> QED
  BY <1>1, <1>held, <1>3 DEF Address

MemTypes == mem \in [Offsets -> [size : AsduSizes \cup {0}, asdu : Payloads \cup {"none"}]]

(* An entry that is written keeps the memory typed. *)
LEMMA WrittenTypes ==
  ASSUME OneSize, MemTypes, NEW n \in Offsets, NEW x \in Payloads
  PROVE  Written(n, x) \in [Offsets -> [size : AsduSizes \cup {0}, asdu : Payloads \cup {"none"}]]
<1>1. /\ [size |-> AsduSize, asdu |-> x] \in [size : AsduSizes \cup {0}, asdu : Payloads \cup {"none"}]
      /\ Blank \in [size : AsduSizes \cup {0}, asdu : Payloads \cup {"none"}]
  BY SlotsFit DEF Blank
<1> QED
  BY <1>1 DEF Written, MemTypes

(* Writing a response, wherever it goes, keeps the memory typed.           *)
LEMMA EnqueueMemTypes ==
  ASSUME OneSize, IInv, NEW x \in Payloads, HighPriorityASDUQueue_enqueue(AsduSize, x)
  PROVE  MemTypes'
<1>1. MemTypes /\ TypeOK
  BY DEF IInv, TypeOK, MemTypes
<1>2. place(HeaderSize + AsduSize) \in Offsets
  <2>1. CASE entryCounter = 0
    BY <2>1, SlotsFit DEF place, wraps, behindLast, Offsets, EntrySize
  <2>2. CASE \E a \in 0..(Slots - 1) : Held(a)
    BY <2>2, PlaceInRing DEF EntrySize
  <2> QED
    BY <2>1, <2>2 DEF IInv, RingOK
<1>3. mem' = mem \/ mem' = Written(place(HeaderSize + AsduSize), x)
  BY DEF HighPriorityASDUQueue_enqueue, Written, EntrySize
<1> QED
  BY <1>1, <1>2, <1>3, WrittenTypes DEF MemTypes

(* The buffer holds a ring of entries, typed, for every size of the buffer *)
(* and of the responses (enqueue, getNextASDU, resetConnectionQueue).      *)
THEOREM Invariance ==
  ASSUME OneSize
  PROVE  Spec => []IInv
<1>0. AsduSizes = {AsduSize} /\ Slots \in Nat \ {0} /\ 0 \in 0..(Slots - 1)
  BY SlotsFit
<1>1. Init => IInv
  BY SizesAssumption DEF Init, IInv, TypeOK, RingOK, Blank, NULL
<1>2. ASSUME IInv, [Next]_vars PROVE IInv'
  <2>1. CASE \E x \in Payloads : HighPriorityASDUQueue_enqueue(AsduSize, x)
    <3>1. PICK x \in Payloads : HighPriorityASDUQueue_enqueue(AsduSize, x)
      BY <2>1
    <3>2. PICK a \in 0..(Slots - 1) : Held(a)'
      BY <1>0, <1>2, <3>1, EnqueueInRing, EnqueueInEmpty DEF IInv, RingOK
    <3> QED
      BY <1>2, <3>1, <3>2, RingTypes, EnqueueMemTypes DEF IInv, TypeOK, MemTypes, RingOK
  <2>2. CASE HighPriorityASDUQueue_getNextASDU
    <3>1. entryCounter # 0
      BY <1>2, <2>2 DEF HighPriorityASDUQueue_getNextASDU
    <3>2. PICK a \in 0..(Slots - 1) : Held(a)
      BY <1>2, <3>1 DEF IInv, RingOK
    <3>3. entryCounter' = entryCounter - 1 /\ mem' = mem
      BY <2>2, <3>2, DequeueInRing
    <3>4. CASE entryCounter' = 0
      BY <1>2, <2>2, <3>4 DEF IInv, TypeOK, RingOK, HighPriorityASDUQueue_getNextASDU
    <3>5. CASE entryCounter' # 0
      <4>1. Circle(a + 1) \in 0..(Slots - 1) /\ Held(Circle(a + 1))'
        BY <2>2, <3>2, <3>5, DequeueInRing
      <4> QED
        BY <1>2, <3>3, <4>1, RingTypes DEF IInv, TypeOK, RingOK
    <3> QED
      BY <3>4, <3>5
  <2>3. CASE HighPriorityASDUQueue_resetConnectionQueue
    BY <1>2, <2>3 DEF IInv, TypeOK, RingOK, HighPriorityASDUQueue_resetConnectionQueue
  <2>4. CASE UNCHANGED vars
    BY <1>2, <2>4 DEF IInv, TypeOK, RingOK, Held, vars
  <2> QED
    BY <1>0, <1>2, <2>1, <2>2, <2>3, <2>4 DEF Next
<1> QED
  BY <1>1, <1>2, PTL DEF Spec

(* Every index is an address or NULL, and memory holds what was written.   *)
THEOREM TypeCorrect ==
  ASSUME OneSize
  PROVE  Spec => []TypeOK
<1>1. IInv => TypeOK
  BY DEF IInv
<1> QED
  BY <1>1, Invariance, PTL

QueueShape ==
  /\ entryCounter = 0 => Queued = <<>>
  /\ \A a \in 0..(Slots - 1) :
       Held(a) => Queued = [i \in 1..entryCounter |-> mem[Address(a, i)].asdu]

(* That holds before and after every step. *)
LEMMA QueueShapeNext ==
  ASSUME OneSize
  PROVE  QueueShape /\ QueueShape'
<1>1. QueueShape
  BY QueuedEmpty, QueuedInRing DEF QueueShape
<1> QED
  BY <1>1, PTL

(* The queue after a response was accepted, or rejected. *)
LEMMA EnqueueQueued ==
  ASSUME OneSize, IInv, NEW x \in Payloads, HighPriorityASDUQueue_enqueue(AsduSize, x)
  PROVE  Queued' = Append(Queued, x) \/ Queued' = Queued
<1>0. 0 \in 0..(Slots - 1) /\ TypeOK
  BY SlotsFit DEF IInv
<1>1. CASE entryCounter = 0
  <2>1. Queued = <<>>
    BY <1>1, QueuedEmpty
  <2>2. Held(0)' /\ entryCounter' = 1 /\ mem'[Address(0, 1)] = [size |-> AsduSize, asdu |-> x]
    BY <1>0, <1>1, EnqueueInEmpty
  <2>3. Queued' = [i \in 1..entryCounter' |-> mem'[Address(0, i)].asdu]
    BY <1>0, <2>2, QueueShapeNext DEF QueueShape
  <2>4. \A i \in 1..1 : mem'[Address(0, i)].asdu = x
    BY <2>2
  <2>5. Queued' = [i \in 1..1 |-> x]
    BY <2>2, <2>3, <2>4
  <2> QED
    BY <2>1, <2>5
<1>2. ASSUME NEW a \in 0..(Slots - 1), Held(a)
      PROVE  Queued' = Append(Queued, x) \/ Queued' = Queued
  <2>1. /\ Held(a)'
        /\ entryCounter = Slots => entryCounter' = entryCounter /\ mem' = mem
        /\ entryCounter # Slots =>
              /\ entryCounter' = entryCounter + 1
              /\ mem'[Address(a, entryCounter + 1)] = [size |-> AsduSize, asdu |-> x]
              /\ \A i \in 1..entryCounter : mem'[Address(a, i)] = mem[Address(a, i)]
    BY <1>0, <1>2, EnqueueInRing
  <2>2. /\ Queued = [i \in 1..entryCounter |-> mem[Address(a, i)].asdu]
        /\ Queued' = [i \in 1..entryCounter' |-> mem'[Address(a, i)].asdu]
    BY <1>2, <2>1, QueueShapeNext DEF QueueShape
  <2>3. CASE entryCounter = Slots
    BY <2>1, <2>2, <2>3
  <2>4. CASE entryCounter # Slots
    <3> DEFINE n == entryCounter
    <3>1. n \in Nat /\ entryCounter' = n + 1
      BY <1>0, <2>1, <2>4 DEF TypeOK
    <3>2. Append(Queued, x) = [i \in 1..(n + 1) |-> IF i = n + 1 THEN x ELSE mem[Address(a, i)].asdu]
      BY <2>2, <3>1
    <3>3. \A i \in 1..(n + 1) :
            mem'[Address(a, i)].asdu = IF i = n + 1 THEN x ELSE mem[Address(a, i)].asdu
      BY <2>1, <2>4, <3>1
    <3> QED
      BY <2>2, <3>1, <3>2, <3>3
  <2> QED
    BY <2>3, <2>4
<1> QED
  BY <1>1, <1>2 DEF IInv, RingOK

(* The queue after the oldest response was taken. *)
LEMMA DequeueQueued ==
  ASSUME OneSize, IInv, HighPriorityASDUQueue_getNextASDU
  PROVE  Queued # <<>> /\ Queued' = Tail(Queued)
<1>1. entryCounter \in Nat \ {0}
  BY DEF HighPriorityASDUQueue_getNextASDU, IInv, TypeOK
<1>2. PICK a \in 0..(Slots - 1) : Held(a)
  BY <1>1 DEF IInv, RingOK
<1>3. Queued = [i \in 1..entryCounter |-> mem[Address(a, i)].asdu]
  BY <1>2, QueuedInRing
<1> DEFINE n == entryCounter
           q == [i \in 1..n |-> mem[Address(a, i)].asdu]
<1>4. /\ q # <<>> /\ Tail(q) = [i \in 1..(n - 1) |-> mem[Address(a, i + 1)].asdu]
  <2> DEFINE T == {mem[Address(a, i)].asdu : i \in 1..n}
  <2>1. q \in Seq(T) /\ Len(q) = n /\ q # <<>>
    BY <1>1
  <2>2. Tail(q) = [i \in 1..(n - 1) |-> q[i + 1]]
    BY <1>1, <2>1
  <2>3. \A i \in 1..(n - 1) : i + 1 \in 1..n
    BY <1>1
  <2> QED
    BY <2>1, <2>2, <2>3
<1>5. /\ entryCounter' = entryCounter - 1 /\ mem' = mem
      /\ entryCounter' # 0 =>
           /\ Circle(a + 1) \in 0..(Slots - 1) /\ Held(Circle(a + 1))'
           /\ \A i \in 1..entryCounter' : Address(Circle(a + 1), i) = Address(a, i + 1)
  BY <1>2, DequeueInRing
<1>6. CASE entryCounter' = 0
  <2>1. Queued' = <<>>
    BY <1>6, QueueShapeNext DEF QueueShape
  <2>2. n = 1
    BY <1>1, <1>5, <1>6
  <2>3. [i \in 1..(n - 1) |-> mem[Address(a, i + 1)].asdu] = <<>>
    <3>1. 1..(n - 1) = {}
      BY <2>2
    <3> QED
      BY <3>1
  <2> QED
    BY <1>3, <1>4, <2>1, <2>3
<1>7. CASE entryCounter' # 0
  <2> DEFINE b == Circle(a + 1)
  <2>1. Queued' = [i \in 1..entryCounter' |-> mem'[Address(b, i)].asdu]
    BY <1>5, <1>7, QueueShapeNext DEF QueueShape
  <2>2. \A i \in 1..(n - 1) : mem'[Address(b, i)].asdu = mem[Address(a, i + 1)].asdu
    BY <1>5, <1>7
  <2>3. Queued' = [i \in 1..(n - 1) |-> mem[Address(a, i + 1)].asdu]
    BY <1>5, <2>1, <2>2
  <2> QED
    BY <1>3, <1>4, <2>3
<1> QED
  BY <1>6, <1>7

(* Responses of one size come out once each and in order; one that is      *)
(* rejected leaves the queue as it was, and writes over no other: the      *)
(* byte ring implements ResponseQueue.                                     *)
THEOREM FIFORefined ==
  ASSUME OneSize
  PROVE  Spec => ImplementsFIFO
<1>0. AsduSizes = {AsduSize}
  BY SlotsFit
<1>1. Init => FIFO!RInit
  BY QueuedEmpty DEF Init, FIFO!RInit
<1>2. IInv /\ [Next]_vars => [FIFO!RNext]_Queued
  <2> SUFFICES ASSUME IInv, [Next]_vars PROVE FIFO!RNext \/ Queued' = Queued
    OBVIOUS
  <2>1. CASE \E x \in Payloads : HighPriorityASDUQueue_enqueue(AsduSize, x)
    BY <2>1, EnqueueQueued DEF FIFO!RNext, FIFO!Accept
  <2>2. CASE HighPriorityASDUQueue_getNextASDU
    BY <2>2, DequeueQueued DEF FIFO!RNext, FIFO!Deliver
  <2>3. CASE HighPriorityASDUQueue_resetConnectionQueue
    <3>1. Queued' = <<>>
      BY <2>3, QueueShapeNext DEF QueueShape, HighPriorityASDUQueue_resetConnectionQueue
    <3> QED
      BY <3>1 DEF FIFO!RNext, FIFO!Reset
  <2>4. CASE UNCHANGED vars
    BY <2>4 DEF vars, Queued, EndOf
  <2> QED
    BY <1>0, <2>1, <2>2, <2>3, <2>4 DEF Next
<1> QED
  BY <1>1, <1>2, Invariance, PTL DEF Spec, ImplementsFIFO, FIFO!RSpec

-----------------------------------------------------------------------------
(* The two tests for room                                                  *)

(* isFull and enqueue, each with its own computation of the place, agree   *)
(* on an ASDU of the largest size, whatever sizes are in the queue.        *)
LEMMA SameTest ==
  ASSUME entryCounter \in Nat
  PROVE  isFull <=> isRejected(HeaderSize + LargestSize)
<1>1. CASE entryCounter = 0
  BY <1>1 DEF isFull, isRejected
<1>2. CASE entryCounter # 0
  BY <1>2 DEF isFull, isRejected, place, wraps, behindLast
<1> QED
  BY <1>1, <1>2

(* With one size, that is the largest.                                     *)
LEMMA LargestIsTheSize ==
  ASSUME OneSize
  PROVE  LargestSize = AsduSize /\ Capacity = Slots /\ HeaderSize + LargestSize = EntrySize
<1>1. AsduSizes = {AsduSize} /\ AsduSize \in Nat
  BY SlotsFit
<1>2. LargestSize = AsduSize
  BY <1>1 DEF LargestSize, Max
<1> QED
  BY <1>2 DEF Capacity, Slots, EntrySize

(* The queue is full when every slot holds an entry, wherever the ring of  *)
(* entries begins.                                                         *)
LEMMA FullInRing ==
  ASSUME OneSize, IInv
  PROVE  isFull <=> entryCounter = Capacity
<1>1. entryCounter \in Nat /\ Slots \in Nat \ {0}
  BY SlotsFit DEF IInv, TypeOK
<1>2. isFull <=> isRejected(EntrySize)
  BY <1>1, SameTest, LargestIsTheSize
<1>3. CASE entryCounter = 0
  BY <1>1, <1>3, LargestIsTheSize DEF isFull
<1>4. CASE \E a \in 0..(Slots - 1) : Held(a)
  BY <1>2, <1>4, PlaceInRing, LargestIsTheSize
<1> QED
  BY <1>3, <1>4 DEF IInv, RingOK

(* An ASDU that is accepted is counted, one that is rejected is not.       *)
LEMMA CountedIfAccepted ==
  ASSUME entryCounter \in Nat, NEW s, NEW x, HighPriorityASDUQueue_enqueue(s, x)
  PROVE  isRejected(HeaderSize + s) <=> entryCounter' = entryCounter
BY DEF HighPriorityASDUQueue_enqueue

(* With responses of one size isFull promises exactly what enqueue does    *)
(* next, and says so when all slots are taken, never before: the place of  *)
(* every response that getNextASDU has taken can be used again.            *)
THEOREM FullTold ==
  ASSUME OneSize
  PROVE  Spec => IsFullExact
<1>1. ASSUME IInv, NEW x \in Payloads, HighPriorityASDUQueue_enqueue(LargestSize, x)
      PROVE  isFull <=> entryCounter' = entryCounter
  <2>1. entryCounter \in Nat
    BY <1>1 DEF IInv, TypeOK
  <2> QED
    BY <1>1, <2>1, SameTest, CountedIfAccepted
<1>2. IInv => (isFull <=> entryCounter = Capacity)
  BY FullInRing
<1>3. IInv => [/\ isFull <=> entryCounter = Capacity
               /\ \A x \in Payloads :
                    HighPriorityASDUQueue_enqueue(LargestSize, x) =>
                      (isFull <=> entryCounter' = entryCounter)]_vars
  BY <1>1, <1>2
<1> QED
  BY <1>3, Invariance, PTL DEF IsFullExact

=============================================================================
