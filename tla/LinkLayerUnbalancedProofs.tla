---------------------- MODULE LinkLayerUnbalancedProofs ----------------------
(***************************************************************************)
(* Proofs about the unbalanced link layer, for every number of slaves,     *)
(* size of the queues, number of repetitions and set of scenarios.         *)
(*                                                                         *)
(* Four arguments: a class queue is a ring that holds the newest ASDUs     *)
(* (QueuesOK); as long as no answer was late and no test or refusal came   *)
(* between, the frame under way, if any, belongs to the exchange of the    *)
(* slave whose turn it is, and its function code to the state of that      *)
(* exchange (OneExchange); what is under way to a slave's application, or  *)
(* to the master's, is in the order in which it was accepted (CommandsOK,  *)
(* DataOK); and what frame count bits out of phase will do wrong, together *)
(* with what has gone wrong, was paid for by resets and restarts (DInv).   *)
(***************************************************************************)
EXTENDS LinkLayerUnbalanced, TLAPS

-----------------------------------------------------------------------------
(* The ring buffer of a class                                              *)

Elements == Int \X Int

Rings == [entryCounter : Nat, firstMsgIndex : Nat, lastMsgIndex : Nat,
          elements : [0..(QueueSize - 1) -> Elements]]

(* Of n entries enqueued for class c, the ring q holds the newest ones.    *)
HoldsNewest(q, c, n) ==
  /\ q \in Rings
  /\ q.entryCounter <= QueueSize /\ q.entryCounter <= n
  /\ q.firstMsgIndex < QueueSize /\ q.lastMsgIndex < QueueSize
  /\ q.entryCounter # 0 => q.lastMsgIndex = slot(q, QueueSize, q.entryCounter)
  /\ \A i \in 1..q.entryCounter :
       q.elements[slot(q, QueueSize, i)] = <<c, n - q.entryCounter + i>>

(* Ring indices advance by one and wrap to zero. *)
LEMMA ModSucc ==
  ASSUME NEW m \in Nat \ {0}, NEW a \in 0..(m - 1)
  PROVE  (a + 1) % m = IF a + 1 = m THEN 0 ELSE a + 1
<1>1. CASE a + 1 < m
  BY <1>1
<1>2. CASE a + 1 = m
  BY <1>2
<1> QED
  BY <1>1, <1>2

(* The i-th slot of a ring of S slots whose first entry is in slot f. *)
Place(f, S, i) == IF f + i <= S THEN f + i - 1 ELSE f + i - 1 - S

(* A place is a slot.                                                       *)
LEMMA PlaceInRing ==
  ASSUME NEW S \in Nat \ {0}, NEW f \in 0..(S - 1), NEW i \in 1..S
  PROVE  Place(f, S, i) \in 0..(S - 1)
BY DEF Place

(* Different entries have different slots.                                 *)
LEMMA PlacesApart ==
  ASSUME NEW S \in Nat \ {0}, NEW f \in 0..(S - 1), NEW i \in 1..S, NEW k \in 1..S, k # i
  PROVE  Place(f, S, k) # Place(f, S, i)
BY DEF Place

(* The first entry is in the slot where the ring begins.                   *)
LEMMA FirstPlace ==
  ASSUME NEW S \in Nat \ {0}, NEW f \in 0..(S - 1)
  PROVE  Place(f, S, 1) = f
BY DEF Place

(* The slot behind the one of an entry is that of the next entry, and the  *)
(* one behind the last slot of a full ring is the first.                   *)
LEMMA PlaceBehind ==
  ASSUME NEW S \in Nat \ {0}, NEW f \in 0..(S - 1), NEW i \in 1..S
  PROVE  Wrap(Place(f, S, i) + 1, S) = IF i = S THEN f ELSE Place(f, S, i + 1)
BY DEF Place, Wrap

(* A ring whose first entry is gone begins one slot further.               *)
LEMMA PlaceAfterFirst ==
  ASSUME NEW S \in Nat \ {0}, NEW f \in 0..(S - 1), NEW i \in 1..S
  PROVE  Place(Wrap(f + 1, S), S, i) = IF i = S THEN f ELSE Place(f, S, i + 1)
BY DEF Place, Wrap

(* The next slot, as the code computes it in two ways.                     *)
LEMMA NextSlot ==
  ASSUME NEW S \in Nat \ {0}, NEW f \in 0..(S - 1)
  PROVE  Wrap(f + 1, S) \in 0..(S - 1) /\ (f + 1) % S = Wrap(f + 1, S)
BY ModSucc DEF Wrap

Ring(e, f, l, m) ==
  [entryCounter |-> e, firstMsgIndex |-> f, lastMsgIndex |-> l, elements |-> m]

(* A ring that holds the newest entries has fields in range.               *)
LEMMA RingFields ==
  ASSUME NEW c, NEW n, NEW q, HoldsNewest(q, c, n)
  PROVE  \E e \in 0..QueueSize : \E f, l \in 0..(QueueSize - 1) :
           \E m \in [0..(QueueSize - 1) -> Elements] : q = Ring(e, f, l, m)
<1>1. QueueSize \in Nat \ {0}
  BY UnbalancedAssumption
<1>2. q \in Rings
  BY DEF HoldsNewest
<1>3. /\ q = Ring(q.entryCounter, q.firstMsgIndex, q.lastMsgIndex, q.elements)
      /\ q.entryCounter \in Nat /\ q.firstMsgIndex \in Nat /\ q.lastMsgIndex \in Nat
      /\ q.elements \in [0..(QueueSize - 1) -> Elements]
  BY <1>2 DEF Rings, Ring
<1>4. /\ q.entryCounter <= QueueSize /\ q.firstMsgIndex < QueueSize
      /\ q.lastMsgIndex < QueueSize
  BY DEF HoldsNewest
<1>5. /\ q.entryCounter \in 0..QueueSize
      /\ q.firstMsgIndex \in 0..(QueueSize - 1) /\ q.lastMsgIndex \in 0..(QueueSize - 1)
  BY <1>1, <1>3, <1>4
<1> QED
  BY <1>3, <1>5

(* HoldsNewest in terms of the fields of the ring.                         *)
LEMMA RingHolds ==
  ASSUME NEW c \in Int, NEW n \in Nat,
         NEW e \in 0..QueueSize, NEW f \in 0..(QueueSize - 1),
         NEW l \in 0..(QueueSize - 1), NEW m \in [0..(QueueSize - 1) -> Elements]
  PROVE  HoldsNewest(Ring(e, f, l, m), c, n) <=>
           /\ e <= n
           /\ e # 0 => l = Place(f, QueueSize, e)
           /\ \A i \in 1..e : m[Place(f, QueueSize, i)] = <<c, n - e + i>>
<1> DEFINE r == Ring(e, f, l, m)
<1>1. /\ r.entryCounter = e /\ r.firstMsgIndex = f /\ r.lastMsgIndex = l /\ r.elements = m
      /\ r \in Rings /\ e <= QueueSize /\ f < QueueSize /\ l < QueueSize
  BY UnbalancedAssumption DEF Ring, Rings
<1>2. \A i : slot(r, QueueSize, i) = Place(f, QueueSize, i)
  BY <1>1 DEF slot, Place
<1> HIDE DEF r
<1>3. HoldsNewest(r, c, n) <=>
        /\ e <= n
        /\ e # 0 => l = Place(f, QueueSize, e)
        /\ \A i \in 1..e : m[Place(f, QueueSize, i)] = <<c, n - e + i>>
  BY <1>1, <1>2 DEF HoldsNewest
<1> QED
  BY <1>3 DEF r

(* A ring that is empty holds the newest none.                             *)
LEMMA EmptyHolds ==
  ASSUME NEW f \in 0..(QueueSize - 1), NEW l \in 0..(QueueSize - 1),
         NEW m \in [0..(QueueSize - 1) -> Elements], NEW c \in Int, NEW n \in Nat
  PROVE  HoldsNewest(Ring(0, f, l, m), c, n)
<1>1. 0 \in 0..QueueSize /\ 0 <= n /\ 1..0 = {}
  BY UnbalancedAssumption
<1> QED
  BY <1>1, RingHolds

(* CS101_Queue_enqueue: the new entry is the newest; a full ring loses the *)
(* oldest.                                                                 *)
LEMMA EnqueueHolds ==
  ASSUME NEW q, NEW c \in Int, NEW n \in Nat, HoldsNewest(q, c, n)
  PROVE  /\ HoldsNewest(CS101_Queue_enqueue(q, QueueSize, <<c, n + 1>>), c, n + 1)
         /\ n - q.entryCounter
              <= n + 1 - CS101_Queue_enqueue(q, QueueSize, <<c, n + 1>>).entryCounter
<1>0. QueueSize \in Nat \ {0} /\ n + 1 \in Nat
  BY UnbalancedAssumption
<1>a. PICK e \in 0..QueueSize : \E f, l \in 0..(QueueSize - 1) :
        \E m \in [0..(QueueSize - 1) -> Elements] : q = Ring(e, f, l, m)
  BY RingFields
<1>b. PICK f \in 0..(QueueSize - 1), l \in 0..(QueueSize - 1) :
        \E m \in [0..(QueueSize - 1) -> Elements] : q = Ring(e, f, l, m)
  BY <1>a
<1>1. PICK m \in [0..(QueueSize - 1) -> Elements] : q = Ring(e, f, l, m)
  BY <1>b
<1>c. HoldsNewest(Ring(e, f, l, m), c, n)
  BY <1>1
<1>2. /\ e <= n
      /\ e # 0 => l = Place(f, QueueSize, e)
      /\ \A i \in 1..e : m[Place(f, QueueSize, i)] = <<c, n - e + i>>
  BY ZenonT(30), <1>c, RingHolds
<1> DEFINE S == QueueSize
           next == IF e = 0 THEN 0 ELSE Wrap(l + 1, S)
           e2 == IF e = S THEN S ELSE e + 1
           f2 == IF e = 0 THEN 0 ELSE IF e = S THEN Wrap(next + 1, S) ELSE f
           m2 == [m EXCEPT ![next] = <<c, n + 1>>]
<1>3. CS101_Queue_enqueue(q, QueueSize, <<c, n + 1>>) = Ring(e2, f2, next, m2)
  BY <1>1 DEF Ring, CS101_Queue_enqueue
<1>4. CASE e = 0
  <2>1. next = 0 /\ e2 = 1 /\ f2 = 0 /\ 0 \in 0..(S - 1) /\ 1 \in 0..S /\ 1..1 = {1}
    BY <1>0, <1>4
  <2>2. m2 \in [0..(S - 1) -> Elements] /\ m2[0] = <<c, n + 1>>
    BY SMTT(20), <1>0, <2>1 DEF Elements
  <2>3. Place(0, S, 1) = 0 /\ (n + 1) - 1 + 1 = n + 1 /\ 1 <= n + 1 /\ n - 0 <= n + 1 - 1
    BY <1>0 DEF Place
  <2>4. HoldsNewest(Ring(1, 0, 0, m2), c, n + 1)
    <3> HIDE DEF m2
    <3>1. \A i \in 1..1 : m2[Place(0, S, i)] = <<c, (n + 1) - 1 + i>>
      BY <2>1, <2>2, <2>3
    <3> QED
      BY <1>0, <2>1, <2>2, <2>3, <3>1, RingHolds
  <2>5. CS101_Queue_enqueue(q, QueueSize, <<c, n + 1>>) = Ring(1, 0, 0, m2)
    BY <1>3, <2>1
  <2> HIDE DEF m2
  <2>6. CS101_Queue_enqueue(q, QueueSize, <<c, n + 1>>).entryCounter = 1
        /\ q.entryCounter = 0
    BY <1>1, <1>4, <2>5 DEF Ring
  <2> QED
    BY <2>3, <2>4, <2>5, <2>6
<1>5. CASE e # 0 /\ e # S
  <2>1. /\ e \in 1..S /\ e + 1 \in 1..S /\ e2 = e + 1 /\ f2 = f /\ e + 1 \in 0..S
        /\ n + 1 - (e + 1) = n - e /\ e + 1 <= n + 1 /\ n - e <= n + 1 - (e + 1)
    BY <1>0, <1>2, <1>5
  <2>2. next = Place(f, S, e + 1) /\ next \in 0..(S - 1)
    BY <1>0, <1>2, <1>5, <2>1, PlaceBehind, PlaceInRing
  <2> HIDE DEF next
  <2>3. m2 \in [0..(S - 1) -> Elements] /\ m2[next] = <<c, n + 1>>
        /\ \A p \in 0..(S - 1) : p # next => m2[p] = m[p]
    BY SMTT(20), <1>0, <2>2 DEF Elements
  <2> HIDE DEF m2
  <2>4. ASSUME NEW i \in 1..(e + 1)
        PROVE  m2[Place(f, S, i)] = <<c, n + 1 - (e + 1) + i>>
    <3>1. CASE i = e + 1
      <4>1. n + 1 - (e + 1) + (e + 1) = n + 1
        BY <1>0
      <4> QED
        BY <2>2, <2>3, <3>1, <4>1
    <3>2. CASE i # e + 1
      <4>1. i \in 1..e /\ i \in 1..S
        BY <1>0, <3>2
      <4>2. Place(f, S, i) # next /\ Place(f, S, i) \in 0..(S - 1)
        BY <1>0, <2>1, <2>2, <3>2, <4>1, PlacesApart, PlaceInRing
      <4>3. m[Place(f, S, i)] = <<c, n - e + i>>
        BY <1>2, <4>1
      <4> QED
        BY <2>1, <2>3, <4>2, <4>3
    <3> QED
      BY <3>1, <3>2
  <2>5. HoldsNewest(Ring(e + 1, f, next, m2), c, n + 1)
    <3>1. PICK k \in Nat : k = n + 1
      BY <1>0
    <3>2. PICK d \in 0..QueueSize : d = e + 1
      BY <2>1
    <3>3. HoldsNewest(Ring(d, f, next, m2), c, k)
      <4>1. /\ d <= k
            /\ d # 0 => next = Place(f, QueueSize, d)
            /\ \A i \in 1..d : m2[Place(f, QueueSize, i)] = <<c, k - d + i>>
        <5>1. \A i \in 1..d : m2[Place(f, QueueSize, i)] = <<c, k - d + i>>
          BY SMTT(20), <2>4, <3>1, <3>2
        <5> QED
          BY <2>1, <2>2, <3>1, <3>2, <5>1
      <4> QED
        BY ZenonT(30), <2>2, <2>3, <4>1, RingHolds
    <3> QED
      BY <3>1, <3>2, <3>3
  <2> QED
    BY <1>1, <1>3, <2>1, <2>5 DEF Ring
<1>6. CASE e = S
  <2>1. /\ S \in 1..S /\ S # 0 /\ e2 = S /\ S \in 0..S
        /\ S <= n + 1 /\ n - S <= n + 1 - S
    BY <1>0, <1>2, <1>6
  <2>2. next = f /\ f2 = Wrap(f + 1, S) /\ f2 \in 0..(S - 1)
    BY <1>0, <1>2, <1>6, <2>1, PlaceBehind, NextSlot
  <2> HIDE DEF next, f2
  <2>3. m2 \in [0..(S - 1) -> Elements] /\ m2[f] = <<c, n + 1>>
        /\ \A p \in 0..(S - 1) : p # f => m2[p] = m[p]
    BY <1>0, <2>2 DEF Elements
  <2> HIDE DEF m2
  <2>4. ASSUME NEW i \in 1..S
        PROVE  m2[Place(f2, S, i)] = <<c, n + 1 - S + i>>
    <3>1. CASE i = S
      <4>1. n + 1 - S + S = n + 1 /\ Place(f2, S, i) = f
        BY <1>0, <2>2, <3>1, PlaceAfterFirst
      <4> QED
        BY <2>3, <3>1, <4>1
    <3>2. CASE i # S
      <4>1. i + 1 \in 1..S /\ i + 1 # 1 /\ 1 \in 1..S /\ n - S + (i + 1) = n + 1 - S + i
        BY <1>0, <3>2
      <4>2. Place(f2, S, i) = Place(f, S, i + 1)
        BY <1>0, <2>2, <3>2, PlaceAfterFirst
      <4>3. Place(f, S, i + 1) # f /\ Place(f, S, i + 1) \in 0..(S - 1)
        <5>1. Place(f, S, 1) = f /\ Place(f, S, i + 1) # Place(f, S, 1)
          BY <1>0, <4>1, FirstPlace, PlacesApart
        <5>2. Place(f, S, i + 1) \in 0..(S - 1)
          BY <1>0, <4>1, PlaceInRing
        <5> QED
          BY <5>1, <5>2
      <4>4. m[Place(f, S, i + 1)] = <<c, n - S + (i + 1)>>
        BY <1>2, <1>6, <4>1
      <4> QED
        BY <2>3, <4>1, <4>2, <4>3, <4>4
    <3> QED
      BY <3>1, <3>2
  <2>5. f = Place(f2, S, S)
    BY <1>0, <2>1, <2>2, PlaceAfterFirst
  <2>6. HoldsNewest(Ring(S, f2, f, m2), c, n + 1)
    <3>1. PICK k \in Nat : k = n + 1
      BY <1>0
    <3>2. /\ S <= k
          /\ S # 0 => f = Place(f2, QueueSize, S)
          /\ \A i \in 1..S : m2[Place(f2, QueueSize, i)] = <<c, k - S + i>>
      BY SMTT(20), <2>1, <2>4, <2>5, <3>1
    <3>3. HoldsNewest(Ring(S, f2, f, m2), c, k)
      BY <2>1, <2>2, <2>3, <3>2, RingHolds
    <3> QED
      BY <3>1, <3>3
  <2> QED
    BY <1>1, <1>3, <1>6, <2>1, <2>2, <2>6 DEF Ring
<1> QED
  BY <1>4, <1>5, <1>6

(* CS101_Queue_dequeue: the oldest entry goes.                             *)
LEMMA DequeueHolds ==
  ASSUME NEW q, NEW c \in Int, NEW n \in Nat, HoldsNewest(q, c, n)
  PROVE  /\ HoldsNewest(CS101_Queue_dequeue(q, QueueSize), c, n)
         /\ CS101_Queue_isEmpty(q) => CS101_Queue_dequeue(q, QueueSize) = q
         /\ ~CS101_Queue_isEmpty(q) =>
              /\ CS101_Queue_first(q) = <<c, n - q.entryCounter + 1>>
              /\ CS101_Queue_dequeue(q, QueueSize).entryCounter = q.entryCounter - 1
<1>0. QueueSize \in Nat \ {0}
  BY UnbalancedAssumption
<1>a. PICK e \in 0..QueueSize : \E f, l \in 0..(QueueSize - 1) :
        \E m \in [0..(QueueSize - 1) -> Elements] : q = Ring(e, f, l, m)
  BY RingFields
<1>b. PICK f \in 0..(QueueSize - 1), l \in 0..(QueueSize - 1) :
        \E m \in [0..(QueueSize - 1) -> Elements] : q = Ring(e, f, l, m)
  BY <1>a
<1>1. PICK m \in [0..(QueueSize - 1) -> Elements] : q = Ring(e, f, l, m)
  BY <1>b
<1>c. HoldsNewest(Ring(e, f, l, m), c, n)
  BY <1>1
<1>2. /\ e <= n
      /\ e # 0 => l = Place(f, QueueSize, e)
      /\ \A i \in 1..e : m[Place(f, QueueSize, i)] = <<c, n - e + i>>
  BY ZenonT(30), <1>c, RingHolds
<1>3. CASE e = 0
  BY <1>1, <1>3 DEF Ring, CS101_Queue_dequeue, CS101_Queue_isEmpty
<1>4. CASE e # 0
  <2> DEFINE S == QueueSize
             f2 == Wrap(f + 1, S)
  <2>1. f2 = (f + 1) % S /\ f2 \in 0..(S - 1)
    BY <1>0, NextSlot
  <2>2. CS101_Queue_dequeue(q, S) = Ring(e - 1, f2, l, m)
    BY <1>1, <1>4, <2>1 DEF Ring, CS101_Queue_dequeue, CS101_Queue_isEmpty
  <2> HIDE DEF f2
  <2>3. /\ e - 1 \in 0..S /\ e - 1 <= n /\ e \in 1..S /\ 1 \in 1..e
        /\ (e - 1) + 1 = e
    BY <1>0, <1>2, <1>4
  <2>4. ASSUME NEW i \in 1..(e - 1)
        PROVE  m[Place(f2, S, i)] = <<c, n - (e - 1) + i>>
    <3>1. i + 1 \in 1..e /\ i \in 1..S /\ i # S /\ n - e + (i + 1) = n - (e - 1) + i
      BY <1>0
    <3>2. Place(f2, S, i) = Place(f, S, i + 1)
      BY <1>0, <3>1, PlaceAfterFirst DEF f2
    <3> QED
      BY <1>2, <3>1, <3>2
  <2>5. e - 1 # 0 => l = Place(f2, S, e - 1)
    <3>1. e - 1 # 0 => e - 1 \in 1..S /\ e - 1 # S
      BY <1>0, <1>4
    <3> QED
      BY <1>0, <1>2, <1>4, <2>3, <3>1, PlaceAfterFirst DEF f2
  <2>6. HoldsNewest(Ring(e - 1, f2, l, m), c, n)
    BY <2>1, <2>3, <2>4, <2>5, RingHolds
  <2>7. m[f] = <<c, n - e + 1>>
    <3>1. Place(f, S, 1) = f
      BY <1>0, FirstPlace
    <3> QED
      BY <1>2, <2>3, <3>1
  <2> QED
    BY <1>1, <1>4, <2>2, <2>6, <2>7 DEF Ring, CS101_Queue_first, CS101_Queue_isEmpty
<1> QED
  BY <1>3, <1>4

(* CS101_Queue_flush empties the ring.                                     *)
LEMMA FlushHolds ==
  ASSUME NEW q, NEW c \in Int, NEW n \in Nat, HoldsNewest(q, c, n)
  PROVE  /\ HoldsNewest(CS101_Queue_flush(q), c, n)
         /\ CS101_Queue_flush(q).entryCounter = 0
<1>a. PICK e \in 0..QueueSize : \E f, l \in 0..(QueueSize - 1) :
        \E m \in [0..(QueueSize - 1) -> Elements] : q = Ring(e, f, l, m)
  BY RingFields
<1>b. PICK f \in 0..(QueueSize - 1), l \in 0..(QueueSize - 1) :
        \E m \in [0..(QueueSize - 1) -> Elements] : q = Ring(e, f, l, m)
  BY <1>a
<1>1. PICK m \in [0..(QueueSize - 1) -> Elements] : q = Ring(e, f, l, m)
  BY <1>b
<1>2. CS101_Queue_flush(q) = Ring(0, 0, 0, m)
  <2>1. [q EXCEPT !.entryCounter = 0] = Ring(0, f, l, m)
    BY <1>1 DEF Ring
  <2>2. [Ring(0, f, l, m) EXCEPT !.firstMsgIndex = 0] = Ring(0, 0, l, m)
    BY DEF Ring
  <2>3. [Ring(0, 0, l, m) EXCEPT !.lastMsgIndex = 0] = Ring(0, 0, 0, m)
    BY DEF Ring
  <2> QED
    BY <2>1, <2>2, <2>3 DEF CS101_Queue_flush
<1>3. 0 \in 0..(QueueSize - 1)
  BY UnbalancedAssumption
<1> QED
  BY <1>2, <1>3, EmptyHolds DEF Ring

(* The queues of a slave that has started are empty.                       *)
LEMMA EmptyQueuesHold ==
  ASSUME NEW c \in Classes, NEW n \in Nat
  PROVE  HoldsNewest(EmptyQueues[c], c, n) /\ EmptyQueues[c].entryCounter = 0
<1> DEFINE m == [i \in 0..QueueSize - 1 |-> NoAsdu]
<1>1. m \in [0..(QueueSize - 1) -> Elements] /\ c \in Int /\ 0 \in 0..(QueueSize - 1)
  BY UnbalancedAssumption DEF NoAsdu, Elements, Classes
<1>2. EmptyQueues[c] = Ring(0, 0, 0, m)
  BY DEF EmptyQueues, CS101_Queue_initialize, Ring
<1> HIDE DEF m
<1> QED
  BY <1>1, <1>2, EmptyHolds DEF Ring


-----------------------------------------------------------------------------
(* The invariant                                                           *)

Requests ==
  {"REQUEST_LINK_STATUS", "RESET_REMOTE_LINK", "TEST_FUNCTION_FOR_LINK", "USER_DATA_CONFIRMED",
   "REQUEST_USER_DATA_CLASS_1", "REQUEST_USER_DATA_CLASS_2"}

Frames == [fc : Requests \cup {"USER_DATA_NO_REPLY"}, fcb : BOOLEAN, fcv : BOOLEAN, command : Int]

AnswerCodes ==
  {"ACK", "NACK", "STATUS_OF_LINK", "RESP_USER_DATA", "RESP_NACK_NO_DATA",
   "SERVICE_NOT_IMPLEMENTED"}

Answers == [from : 0..N, fc : AnswerCodes, acd : BOOLEAN, dfc : BOOLEAN, asdu : Elements]

(* The variables with one plain value per slave, and those of the turn.    *)
States == {"IDLE", "ERROR", "BUSY", "AVAILABLE"}
PrimaryStates ==
  {"IDLE", "TIMEOUT", "REQUEST_STATUS", "RESET_REMOTE_LINK", "LINK_LAYERS_AVAILABLE",
   "SEND_CONFIRM", "REQUEST_RESPOND", "BUSY"}

PlainTypes ==
  /\ state \in [Slaves -> States] /\ primaryState \in [Slaves -> PrimaryStates]
  /\ waitingForResponse \in [Slaves -> BOOLEAN]
  /\ sendLinkLayerTestFunction \in [Slaves -> BOOLEAN]
  /\ nextFcb \in [Slaves -> BOOLEAN] /\ expectedFcb \in [Slaves -> BOOLEAN]
  /\ requestClass1Data \in [Slaves -> BOOLEAN] /\ requestClass2Data \in [Slaves -> BOOLEAN]
  /\ repeats \in [Slaves -> 0..Repeats]
  /\ currentSlave \in 0..N /\ currentSlaveIndex \in Slaves

(* A command that waits for its confirmation is in the buffer.             *)
CommandInHand == \A s \in Slaves : primaryState[s] = "SEND_CONFIRM" => nextMessage[s] # NoCommand

(* What the applications have done is within the bounds of the scenario,   *)
(* and what waits to be sent was given to the master.                      *)
BoundsOK ==
  /\ scenario \in Scenario
  /\ faults \in [Faults -> Nat]
  /\ enqueued \in [Slaves -> [Classes -> Nat]]
  /\ \A s \in Slaves, c \in Classes : enqueued[s][c] <= scenario.asdus[s][c]
  /\ submitted \in [Slaves -> Nat]
  /\ \A s \in Slaves : submitted[s] <= scenario.commands[s]
  /\ nextMessage \in [Slaves -> Nat]
  /\ \A s \in Slaves : nextMessage[s] <= submitted[s]
  /\ broadcasts \in Nat /\ broadcasts <= scenario.broadcasts
  /\ nextBroadcast \in (0 - broadcasts)..0

(* How many ASDUs of a class have left their queue. *)
Gone(s, c) == enqueued[s][c] - queue[s][c].entryCounter

(* The class queues hold the newest ASDUs; the buffer of the link layer    *)
(* holds one that has left them, if any.                                   *)
QueuesOK ==
  /\ queue = [s \in Slaves |-> queue[s]]
  /\ \A s \in Slaves : queue[s] = [c \in Classes |-> queue[s][c]]
  /\ \A s \in Slaves, c \in Classes : HoldsNewest(queue[s][c], c, enqueued[s][c])
  /\ userData = [s \in Slaves |-> userData[s]]
  /\ \A s \in Slaves : \/ userData[s] \in {NoAsdu, Garbage}
                       \/ \E c \in Classes : \E k \in 1..Gone(s, c) : userData[s] = <<c, k>>

LineOK == down \in [Slaves -> Seq(Frames)] /\ up \in Seq(Answers)

ForAll(s) == {i \in 1..Len(down[s]) : down[s][i].fc = "USER_DATA_NO_REPLY"}

(* A broadcast is under way only if there ever was one. *)
BroadcastsOK == broadcasts = 0 => \A s \in Slaves : ForAll(s) = {}

(* The request that a state of the master stands for, and the answers that *)
(* end it.                                                                 *)
Asks(primary_state, fc) ==
  \/ primary_state = "REQUEST_STATUS" /\ fc = "REQUEST_LINK_STATUS"
  \/ primary_state = "RESET_REMOTE_LINK" /\ fc = "RESET_REMOTE_LINK"
  \/ primary_state = "SEND_CONFIRM" /\ fc = "USER_DATA_CONFIRMED"
  \/ /\ primary_state = "REQUEST_RESPOND"
     /\ fc \in {"REQUEST_USER_DATA_CLASS_1", "REQUEST_USER_DATA_CLASS_2"}

Ends(primary_state, fc) ==
  \/ primary_state = "REQUEST_STATUS" /\ fc = "STATUS_OF_LINK"
  \/ primary_state = "RESET_REMOTE_LINK" /\ fc = "ACK"
  \/ primary_state = "SEND_CONFIRM" /\ fc = "ACK"
  \/ primary_state = "REQUEST_RESPOND" /\ fc \in {"ACK", "RESP_USER_DATA", "RESP_NACK_NO_DATA"}

Asking == {"REQUEST_STATUS", "RESET_REMOTE_LINK", "SEND_CONFIRM", "REQUEST_RESPOND"}

(* The master waits for the slave whose turn it is and for nobody else;    *)
(* after a request was given up it waits in IDLE, until it asks again.     *)
WaitsInTurn ==
  \A s \in Slaves :
    /\ waitingForResponse[s] => s = currentSlave /\ primaryState[s] \in Asking \cup {"IDLE"}
    /\ primaryState[s] \in Asking => waitingForResponse[s]
    /\ ~sendLinkLayerTestFunction[s]

(* A request under way is the one that the master waits for, and there is  *)
(* neither another nor an answer.                                          *)
RequestFits ==
  \A s \in Slaves : \A i \in 1..Len(down[s]) : i \notin ForAll(s) =>
    /\ waitingForResponse[s] /\ Asks(primaryState[s], down[s][i].fc)
    /\ up = <<>>
    /\ \A j \in 1..Len(down[s]) : j # i => j \in ForAll(s)

(* An answer under way is the one that the master waits for. *)
AnswerFits ==
  /\ Len(up) <= 1
  /\ up # <<>> =>
       /\ currentSlave \in Slaves /\ waitingForResponse[currentSlave]
       /\ up[1].from \in {NoSlave, currentSlave}
       /\ ~up[1].dfc /\ Ends(primaryState[currentSlave], up[1].fc)

OneExchange == ~OutOfStep => WaitsInTurn /\ RequestFits /\ AnswerFits

IInv ==
  PlainTypes /\ CommandInHand /\ BoundsOK /\ QueuesOK /\ LineOK /\ BroadcastsOK /\ OneExchange

-----------------------------------------------------------------------------
(* The steps, by the part of the system that takes them                    *)

Handles(s) ==
  \/ HandleDFC(s) \/ HandleAck(s) \/ HandleOtherAck(s) \/ HandleNack(s)
  \/ HandleStatusOfLink(s) \/ HandleUserData(s) \/ HandleNoData(s)
  \/ HandleUnexpectedData(s) \/ HandleServiceNotImplemented(s)

Runs(s) ==
  \/ RunIdle(s) \/ RunTimeoutOver(s) \/ RunTimeoutStatusOrReset(s)
  \/ RunResetWithoutStatus(s) \/ RunAvailableWithoutAck(s)
  \/ RunSendTest(s) \/ RunSendCommand(s) \/ RunRequestClass1(s) \/ RunRequestClass2(s)
  \/ RunRepeat(s) \/ RunGiveUpCommand(s) \/ RunGiveUpRequest(s) \/ RunNothing(s)

Answering(s) == SlaveRun(s) \/ ForeignAnswer(s)

User(s) ==
  \/ Poll(s) \/ PollClass1(s) \/ SendASDU(s) \/ sendTest(s) \/ \E c \in Classes : Enqueue(s, c)

(* Every step is one of these.                                             *)
LEMMA Steps ==
  ASSUME [Next]_vars
  PROVE  \/ UNCHANGED vars \/ RunBroadcast \/ SendBroadcast \/ Lose
         \/ \E s \in Slaves : \/ Handles(s) \/ Runs(s) \/ Answering(s) \/ RestartSlave(s)
                              \/ User(s)
BY DEF Next, HandleMessage, RunStateMachine, Handles, Runs, Answering, User

(* The master's handling of an answer takes it off the line and leaves     *)
(* the slaves alone.                                                       *)
LEMMA HandlesFrame ==
  ASSUME NEW s \in Slaves, Handles(s)
  PROVE  /\ up # <<>> /\ up' = Tail(up) /\ s = answering
         /\ UNCHANGED <<expectedFcb, userData, queue, enqueued, submitted, refused, broadcasts>>
         /\ UNCHANGED <<indicated, indicatedAgain, resets, faults, scenario, nextFcb, repeats>>
         /\ UNCHANGED <<currentSlave, currentSlaveIndex, nextBroadcast>>
         /\ \/ nextMessage' = nextMessage
            \/ nextMessage' = [nextMessage EXCEPT ![s] = NoCommand]
         /\ \/ sendLinkLayerTestFunction' = sendLinkLayerTestFunction
            \/ sendLinkLayerTestFunction' = [sendLinkLayerTestFunction EXCEPT ![s] = FALSE]
         /\ mustRun' = TRUE
<1> USE DEF Handles, HandleDFC, HandleAck, HandleOtherAck, HandleNack, HandleStatusOfLink,
        HandleUserData, HandleNoData, HandleUnexpectedData, HandleServiceNotImplemented,
        ReadAnswer, Read, slave, application, history
<1>1. up # <<>> /\ up' = Tail(up) /\ s = answering
  OBVIOUS
<1>2. UNCHANGED <<expectedFcb, userData, queue, enqueued, submitted, refused, broadcasts>>
  OBVIOUS
<1>3. UNCHANGED <<indicated, indicatedAgain, resets, faults, scenario, nextFcb, repeats>>
  OBVIOUS
<1>4. UNCHANGED <<currentSlave, currentSlaveIndex, nextBroadcast>>
  OBVIOUS
<1>5. \/ nextMessage' = nextMessage
      \/ nextMessage' = [nextMessage EXCEPT ![s] = NoCommand]
  OBVIOUS
<1>6. \/ sendLinkLayerTestFunction' = sendLinkLayerTestFunction
      \/ sendLinkLayerTestFunction' = [sendLinkLayerTestFunction EXCEPT ![s] = FALSE]
  OBVIOUS
<1>7. mustRun' = TRUE
  OBVIOUS
<1> QED
  BY <1>1, <1>2, <1>3, <1>4, <1>5, <1>6, <1>7

(* The master's state machine leaves the slaves and the answers alone; a   *)
(* timer that runs out while something is under way is a late answer.      *)
LEMMA RunsFrame ==
  ASSUME NEW s \in Slaves, Runs(s)
  PROVE  /\ UNCHANGED <<expectedFcb, userData, queue, enqueued, submitted, refused, broadcasts>>
         /\ UNCHANGED <<received, receivedAgain, indicated, indicatedAgain, notIndicated, resets>>
         /\ UNCHANGED <<up, scenario, nextMessage, nextBroadcast>>
         /\ nextBroadcast = NoCommand
         /\ faults' = faults \/ Fault("late")
         /\ mustRun' = FALSE
<1> USE DEF Runs, RunIdle, RunTimeoutOver, RunTimeoutStatusOrReset, RunResetWithoutStatus,
        RunAvailableWithoutAck, RunSendTest, RunSendCommand, RunRequestClass1, RunRequestClass2,
        NewExchange, RunRepeat, RunGiveUpCommand, RunGiveUpRequest, RunNothing, Turn, Run,
        Timeout, slave, application, history, primary
<1>1. UNCHANGED <<expectedFcb, userData, queue, enqueued, submitted, refused, broadcasts>>
  OBVIOUS
<1>2. UNCHANGED <<received, receivedAgain, indicated, indicatedAgain, notIndicated, resets>>
  OBVIOUS
<1>3. UNCHANGED <<up, nextMessage, nextBroadcast>> /\ nextBroadcast = NoCommand
  OBVIOUS
<1>4. /\ faults' = faults \/ Fault("late")
      /\ scenario' = scenario
  BY DEF Fault
<1>5. mustRun' = FALSE
  OBVIOUS
<1> QED
  BY <1>1, <1>2, <1>3, <1>4, <1>5

(* A slave that answers takes a frame off its line and leaves the master   *)
(* alone.                                                                  *)
LEMMA AnsweringFrame ==
  ASSUME NEW s \in Slaves, Answering(s)
  PROVE  /\ Take(s)
         /\ UNCHANGED <<state, primaryState, waitingForResponse, sendLinkLayerTestFunction, nextFcb>>
         /\ UNCHANGED <<nextMessage, requestClass1Data, requestClass2Data, repeats>>
         /\ UNCHANGED <<currentSlave, currentSlaveIndex, nextBroadcast, mustRun>>
         /\ UNCHANGED <<enqueued, submitted, refused, broadcasts, received, receivedAgain>>
         /\ UNCHANGED <<notIndicated, scenario>>
         /\ faults' = faults \/ Fault("foreign")
<1> USE DEF Answering, SlaveRun, ForeignAnswer, HandleRequestLinkStatus, HandleResetRemoteLink,
        HandleRequestUserData, HandleUserDataConfirmed, HandleUserDataNoReply, HandleTestFunction,
        TakeAndSend, primary, master, application, history
<1>1. Take(s)
  OBVIOUS
<1>2. UNCHANGED <<state, primaryState, waitingForResponse, sendLinkLayerTestFunction, nextFcb>>
  OBVIOUS
<1>3. UNCHANGED <<nextMessage, requestClass1Data, requestClass2Data, repeats>>
  OBVIOUS
<1>4. UNCHANGED <<currentSlave, currentSlaveIndex, nextBroadcast, mustRun>>
  OBVIOUS
<1>5. UNCHANGED <<enqueued, submitted, refused, broadcasts, received, receivedAgain>>
  OBVIOUS
<1>6. UNCHANGED <<notIndicated, scenario>> /\ (faults' = faults \/ Fault("foreign"))
  BY DEF Fault
<1> QED
  BY <1>1, <1>2, <1>3, <1>4, <1>5, <1>6

(* The user of a station changes nothing but what he asks for.             *)
LEMMA UserFrame ==
  ASSUME NEW s \in Slaves, User(s)
  PROVE  /\ UNCHANGED <<state, primaryState, waitingForResponse, nextFcb, repeats>>
         /\ UNCHANGED <<currentSlave, currentSlaveIndex, nextBroadcast, mustRun>>
         /\ UNCHANGED <<expectedFcb, userData, down, up, broadcasts>>
         /\ UNCHANGED <<received, receivedAgain, indicated, indicatedAgain, notIndicated, resets>>
         /\ scenario' = scenario
         /\ \/ faults' = faults /\ sendLinkLayerTestFunction' = sendLinkLayerTestFunction
            \/ sendTest(s)
         /\ (UNCHANGED <<queue, enqueued>> \/ \E c \in Classes : Enqueue(s, c))
         /\ (UNCHANGED <<nextMessage, submitted>> \/ SendASDU(s))
<1> USE DEF User, Poll, PollClass1, SendASDU, sendTest, Enqueue, primary, master, slave,
        application, history
<1>1. UNCHANGED <<state, primaryState, waitingForResponse, nextFcb, repeats>>
  OBVIOUS
<1>2. UNCHANGED <<currentSlave, currentSlaveIndex, nextBroadcast, mustRun>>
  OBVIOUS
<1>3. UNCHANGED <<expectedFcb, userData, down, up, broadcasts>>
  OBVIOUS
<1>4. UNCHANGED <<received, receivedAgain, indicated, indicatedAgain, notIndicated, resets>>
  OBVIOUS
<1>5. /\ scenario' = scenario
      /\ \/ faults' = faults /\ sendLinkLayerTestFunction' = sendLinkLayerTestFunction
         \/ sendTest(s)
  BY DEF Fault
<1>6. (UNCHANGED <<queue, enqueued>> \/ \E c \in Classes : Enqueue(s, c))
  OBVIOUS
<1>7. (UNCHANGED <<nextMessage, submitted>> \/ SendASDU(s))
  OBVIOUS
<1> QED
  BY <1>1, <1>2, <1>3, <1>4, <1>5, <1>6, <1>7

-----------------------------------------------------------------------------
(* Bounds and types                                                        *)

(* The scenario does not change and faults only become more.               *)
LEMMA FaultSteps ==
  ASSUME BoundsOK, [Next]_vars
  PROVE  /\ scenario' = scenario /\ faults' \in [Faults -> Nat]
         /\ \A k \in Faults : faults'[k] >= faults[k]
<1>1. /\ scenario' = scenario
      /\ faults' = faults \/ \E k \in Faults : Fault(k)
  <2>1. CASE UNCHANGED vars \/ RunBroadcast \/ SendBroadcast
    BY <2>1 DEF vars, RunBroadcast, SendBroadcast
  <2>2. CASE Lose
    BY <2>2 DEF Lose, Fault, Faults
  <2>3. ASSUME NEW s \in Slaves, Handles(s)
        PROVE  faults' = faults /\ scenario' = scenario
    BY <2>3, HandlesFrame
  <2>4. ASSUME NEW s \in Slaves, Runs(s)
        PROVE  scenario' = scenario /\ (faults' = faults \/ Fault("late"))
    BY <2>4, RunsFrame
  <2>5. ASSUME NEW s \in Slaves, Answering(s)
        PROVE  scenario' = scenario /\ (faults' = faults \/ Fault("foreign"))
    BY <2>5, AnsweringFrame
  <2>6. ASSUME NEW s \in Slaves, RestartSlave(s)
        PROVE  scenario' = scenario /\ Fault("restart")
    BY <2>6 DEF RestartSlave, Fault
  <2>7. ASSUME NEW s \in Slaves, User(s)
        PROVE  scenario' = scenario /\ (faults' = faults \/ Fault("test"))
    BY <2>7, UserFrame DEF sendTest
  <2> QED
    BY <2>1, <2>2, <2>3, <2>4, <2>5, <2>6, <2>7, Steps DEF Faults
<1>2. ASSUME NEW k \in Faults, Fault(k)
      PROVE  faults' \in [Faults -> Nat] /\ \A j \in Faults : faults'[j] >= faults[j]
  BY <1>2 DEF Fault, BoundsOK
<1>3. CASE faults' = faults
  BY <1>1, <1>3 DEF BoundsOK
<1> QED
  BY <1>1, <1>2, <1>3

(* What the slaves' applications enqueue stays within the scenario.        *)
LEMMA EnqueuedSteps ==
  ASSUME BoundsOK, [Next]_vars
  PROVE  /\ enqueued' \in [Slaves -> [Classes -> Nat]]
         /\ \A s \in Slaves, c \in Classes :
              enqueued[s][c] <= enqueued'[s][c] /\ enqueued'[s][c] <= scenario.asdus[s][c]
<1>1. enqueued' = enqueued \/ \E s \in Slaves, c \in Classes : Enqueue(s, c)
  <2>1. CASE UNCHANGED vars \/ RunBroadcast \/ SendBroadcast \/ Lose
    BY <2>1 DEF vars, RunBroadcast, SendBroadcast, Lose, application
  <2>2. ASSUME NEW s \in Slaves, Handles(s) \/ Runs(s) \/ Answering(s)
        PROVE  enqueued' = enqueued
    BY <2>2, HandlesFrame, RunsFrame, AnsweringFrame
  <2>3. ASSUME NEW s \in Slaves, RestartSlave(s)
        PROVE  enqueued' = enqueued
    BY <2>3 DEF RestartSlave, application
  <2>4. ASSUME NEW s \in Slaves, User(s)
        PROVE  enqueued' = enqueued \/ \E c \in Classes : Enqueue(s, c)
    BY <2>4, UserFrame
  <2> QED
    BY <2>1, <2>2, <2>3, <2>4, Steps
<1>2. scenario.asdus \in [Slaves -> [Classes -> Nat]]
  BY DEF BoundsOK, Scenario
<1>3. ASSUME NEW s \in Slaves, NEW c \in Classes, Enqueue(s, c)
      PROVE  /\ enqueued' \in [Slaves -> [Classes -> Nat]]
             /\ \A t \in Slaves, d \in Classes :
                  enqueued[t][d] <= enqueued'[t][d] /\ enqueued'[t][d] <= scenario.asdus[t][d]
  <2>1. /\ enqueued' = [enqueued EXCEPT ![s] = [enqueued[s] EXCEPT ![c] = enqueued[s][c] + 1]]
        /\ enqueued[s][c] < scenario.asdus[s][c]
    BY <1>3 DEF Enqueue
  <2>2. enqueued \in [Slaves -> [Classes -> Nat]]
        /\ \A t \in Slaves, d \in Classes : enqueued[t][d] <= scenario.asdus[t][d]
    BY DEF BoundsOK
  <2>3. enqueued' \in [Slaves -> [Classes -> Nat]]
    BY <2>1, <2>2
  <2>4. ASSUME NEW t \in Slaves, NEW d \in Classes
        PROVE  enqueued[t][d] <= enqueued'[t][d] /\ enqueued'[t][d] <= scenario.asdus[t][d]
    <3>1. enqueued[t][d] \in Nat /\ scenario.asdus[t][d] \in Nat
      BY <1>2, <2>2
    <3>2. CASE t = s /\ d = c
      BY <2>1, <2>2, <3>1, <3>2
    <3>3. CASE ~(t = s /\ d = c)
      <4>1. enqueued'[t][d] = enqueued[t][d]
        BY <2>1, <2>2, <3>3
      <4> QED
        BY <2>2, <3>1, <4>1
    <3> QED
      BY <3>2, <3>3
  <2> QED
    BY <2>3, <2>4
<1>4. CASE enqueued' = enqueued
  BY <1>4 DEF BoundsOK
<1> QED
  BY <1>1, <1>3, <1>4

(* Commands are given to the master one after the other, and one of them   *)
(* waits in its buffer.                                                    *)
LEMMA CommandSteps ==
  ASSUME BoundsOK, [Next]_vars
  PROVE  /\ submitted' \in [Slaves -> Nat] /\ nextMessage' \in [Slaves -> Nat]
         /\ \A s \in Slaves : submitted'[s] <= scenario.commands[s] /\ nextMessage'[s] <= submitted'[s]
<1>0. /\ submitted \in [Slaves -> Nat] /\ nextMessage \in [Slaves -> Nat]
      /\ scenario.commands \in [Slaves -> Nat]
      /\ \A s \in Slaves : submitted[s] <= scenario.commands[s] /\ nextMessage[s] <= submitted[s]
  BY DEF BoundsOK, Scenario
<1>1. \/ UNCHANGED <<submitted, nextMessage>>
      \/ \E s \in Slaves : \/ SendASDU(s)
                           \/ /\ nextMessage' = [nextMessage EXCEPT ![s] = NoCommand]
                              /\ submitted' = submitted
  <2>1. CASE UNCHANGED vars \/ RunBroadcast \/ SendBroadcast \/ Lose
    BY <2>1 DEF vars, RunBroadcast, SendBroadcast, Lose, application, primary
  <2>2. ASSUME NEW s \in Slaves, Handles(s)
        PROVE  /\ submitted' = submitted
               /\ \/ nextMessage' = nextMessage
                  \/ nextMessage' = [nextMessage EXCEPT ![s] = NoCommand]
    BY <2>2, HandlesFrame
  <2>3. ASSUME NEW s \in Slaves, Runs(s) \/ Answering(s)
        PROVE  UNCHANGED <<submitted, nextMessage>>
    BY <2>3, RunsFrame, AnsweringFrame
  <2>4. ASSUME NEW s \in Slaves, RestartSlave(s)
        PROVE  UNCHANGED <<submitted, nextMessage>>
    BY <2>4 DEF RestartSlave, application, primary
  <2>5. ASSUME NEW s \in Slaves, User(s)
        PROVE  UNCHANGED <<submitted, nextMessage>> \/ SendASDU(s)
    BY <2>5, UserFrame
  <2> QED
    BY <2>1, <2>2, <2>3, <2>4, <2>5, Steps
<1>2. ASSUME NEW s \in Slaves, SendASDU(s)
      PROVE  /\ submitted' \in [Slaves -> Nat] /\ nextMessage' \in [Slaves -> Nat]
             /\ \A t \in Slaves :
                  submitted'[t] <= scenario.commands[t] /\ nextMessage'[t] <= submitted'[t]
  <2>1. /\ submitted' = [submitted EXCEPT ![s] = submitted[s] + 1]
        /\ submitted[s] < scenario.commands[s]
        /\ nextMessage' = nextMessage \/ nextMessage' = [nextMessage EXCEPT ![s] = submitted'[s]]
    BY <1>2 DEF SendASDU
  <2>2. submitted'[s] = submitted[s] + 1 /\ submitted' \in [Slaves -> Nat]
        /\ \A t \in Slaves : submitted[t] <= submitted'[t] /\ submitted'[t] <= scenario.commands[t]
    BY <1>0, <2>1
  <2> QED
    BY <1>0, <2>1, <2>2
<1>3. ASSUME NEW s \in Slaves, nextMessage' = [nextMessage EXCEPT ![s] = NoCommand],
             submitted' = submitted
      PROVE  /\ submitted' \in [Slaves -> Nat] /\ nextMessage' \in [Slaves -> Nat]
             /\ \A t \in Slaves :
                  submitted'[t] <= scenario.commands[t] /\ nextMessage'[t] <= submitted'[t]
  BY <1>0, <1>3 DEF NoCommand
<1>4. CASE UNCHANGED <<submitted, nextMessage>>
  BY <1>0, <1>4
<1> QED
  BY <1>1, <1>2, <1>3, <1>4

(* A broadcast waits only if one was given to the master.                  *)
LEMMA BroadcastSteps ==
  ASSUME BoundsOK, [Next]_vars
  PROVE  /\ broadcasts' \in Nat /\ broadcasts' <= scenario.broadcasts
         /\ broadcasts <= broadcasts' /\ nextBroadcast' \in (0 - broadcasts')..0
<1>0. /\ broadcasts \in Nat /\ scenario.broadcasts \in Nat /\ broadcasts <= scenario.broadcasts
      /\ nextBroadcast \in (0 - broadcasts)..0
  BY DEF BoundsOK, Scenario
<1>1. CASE SendBroadcast
  <2>1. /\ broadcasts' = broadcasts + 1 /\ broadcasts < scenario.broadcasts
        /\ nextBroadcast' = -broadcasts' \/ nextBroadcast' = nextBroadcast
    BY <1>1 DEF SendBroadcast
  <2> QED
    BY <1>0, <2>1
<1>2. CASE RunBroadcast
  <2>1. broadcasts' = broadcasts /\ nextBroadcast' = 0
    BY <1>2 DEF RunBroadcast, application, NoCommand
  <2> QED
    BY <1>0, <2>1
<1>3. CASE UNCHANGED <<broadcasts, nextBroadcast>>
  BY <1>0, <1>3
<1>4. CASE UNCHANGED vars \/ Lose
  BY <1>3, <1>4 DEF vars, Lose, application, master
<1>5. ASSUME NEW s \in Slaves, Handles(s) \/ Runs(s) \/ Answering(s) \/ User(s)
      PROVE  UNCHANGED <<broadcasts, nextBroadcast>>
  BY <1>5, HandlesFrame, RunsFrame, AnsweringFrame, UserFrame
<1>6. ASSUME NEW s \in Slaves, RestartSlave(s)
      PROVE  UNCHANGED <<broadcasts, nextBroadcast>>
  BY <1>6 DEF RestartSlave, application, master
<1> QED
  BY <1>1, <1>2, <1>3, <1>4, <1>5, <1>6, Steps

(* BoundsOK is kept.                                                       *)
LEMMA BoundsKept ==
  ASSUME BoundsOK, [Next]_vars
  PROVE  BoundsOK'
BY FaultSteps, EnqueuedSteps, CommandSteps, BroadcastSteps DEF BoundsOK

-----------------------------------------------------------------------------
(* The class queues                                                        *)

(* What a step may do to one queue. *)
QueueStep(s, c) ==
  \/ queue'[s][c] = queue[s][c] /\ enqueued'[s][c] = enqueued[s][c]
  \/ /\ queue'[s][c] = CS101_Queue_enqueue(queue[s][c], QueueSize, <<c, enqueued[s][c] + 1>>)
     /\ enqueued'[s][c] = enqueued[s][c] + 1
  \/ /\ \/ queue'[s][c] = CS101_Queue_dequeue(queue[s][c], QueueSize)
        \/ queue'[s][c] = CS101_Queue_flush(queue[s][c])
        \/ queue'[s][c] = EmptyQueues[c]
     /\ enqueued'[s][c] = enqueued[s][c]

Both(f) == f = [c \in Classes |-> f[c]]
AllQueues(q) == q = [s \in Slaves |-> q[s]] /\ \A s \in Slaves : Both(q[s])

(* The steps that change the queues or the buffer of a slave.              *)
LEMMA SlaveSteps ==
  ASSUME [Next]_vars
  PROVE  \/ UNCHANGED <<queue, userData, enqueued>>
         \/ \E s \in Slaves, c \in Classes : Enqueue(s, c)
         \/ \E s \in Slaves, c \in Classes : GetClassData(s, c) /\ enqueued' = enqueued
         \/ \E s \in Slaves : ResetCUReceived(s) /\ UNCHANGED <<userData, enqueued>>
         \/ \E s \in Slaves : RestartSlave(s)
<1>1. CASE UNCHANGED vars \/ RunBroadcast \/ SendBroadcast \/ Lose
  BY <1>1 DEF vars, RunBroadcast, SendBroadcast, Lose, application, slave
<1>2. ASSUME NEW s \in Slaves, Handles(s) \/ Runs(s)
      PROVE  UNCHANGED <<queue, userData, enqueued>>
  BY <1>2, HandlesFrame, RunsFrame
<1>3. ASSUME NEW s \in Slaves, Answering(s)
      PROVE  \/ UNCHANGED <<queue, userData, enqueued>>
             \/ \E c \in Classes : GetClassData(s, c) /\ enqueued' = enqueued
             \/ ResetCUReceived(s) /\ UNCHANGED <<userData, enqueued>>
  <2>1. enqueued' = enqueued
    BY <1>3, AnsweringFrame
  <2>2. CASE ForeignAnswer(s) \/ HandleRequestLinkStatus(s) \/ HandleUserDataConfirmed(s)
             \/ HandleUserDataNoReply(s) \/ HandleTestFunction(s)
    BY <2>1, <2>2 DEF ForeignAnswer, HandleRequestLinkStatus, HandleUserDataConfirmed,
        HandleUserDataNoReply, HandleTestFunction, slave
  <2>3. CASE HandleResetRemoteLink(s)
    BY <2>1, <2>3 DEF HandleResetRemoteLink
  <2>4. ASSUME NEW c \in Classes, NEW fc, HandleRequestUserData(s, c, fc)
        PROVE  UNCHANGED <<queue, userData>> \/ GetClassData(s, c)
    BY <2>4 DEF HandleRequestUserData
  <2> QED
    BY <1>3, <2>1, <2>2, <2>3, <2>4 DEF Answering, SlaveRun, Classes
<1>4. ASSUME NEW s \in Slaves, User(s)
      PROVE  \/ UNCHANGED <<queue, userData, enqueued>>
             \/ \E c \in Classes : Enqueue(s, c)
  BY <1>4, UserFrame
<1> QED
  BY <1>1, <1>2, <1>3, <1>4, Steps

(* Every queue makes one of the steps of a queue.                          *)
LEMMA QueueSteps ==
  ASSUME BoundsOK, QueuesOK, [Next]_vars
  PROVE  AllQueues(queue') /\ \A s \in Slaves, c \in Classes : QueueStep(s, c)
<1>0. AllQueues(queue)
  BY DEF QueuesOK, AllQueues, Both
<1>1. CASE UNCHANGED <<queue, userData, enqueued>>
  BY <1>0, <1>1 DEF QueueStep, AllQueues
<1>2. ASSUME NEW s \in Slaves, NEW c \in Classes, Enqueue(s, c)
      PROVE  AllQueues(queue') /\ \A t \in Slaves, d \in Classes : QueueStep(t, d)
  <2>1. /\ enqueued' = [enqueued EXCEPT ![s] = [enqueued[s] EXCEPT ![c] = enqueued[s][c] + 1]]
        /\ queue' = [queue EXCEPT ![s] = [queue[s] EXCEPT ![c] =
              CS101_Queue_enqueue(queue[s][c], QueueSize, <<c, enqueued[s][c] + 1>>)]]
    BY <1>2 DEF Enqueue
  <2>2. enqueued \in [Slaves -> [Classes -> Nat]]
    BY DEF BoundsOK
  <2>3. enqueued'[s][c] = enqueued[s][c] + 1
        /\ \A t \in Slaves, d \in Classes : t # s \/ d # c => enqueued'[t][d] = enqueued[t][d]
    BY <2>1, <2>2
  <2>4. PICK v : v = CS101_Queue_enqueue(queue[s][c], QueueSize, <<c, enqueued[s][c] + 1>>)
    OBVIOUS
  <2>6. PICK f : f = [queue[s] EXCEPT ![c] = v]
    OBVIOUS
  <2>7. queue' = [queue EXCEPT ![s] = f] /\ queue = [t \in Slaves |-> queue[t]]
    BY <1>0, <2>1, <2>4, <2>6 DEF AllQueues
  <2>8. Both(f) /\ f[c] = v /\ \A d \in Classes : d # c => f[d] = queue[s][d]
    BY <1>0, <2>6 DEF AllQueues, Both
  <2>5. AllQueues(queue') /\ queue'[s][c] = v
        /\ \A t \in Slaves, d \in Classes : t # s \/ d # c => queue'[t][d] = queue[t][d]
    BY <1>0, <2>7, <2>8 DEF AllQueues
  <2> QED
    BY <2>3, <2>4, <2>5 DEF QueueStep
<1>3. ASSUME NEW s \in Slaves, NEW c \in Classes, GetClassData(s, c), enqueued' = enqueued
      PROVE  AllQueues(queue') /\ \A t \in Slaves, d \in Classes : QueueStep(t, d)
  <2>1. PICK v : v = CS101_Queue_dequeue(queue[s][c], QueueSize)
    OBVIOUS
  <2>4. PICK f : f = [queue[s] EXCEPT ![c] = v]
    OBVIOUS
  <2>2. queue' = [queue EXCEPT ![s] = f] /\ queue = [t \in Slaves |-> queue[t]]
    BY <1>0, <1>3, <2>1, <2>4 DEF GetClassData, AllQueues
  <2>5. Both(f) /\ f[c] = v /\ \A d \in Classes : d # c => f[d] = queue[s][d]
    BY <1>0, <2>4 DEF AllQueues, Both
  <2>3. AllQueues(queue') /\ queue'[s][c] = v
        /\ \A t \in Slaves, d \in Classes : t # s \/ d # c => queue'[t][d] = queue[t][d]
    BY <1>0, <2>2, <2>5 DEF AllQueues
  <2> QED
    BY <1>3, <2>1, <2>3 DEF QueueStep
<1>4. ASSUME NEW s \in Slaves, ResetCUReceived(s), UNCHANGED <<userData, enqueued>>
      PROVE  AllQueues(queue') /\ \A t \in Slaves, d \in Classes : QueueStep(t, d)
  <2>1. CASE queue' = queue
    BY <1>0, <1>4, <2>1 DEF QueueStep, AllQueues
  <2>2. CASE queue' # queue
    <3>1. PICK f : f = [d \in Classes |-> CS101_Queue_flush(queue[s][d])]
      OBVIOUS
    <3>2. Both(f) /\ \A d \in Classes : f[d] = CS101_Queue_flush(queue[s][d])
      BY <3>1 DEF Both
    <3>3. queue' = [queue EXCEPT ![s] = f]
      BY <1>4, <2>2, <3>1 DEF ResetCUReceived
    <3>4. AllQueues(queue') /\ (\A d \in Classes : queue'[s][d] = f[d])
          /\ \A t \in Slaves, d \in Classes : t # s => queue'[t][d] = queue[t][d]
      BY <1>0, <3>2, <3>3 DEF AllQueues
    <3> QED
      BY <1>4, <3>2, <3>4 DEF QueueStep
  <2> QED
    BY <2>1, <2>2
<1>5. ASSUME NEW s \in Slaves, RestartSlave(s)
      PROVE  AllQueues(queue') /\ \A t \in Slaves, d \in Classes : QueueStep(t, d)
  <2>1. Both(EmptyQueues)
    BY DEF EmptyQueues, Both
  <2>2. queue' = [queue EXCEPT ![s] = EmptyQueues] /\ enqueued' = enqueued
    BY <1>5 DEF RestartSlave, application
  <2>3. AllQueues(queue') /\ (\A d \in Classes : queue'[s][d] = EmptyQueues[d])
        /\ \A t \in Slaves, d \in Classes : t # s => queue'[t][d] = queue[t][d]
    BY <1>0, <2>1, <2>2 DEF AllQueues
  <2> QED
    BY <2>2, <2>3 DEF QueueStep
<1> QED
  BY <1>1, <1>2, <1>3, <1>4, <1>5, SlaveSteps

(* The queues go on to hold the newest ASDUs; those that have left them    *)
(* do not come back.                                                       *)
LEMMA QueuesHold ==
  ASSUME BoundsOK, QueuesOK, [Next]_vars, NEW s \in Slaves, NEW c \in Classes
  PROVE  /\ HoldsNewest(queue'[s][c], c, enqueued'[s][c])
         /\ Gone(s, c) \in Nat /\ Gone(s, c)' \in Nat /\ Gone(s, c) <= Gone(s, c)'
<1>0. c \in Int
  BY DEF Classes
<1>1. PICK q : q = queue[s][c]
  OBVIOUS
<1>2. PICK n \in Nat : n = enqueued[s][c]
  BY DEF BoundsOK
<1>3. HoldsNewest(q, c, n)
  BY <1>1, <1>2 DEF QueuesOK
<1>4. q.entryCounter \in Nat /\ q.entryCounter <= n
  BY <1>3 DEF HoldsNewest, Rings
<1>5. PICK q2 : q2 = queue'[s][c]
  OBVIOUS
<1>6. PICK n2 : n2 = enqueued'[s][c]
  OBVIOUS
<1>7. Gone(s, c) = n - q.entryCounter /\ Gone(s, c)' = n2 - q2.entryCounter
  BY <1>1, <1>2, <1>5, <1>6 DEF Gone
<1>8. n2 \in Nat /\ HoldsNewest(q2, c, n2) /\ n - q.entryCounter <= n2 - q2.entryCounter
  <2>1. CASE q2 = q /\ n2 = n
    BY <1>3, <1>4, <2>1
  <2>2. CASE q2 = CS101_Queue_enqueue(q, QueueSize, <<c, n + 1>>) /\ n2 = n + 1
    <3>1. /\ HoldsNewest(q2, c, n + 1)
          /\ n - q.entryCounter <= n + 1 - q2.entryCounter
      BY <1>0, <1>3, <2>2, EnqueueHolds
    <3>2. n2 \in Nat /\ n2 = n + 1
      BY <2>2
    <3>3. HoldsNewest(q2, c, n2)
      BY Zenon, <3>1, <3>2
    <3>4. q2.entryCounter \in Nat
      BY <3>3 DEF HoldsNewest, Rings
    <3> QED
      BY <1>4, <3>1, <3>2, <3>3, <3>4
  <2>3. CASE q2 = CS101_Queue_dequeue(q, QueueSize) /\ n2 = n
    <3>1. HoldsNewest(q2, c, n) /\ (q2 = q \/ q2.entryCounter = q.entryCounter - 1)
      BY <1>0, <1>3, <2>3, DequeueHolds
    <3> QED
      BY <1>4, <2>3, <3>1
  <2>4. CASE q2 = CS101_Queue_flush(q) /\ n2 = n
    <3>1. HoldsNewest(q2, c, n) /\ q2.entryCounter = 0
      BY <1>0, <1>3, <2>4, FlushHolds
    <3> QED
      BY <1>4, <2>4, <3>1
  <2>5. CASE q2 = EmptyQueues[c] /\ n2 = n
    <3>1. HoldsNewest(q2, c, n) /\ q2.entryCounter = 0
      BY <2>5, EmptyQueuesHold
    <3> QED
      BY <1>4, <2>5, <3>1
  <2> QED
    BY <1>1, <1>2, <1>5, <1>6, <2>1, <2>2, <2>3, <2>4, <2>5, QueueSteps DEF QueueStep
<1>9. q2.entryCounter \in Nat /\ q2.entryCounter <= n2
  BY <1>8 DEF HoldsNewest, Rings
<1> QED
  BY <1>2, <1>4, <1>5, <1>6, <1>7, <1>8, <1>9

(* The buffer of the link layer of a slave gets the oldest ASDU of a       *)
(* queue, nothing, or, when the slave starts anew, is not initialized.     *)
LEMMA BufferSteps ==
  ASSUME BoundsOK, QueuesOK, [Next]_vars, NEW s \in Slaves
  PROVE  \/ userData'[s] = userData[s]
         \/ userData'[s] \in {NoAsdu, Garbage}
         \/ \E c \in Classes :
              userData'[s] = <<c, Gone(s, c) + 1>> /\ Gone(s, c)' = Gone(s, c) + 1
<1>0. userData = [t \in Slaves |-> userData[t]] /\ AllQueues(queue)
  BY DEF QueuesOK, AllQueues, Both
<1>1. CASE userData' = userData
  BY <1>1
<1>2. ASSUME NEW t \in Slaves, NEW c \in Classes, GetClassData(t, c), enqueued' = enqueued
      PROVE  \/ userData'[s] = userData[s]
             \/ userData'[s] = NoAsdu
             \/ userData'[s] = <<c, Gone(s, c) + 1>> /\ Gone(s, c)' = Gone(s, c) + 1
  <2>1. CASE t # s
    BY <1>0, <1>2, <2>1 DEF GetClassData
  <2>2. CASE t = s /\ CS101_Queue_isEmpty(queue[s][c])
    BY <1>0, <1>2, <2>2 DEF GetClassData
  <2>3. CASE t = s /\ ~CS101_Queue_isEmpty(queue[s][c])
    <3>1. userData'[s] = CS101_Queue_first(queue[s][c])
      BY <1>0, <1>2, <2>3 DEF GetClassData
    <3>2. PICK n \in Nat : n = enqueued[s][c]
      BY DEF BoundsOK
    <3>3. HoldsNewest(queue[s][c], c, n) /\ c \in Int
      BY <3>2 DEF QueuesOK, Classes
    <3>4. queue[s][c].entryCounter \in Nat
      BY <3>3 DEF HoldsNewest, Rings
    <3>5. /\ CS101_Queue_first(queue[s][c]) = <<c, n - queue[s][c].entryCounter + 1>>
          /\ CS101_Queue_dequeue(queue[s][c], QueueSize).entryCounter
               = queue[s][c].entryCounter - 1
      BY <2>3, <3>3, DequeueHolds
    <3>6. PICK v : v = CS101_Queue_dequeue(queue[s][c], QueueSize)
      OBVIOUS
    <3>10. PICK f : f = [queue[s] EXCEPT ![c] = v]
      OBVIOUS
    <3>7. queue' = [queue EXCEPT ![s] = f] /\ queue = [u \in Slaves |-> queue[u]]
      BY <1>0, <1>2, <2>3, <3>6, <3>10 DEF GetClassData, AllQueues
    <3>11. f[c] = v
      BY <1>0, <3>10 DEF AllQueues, Both
    <3>8. queue'[s][c] = v
      BY <3>7, <3>11
    <3>9. Gone(s, c) = n - queue[s][c].entryCounter
          /\ Gone(s, c)' = n - (queue[s][c].entryCounter - 1)
      BY <1>2, <3>2, <3>5, <3>6, <3>8 DEF Gone
    <3> QED
      BY <3>1, <3>4, <3>5, <3>9
  <2> QED
    BY <2>1, <2>2, <2>3
<1>3. ASSUME NEW t \in Slaves, RestartSlave(t)
      PROVE  userData'[s] = userData[s] \/ userData'[s] = Garbage
  BY <1>0, <1>3 DEF RestartSlave
<1>4. ASSUME NEW t \in Slaves, NEW c \in Classes, Enqueue(t, c)
      PROVE  userData' = userData
  BY <1>4 DEF Enqueue
<1> QED
  BY <1>1, <1>2, <1>3, <1>4, SlaveSteps

(* QueuesOK is kept. *)
LEMMA QueuesKept ==
  ASSUME BoundsOK, QueuesOK, [Next]_vars
  PROVE  QueuesOK'
<1>1. AllQueues(queue')
  BY QueueSteps
<1>2. userData' = [s \in Slaves |-> userData'[s]]
  <2>1. userData = [s \in Slaves |-> userData[s]]
    BY DEF QueuesOK
  <2> QED
    BY <2>1, SlaveSteps DEF Enqueue, GetClassData, RestartSlave
<1>3. ASSUME NEW s \in Slaves
      PROVE  \/ userData'[s] \in {NoAsdu, Garbage}
             \/ \E c \in Classes : \E k \in 1..Gone(s, c)' : userData'[s] = <<c, k>>
  <2>1. \A c \in Classes : Gone(s, c) \in Nat /\ Gone(s, c)' \in Nat /\ Gone(s, c) <= Gone(s, c)'
    BY QueuesHold
  <2>2. CASE userData'[s] = userData[s]
    <3>1. \/ userData[s] \in {NoAsdu, Garbage}
          \/ \E c \in Classes : \E k \in 1..Gone(s, c) : userData[s] = <<c, k>>
      BY DEF QueuesOK
    <3>2. ASSUME NEW c \in Classes, NEW k \in 1..Gone(s, c)
          PROVE  k \in 1..Gone(s, c)'
      BY <2>1
    <3> QED
      BY <2>2, <3>1, <3>2
  <2>3. ASSUME NEW c \in Classes, userData'[s] = <<c, Gone(s, c) + 1>>,
               Gone(s, c)' = Gone(s, c) + 1
        PROVE  \E k \in 1..Gone(s, c)' : userData'[s] = <<c, k>>
    <3>1. Gone(s, c) + 1 \in 1..Gone(s, c)'
      BY <2>1, <2>3
    <3> QED
      BY <2>3, <3>1
  <2> QED
    BY <2>2, <2>3, BufferSteps
<1> QED
  BY <1>1, <1>2, <1>3, QueuesHold DEF QueuesOK, AllQueues, Both

-----------------------------------------------------------------------------
(* The line                                                                *)

(* The tail of a non-empty sequence: its type, its length and its          *)
(* elements.                                                               *)
LEMMA TailIndex ==
  ASSUME NEW T, NEW q \in Seq(T), q # <<>>
  PROVE  /\ Tail(q) \in Seq(T) /\ Len(Tail(q)) = Len(q) - 1 /\ Len(q) \in Nat \ {0}
         /\ \A i \in 1..Len(Tail(q)) : Tail(q)[i] = q[i + 1]
         /\ Head(q) = q[1] /\ Head(q) \in T
BY Z3

(* A sequence with one element appended: its type, its length and its      *)
(* elements.                                                               *)
LEMMA AppendIndex ==
  ASSUME NEW T, NEW q \in Seq(T), NEW x \in T
  PROVE  /\ Append(q, x) \in Seq(T) /\ Len(Append(q, x)) = Len(q) + 1 /\ Len(q) \in Nat
         /\ \A i \in 1..Len(q) : Append(q, x)[i] = q[i]
         /\ Append(q, x)[Len(q) + 1] = x
OBVIOUS

(* What a slave of this implementation answers to a request. *)
AnswerTo(request, fc) ==
  \/ request = "REQUEST_LINK_STATUS" /\ fc = "STATUS_OF_LINK"
  \/ request \in {"RESET_REMOTE_LINK", "USER_DATA_CONFIRMED"} /\ fc = "ACK"
  \/ /\ request \in {"REQUEST_USER_DATA_CLASS_1", "REQUEST_USER_DATA_CLASS_2"}
     /\ fc \in {"ACK", "RESP_USER_DATA", "RESP_NACK_NO_DATA"}
  \/ request = "TEST_FUNCTION_FOR_LINK" /\ fc = "SERVICE_NOT_IMPLEMENTED"

(* a is an answer of slave s to the first frame under way to it, that of a *)
(* foreign slave if the step counts as such.                               *)
Answered(s, a) ==
  /\ a \in Answers /\ a.from \in {NoSlave, s}
  /\ Head(down[s]).fc # "USER_DATA_NO_REPLY"
  /\ a.fc = "RESP_USER_DATA" => a.from = s /\ a.asdu = userData'[s] /\ a.asdu # NoAsdu
  /\ Fault("foreign") \/ (~a.dfc /\ AnswerTo(Head(down[s]).fc, a.fc))

(* The fields of an answer without data.                                   *)
LEMMA AnswerFields ==
  ASSUME NEW s \in 0..N, NEW fc \in AnswerCodes, NEW acd \in BOOLEAN
  PROVE  /\ Answer(s, fc, acd) \in Answers
         /\ Answer(s, fc, acd).from = s /\ Answer(s, fc, acd).fc = fc /\ ~Answer(s, fc, acd).dfc
BY DEF Answer, Answers, NoAsdu, Elements

(* The short answers are the ACK and the lack of data.                     *)
LEMMA ShortAnswers ==
  ASSUME NEW s \in Slaves, NEW acd \in BOOLEAN
  PROVE  /\ AckOrSingleChar(s, acd) \in Answers /\ AckOrSingleChar(s, acd).from \in {NoSlave, s}
         /\ AckOrSingleChar(s, acd).fc = "ACK" /\ ~AckOrSingleChar(s, acd).dfc
         /\ NoData(s, acd) \in Answers /\ NoData(s, acd).from \in {NoSlave, s}
         /\ NoData(s, acd).fc \in {"ACK", "RESP_NACK_NO_DATA"} /\ ~NoData(s, acd).dfc
<1>1. s \in 0..N /\ NoSlave \in 0..N /\ "ACK" \in AnswerCodes
      /\ "RESP_NACK_NO_DATA" \in AnswerCodes /\ FALSE \in BOOLEAN
  BY UnbalancedAssumption DEF Slaves, NoSlave, AnswerCodes
<1>2. PICK b \in {NoSlave, s}, d \in BOOLEAN : AckOrSingleChar(s, acd) = Answer(b, "ACK", d)
  BY <1>1 DEF AckOrSingleChar, SingleChar
<1>3. PICK b2 \in {NoSlave, s}, d2 \in BOOLEAN, fc \in {"ACK", "RESP_NACK_NO_DATA"} :
        NoData(s, acd) = Answer(b2, fc, d2)
  BY <1>1 DEF NoData, SingleChar
<1>4. /\ Answer(b, "ACK", d) \in Answers /\ Answer(b, "ACK", d).from = b
      /\ Answer(b, "ACK", d).fc = "ACK" /\ ~Answer(b, "ACK", d).dfc
  BY <1>1, AnswerFields
<1>5. /\ Answer(b2, fc, d2) \in Answers /\ Answer(b2, fc, d2).from = b2
      /\ Answer(b2, fc, d2).fc = fc /\ ~Answer(b2, fc, d2).dfc
  BY <1>1, AnswerFields
<1>6. /\ AckOrSingleChar(s, acd) \in Answers /\ AckOrSingleChar(s, acd).from \in {NoSlave, s}
      /\ AckOrSingleChar(s, acd).fc = "ACK" /\ ~AckOrSingleChar(s, acd).dfc
  BY <1>2, <1>4
<1>7. /\ NoData(s, acd) \in Answers /\ NoData(s, acd).from \in {NoSlave, s}
      /\ NoData(s, acd).fc \in {"ACK", "RESP_NACK_NO_DATA"} /\ ~NoData(s, acd).dfc
  BY <1>3, <1>5
<1> QED
  BY <1>6, <1>7

(* The buffer of a slave holds an ASDU of one of its classes, or none.     *)
LEMMA BufferType ==
  BoundsOK /\ QueuesOK =>
    \A s \in Slaves : /\ userData[s] \in AsdusOf(s) \cup {NoAsdu, Garbage}
                      /\ userData[s] \in Elements
<1> SUFFICES ASSUME BoundsOK, QueuesOK, NEW s \in Slaves
             PROVE  /\ userData[s] \in AsdusOf(s) \cup {NoAsdu, Garbage}
                    /\ userData[s] \in Elements
  OBVIOUS
<1>1. NoAsdu \in Elements /\ Garbage \in Elements
  BY DEF NoAsdu, Garbage, Elements
<1>2. ASSUME NEW c \in Classes, NEW k \in 1..Gone(s, c), userData[s] = <<c, k>>
      PROVE  userData[s] \in AsdusOf(s) /\ userData[s] \in Elements
  <2>1. /\ HoldsNewest(queue[s][c], c, enqueued[s][c])
        /\ enqueued[s][c] \in Nat /\ enqueued[s][c] <= scenario.asdus[s][c]
        /\ scenario.asdus[s][c] \in Nat
    BY DEF QueuesOK, BoundsOK, Scenario
  <2>2. queue[s][c].entryCounter \in Nat
    BY <2>1 DEF HoldsNewest, Rings
  <2>3. k \in 1..scenario.asdus[s][c]
    BY <2>1, <2>2 DEF Gone
  <2>4. userData[s] \in {c} \X (1..scenario.asdus[s][c])
    BY <1>2, <2>3
  <2> QED
    BY <1>2, <2>4 DEF AsdusOf, Elements, Classes
<1> QED
  BY <1>1, <1>2 DEF QueuesOK

(* A slave answers at most once.                                           *)
LEMMA AnswerSent ==
  ASSUME NEW s \in Slaves, Answering(s), userData'[s] \in Elements
  PROVE  up' = up \/ \E a : up' = Append(up, a) /\ Answered(s, a)
<1>0. s \in 0..N /\ \A q : IsClass1DataAvailable(q) \in BOOLEAN
  BY UnbalancedAssumption DEF Slaves, IsClass1DataAvailable
<1>1. CASE HandleRequestLinkStatus(s)
  <2> DEFINE a == Answer(s, "STATUS_OF_LINK", IsClass1DataAvailable(queue[s]))
  <2>1. a \in Answers /\ a.from = s /\ a.fc = "STATUS_OF_LINK" /\ ~a.dfc
    BY <1>0, AnswerFields DEF AnswerCodes
  <2>2. up' = Append(up, a) /\ Head(down[s]).fc = "REQUEST_LINK_STATUS"
    BY <1>1 DEF HandleRequestLinkStatus, TakeAndSend
  <2> HIDE DEF a
  <2> QED
    BY <2>1, <2>2 DEF Answered, AnswerTo
<1>2. CASE HandleResetRemoteLink(s)
  <2> DEFINE a == AckOrSingleChar(s, FALSE)
  <2>1. a \in Answers /\ a.from \in {NoSlave, s} /\ a.fc = "ACK" /\ ~a.dfc
    BY ShortAnswers
  <2>2. up' = Append(up, a) /\ Head(down[s]).fc = "RESET_REMOTE_LINK"
    BY <1>2 DEF HandleResetRemoteLink, TakeAndSend
  <2> HIDE DEF a
  <2> QED
    BY <2>1, <2>2 DEF Answered, AnswerTo
<1>3. ASSUME NEW c \in Classes,
             NEW fc \in {"REQUEST_USER_DATA_CLASS_1", "REQUEST_USER_DATA_CLASS_2"},
             HandleRequestUserData(s, c, fc)
      PROVE  up' = up \/ \E a : up' = Append(up, a) /\ Answered(s, a)
  <2>0. PICK acd \in BOOLEAN : acd = IsClass1DataAvailable(queue'[s])
    BY <1>0
  <2>1. Head(down[s]).fc = fc
    BY <1>3 DEF HandleRequestUserData
  <2>2. \/ userData'[s] # NoAsdu /\ up' = Append(up, Data(s, acd, userData'[s]))
        \/ up' = Append(up, NoData(s, acd))
        \/ up' = up
    BY <1>3, <2>0 DEF HandleRequestUserData
  <2>3. CASE userData'[s] # NoAsdu /\ up' = Append(up, Data(s, acd, userData'[s]))
    <3> DEFINE a == Data(s, acd, userData'[s])
    <3>2. a \in Answers /\ a.from = s /\ a.fc = "RESP_USER_DATA" /\ ~a.dfc /\ a.asdu = userData'[s]
      BY <1>0 DEF Data, Answers, AnswerCodes
    <3>3. up' = Append(up, a)
      BY <2>3
    <3> HIDE DEF a
    <3> QED
      BY <2>1, <2>3, <3>2, <3>3 DEF Answered, AnswerTo
  <2>4. CASE up' = Append(up, NoData(s, acd))
    <3> DEFINE a == NoData(s, acd)
    <3>1. a \in Answers /\ a.from \in {NoSlave, s} /\ a.fc \in {"ACK", "RESP_NACK_NO_DATA"}
          /\ ~a.dfc
      BY ShortAnswers
    <3>2. up' = Append(up, a)
      BY <2>4
    <3> HIDE DEF a
    <3> QED
      BY <2>1, <3>1, <3>2 DEF Answered, AnswerTo
  <2> QED
    BY <2>2, <2>3, <2>4
<1>4. CASE HandleUserDataConfirmed(s)
  <2> DEFINE a == AckOrSingleChar(s, IsClass1DataAvailable(queue[s]))
  <2>1. a \in Answers /\ a.from \in {NoSlave, s} /\ a.fc = "ACK" /\ ~a.dfc
    BY <1>0, ShortAnswers
  <2>2. up' = Append(up, a) /\ Head(down[s]).fc = "USER_DATA_CONFIRMED"
    BY <1>4 DEF HandleUserDataConfirmed, TakeAndSend
  <2> HIDE DEF a
  <2> QED
    BY <2>1, <2>2 DEF Answered, AnswerTo
<1>5. CASE HandleUserDataNoReply(s)
  BY <1>5 DEF HandleUserDataNoReply
<1>6. CASE HandleTestFunction(s)
  <2> DEFINE a == Answer(s, "SERVICE_NOT_IMPLEMENTED", FALSE)
  <2>1. a \in Answers /\ a.from = s /\ a.fc = "SERVICE_NOT_IMPLEMENTED" /\ ~a.dfc
    BY <1>0, AnswerFields DEF AnswerCodes
  <2>2. up' = Append(up, a) /\ Head(down[s]).fc = "TEST_FUNCTION_FOR_LINK"
    BY <1>6 DEF HandleTestFunction, TakeAndSend
  <2> HIDE DEF a
  <2> QED
    BY <2>1, <2>2 DEF Answered, AnswerTo
<1>7. CASE ForeignAnswer(s)
  <2>1. PICK a \in {Busy(s), Answer(s, "NACK", FALSE)} : up' = Append(up, a)
    BY <1>7 DEF ForeignAnswer
  <2>2. Fault("foreign") /\ Head(down[s]).fc # "USER_DATA_NO_REPLY"
    BY <1>7 DEF ForeignAnswer
  <2>3. Busy(s) \in Answers /\ Busy(s).from = s /\ Busy(s).fc = "ACK"
    BY <1>0 DEF Busy, Answers, AnswerCodes, NoAsdu, Elements
  <2>4. /\ Answer(s, "NACK", FALSE) \in Answers /\ Answer(s, "NACK", FALSE).from = s
        /\ Answer(s, "NACK", FALSE).fc = "NACK"
    BY <1>0, AnswerFields DEF AnswerCodes
  <2>5. a \in Answers /\ a.from = s /\ a.fc # "RESP_USER_DATA"
    BY <2>3, <2>4
  <2> QED
    BY <2>1, <2>2, <2>5 DEF Answered
<1> QED
  BY <1>1, <1>2, <1>3, <1>4, <1>5, <1>6, <1>7 DEF Answering, SlaveRun, Classes

(* The same of the next state.                                             *)
LEMMA NextBufferType ==
  ASSUME BoundsOK', QueuesOK'
  PROVE  \A s \in Slaves : /\ userData'[s] \in AsdusOf(s)' \cup {NoAsdu, Garbage}
                           /\ userData'[s] \in Elements
<1>1. (BoundsOK /\ QueuesOK =>
        \A s \in Slaves : /\ userData[s] \in AsdusOf(s) \cup {NoAsdu, Garbage}
                          /\ userData[s] \in Elements)'
  BY BufferType, PTL
<1> QED
  BY <1>1

(* What the state machine sends is the request that its new state stands   *)
(* for, unless it sends a test; a command is the one in the buffer.        *)
RequestSent(s, f) ==
  /\ f \in Frames /\ f.fc # "USER_DATA_NO_REPLY"
  /\ f.fc = "USER_DATA_CONFIRMED" => f.command = nextMessage[s] /\ nextMessage[s] # NoCommand
  /\ ~sendLinkLayerTestFunction[s] => Asks(primaryState'[s], f.fc)

(* The request that the master builds.                                     *)
LEMMA RequestFields ==
  ASSUME NEW fc \in Requests, NEW fcb \in BOOLEAN, NEW fcv \in BOOLEAN
  PROVE  Request(fc, fcb, fcv) \in Frames /\ Request(fc, fcb, fcv).fc = fc
BY DEF Request, Frames, NoCommand

(* The command that the master builds.                                     *)
LEMMA CommandFields ==
  ASSUME NEW fcb \in BOOLEAN, NEW c \in Int
  PROVE  /\ Command(fcb, c) \in Frames /\ Command(fcb, c).fc = "USER_DATA_CONFIRMED"
         /\ Command(fcb, c).command = c
BY DEF Command, Frames, Requests

(* The state machine of a slave's connection sends at most one frame.      *)
LEMMA RequestIsSent ==
  ASSUME PlainTypes, CommandInHand, BoundsOK, NEW s \in Slaves, Runs(s)
  PROVE  \/ down' = down
         \/ \E f : /\ down' = [down EXCEPT ![s] = Append(down[s], f)]
                   /\ RequestSent(s, f)
<1>a. nextFcb[s] \in BOOLEAN
  BY DEF PlainTypes
<1>b. nextMessage[s] \in Int
  BY DEF BoundsOK
<1>c. primaryState = [t \in Slaves |-> primaryState[t]]
  BY DEF PlainTypes
<1>d. (~nextFcb[s]) \in BOOLEAN /\ FALSE \in BOOLEAN /\ TRUE \in BOOLEAN
  OBVIOUS
<1>0. /\ nextFcb[s] \in BOOLEAN /\ (~nextFcb[s]) \in BOOLEAN /\ nextMessage[s] \in Int
      /\ primaryState = [t \in Slaves |-> primaryState[t]]
      /\ FALSE \in BOOLEAN /\ TRUE \in BOOLEAN
  BY <1>a, <1>b, <1>c, <1>d
<1> DEFINE Sends(f) == down' = [down EXCEPT ![s] = Append(down[s], f)]
<1>1. CASE RunIdle(s) \/ RunResetWithoutStatus(s)
  <2>1. PICK fc \in {"REQUEST_LINK_STATUS", "RESET_REMOTE_LINK"} :
          Sends(Request(fc, FALSE, FALSE)) /\ Asks(primaryState'[s], fc)
    BY <1>0, <1>1 DEF RunIdle, RunResetWithoutStatus, Send, SetPrimaryState, Asks
  <2> DEFINE f == Request(fc, FALSE, FALSE)
  <2>2. f \in Frames /\ f.fc = fc
    <3>1. fc \in Requests
      BY DEF Requests
    <3> QED
      BY <1>0, <3>1, RequestFields
  <2>3. Sends(f)
    BY <2>1
  <2> HIDE DEF f
  <2>4. RequestSent(s, f)
    BY <2>1, <2>2 DEF RequestSent
  <2> QED
    BY <2>3, <2>4
<1>2. CASE RunTimeoutOver(s) \/ RunTimeoutStatusOrReset(s) \/ RunAvailableWithoutAck(s)
           \/ RunGiveUpCommand(s) \/ RunGiveUpRequest(s) \/ RunNothing(s)
  BY <1>2 DEF RunTimeoutOver, RunTimeoutStatusOrReset, RunAvailableWithoutAck, RunGiveUpCommand,
      RunGiveUpRequest, RunNothing
<1>3. CASE RunSendTest(s) \/ RunRequestClass1(s) \/ RunRequestClass2(s)
  <2>1. PICK fc \in {"TEST_FUNCTION_FOR_LINK", "REQUEST_USER_DATA_CLASS_1",
                     "REQUEST_USER_DATA_CLASS_2"} :
          /\ Sends(Request(fc, nextFcb[s], TRUE))
          /\ fc = "TEST_FUNCTION_FOR_LINK" => sendLinkLayerTestFunction[s]
          /\ primaryState' = [primaryState EXCEPT ![s] = "REQUEST_RESPOND"]
    BY <1>3 DEF RunSendTest, RunRequestClass1, RunRequestClass2, NewExchange, Send, SetPrimaryState
  <2> DEFINE f == Request(fc, nextFcb[s], TRUE)
  <2>2. f \in Frames /\ f.fc = fc
    <3>1. fc \in Requests
      BY DEF Requests
    <3> QED
      BY <1>0, <3>1, RequestFields
  <2>3. Sends(f)
    BY <2>1
  <2> HIDE DEF f
  <2>4. primaryState'[s] = "REQUEST_RESPOND"
    BY <1>0, <2>1
  <2>5. RequestSent(s, f)
    BY <2>1, <2>2, <2>4 DEF RequestSent, Asks
  <2> QED
    BY <2>3, <2>5
<1>4. CASE RunSendCommand(s)
  <2> DEFINE f == Command(nextFcb[s], nextMessage[s])
  <2>1. /\ Sends(f) /\ nextMessage[s] # NoCommand
        /\ primaryState' = [primaryState EXCEPT ![s] = "SEND_CONFIRM"]
    BY <1>4 DEF RunSendCommand, NewExchange, Send, SetPrimaryState
  <2>2. f \in Frames /\ f.fc = "USER_DATA_CONFIRMED" /\ f.command = nextMessage[s]
    BY <1>0, CommandFields
  <2>3. primaryState'[s] = "SEND_CONFIRM"
    BY <1>0, <2>1
  <2> HIDE DEF f
  <2>4. RequestSent(s, f)
    BY <2>1, <2>2, <2>3 DEF RequestSent, Asks
  <2> QED
    BY <2>1, <2>4
<1>5. CASE RunRepeat(s)
  <2>1. /\ Sends(repetition(s)) /\ primaryState' = primaryState
        /\ primaryState[s] \in {"SEND_CONFIRM", "REQUEST_RESPOND"}
    BY <1>5 DEF RunRepeat, Send
  <2>2. CASE primaryState[s] = "SEND_CONFIRM" /\ sendLinkLayerTestFunction[s]
    <3> DEFINE f == Request("TEST_FUNCTION_FOR_LINK", ~nextFcb[s], TRUE)
    <3>1. f \in Frames /\ f.fc = "TEST_FUNCTION_FOR_LINK"
      BY <1>0, RequestFields DEF Requests
    <3>2. Sends(f)
      BY <2>1, <2>2 DEF repetition
    <3> HIDE DEF f
    <3> QED
      BY <2>2, <3>1, <3>2 DEF RequestSent
  <2>3. CASE primaryState[s] = "SEND_CONFIRM" /\ ~sendLinkLayerTestFunction[s]
    <3> DEFINE f == Command(~nextFcb[s], nextMessage[s])
    <3>1. f \in Frames /\ f.fc = "USER_DATA_CONFIRMED" /\ f.command = nextMessage[s]
      BY <1>0, CommandFields
    <3>2. Sends(f)
      BY <2>1, <2>3 DEF repetition
    <3>3. nextMessage[s] # NoCommand
      BY <2>3 DEF CommandInHand
    <3> HIDE DEF f
    <3> QED
      BY <2>1, <2>3, <3>1, <3>2, <3>3 DEF RequestSent, Asks
  <2>4. CASE primaryState[s] # "SEND_CONFIRM"
    <3>1. PICK fc \in {"REQUEST_USER_DATA_CLASS_1", "REQUEST_USER_DATA_CLASS_2"} :
            repetition(s) = Request(fc, ~nextFcb[s], TRUE)
      BY <2>4 DEF repetition
    <3> DEFINE f == Request(fc, ~nextFcb[s], TRUE)
    <3>2. f \in Frames /\ f.fc = fc
      BY <1>0, RequestFields DEF Requests
    <3>3. Sends(f)
      BY <2>1, <3>1
    <3> HIDE DEF f
    <3> QED
      BY <2>1, <2>4, <3>2, <3>3 DEF RequestSent, Asks
  <2> QED
    BY <2>2, <2>3, <2>4
<1> QED
  BY <1>1, <1>2, <1>3, <1>4, <1>5 DEF Runs

(* LineOK is kept.                                                         *)
LEMMA LineKept ==
  ASSUME PlainTypes, CommandInHand, BoundsOK, LineOK, BoundsOK', QueuesOK', [Next]_vars
  PROVE  LineOK'
<1>0. /\ down \in [Slaves -> Seq(Frames)] /\ up \in Seq(Answers)
      /\ \A s \in Slaves : down[s] \in Seq(Frames)
  BY DEF LineOK
<1>1. CASE UNCHANGED <<down, up>>
  BY <1>0, <1>1 DEF LineOK
<1>2. CASE UNCHANGED vars \/ SendBroadcast
  BY <1>1, <1>2 DEF vars, SendBroadcast
<1>3. CASE Lose
  <2>1. \/ \E s \in Slaves : down[s] # <<>> /\ down' = [down EXCEPT ![s] = Tail(down[s])] /\ up' = up
        \/ up # <<>> /\ up' = Tail(up) /\ down' = down
    BY <1>3 DEF Lose
  <2>2. ASSUME NEW s \in Slaves, down[s] # <<>>
        PROVE  Tail(down[s]) \in Seq(Frames)
    BY <1>0, <2>2, TailIndex
  <2>3. up # <<>> => Tail(up) \in Seq(Answers)
    BY <1>0, TailIndex
  <2> QED
    BY <1>0, <2>1, <2>2, <2>3 DEF LineOK
<1>4. CASE RunBroadcast
  <2>1. nextBroadcast \in Int
    BY DEF BoundsOK
  <2>2. Broadcast(nextBroadcast) \in Frames
    BY <2>1 DEF Broadcast, Frames
  <2>3. down' = [s \in Slaves |-> Append(down[s], Broadcast(nextBroadcast))] /\ up' = up
    BY <1>4 DEF RunBroadcast
  <2>4. \A s \in Slaves : Append(down[s], Broadcast(nextBroadcast)) \in Seq(Frames)
    BY <1>0, <2>2, AppendIndex
  <2> QED
    BY <1>0, <2>3, <2>4 DEF LineOK
<1>5. ASSUME NEW s \in Slaves, Handles(s)
      PROVE  LineOK'
  <2>1. up' \in Seq(Answers)
    <3>1. up # <<>> /\ up' = Tail(up)
      BY <1>5, HandlesFrame
    <3> QED
      BY <1>0, <3>1, TailIndex
  <2>2. PICK f : f = Request("RESET_REMOTE_LINK", FALSE, FALSE)
    OBVIOUS
  <2>3. f \in Frames
    BY <2>2 DEF Request, Frames, Requests, NoCommand
  <2>4. down' = down \/ down' = [down EXCEPT ![s] = Append(down[s], f)]
    BY <1>5, <2>2 DEF Handles, HandleDFC, HandleAck, HandleOtherAck, HandleNack,
        HandleStatusOfLink, HandleUserData, HandleNoData, HandleUnexpectedData,
        HandleServiceNotImplemented
  <2>5. Append(down[s], f) \in Seq(Frames)
    BY <1>0, <2>3, AppendIndex
  <2> QED
    BY <1>0, <2>1, <2>4, <2>5 DEF LineOK
<1>6. ASSUME NEW s \in Slaves, Runs(s)
      PROVE  LineOK'
  <2>1. up' = up
    BY <1>6, RunsFrame
  <2>2. ASSUME NEW f, down' = [down EXCEPT ![s] = Append(down[s], f)], RequestSent(s, f)
        PROVE  down' \in [Slaves -> Seq(Frames)]
    BY <1>0, <2>2, AppendIndex DEF RequestSent
  <2> QED
    BY <1>0, <1>6, <2>1, <2>2, RequestIsSent DEF LineOK
<1>7. ASSUME NEW s \in Slaves, Answering(s)
      PROVE  LineOK'
  <2>1. down[s] # <<>> /\ down' = [down EXCEPT ![s] = Tail(down[s])]
    BY <1>7, AnsweringFrame DEF Take
  <2>2. Tail(down[s]) \in Seq(Frames)
    BY <1>0, <2>1, TailIndex
  <2>3. down' \in [Slaves -> Seq(Frames)]
    BY <1>0, <2>1, <2>2
  <2>4. ASSUME NEW a, up' = Append(up, a), Answered(s, a)
        PROVE  up' \in Seq(Answers)
    BY <1>0, <2>4, AppendIndex DEF Answered
  <2> QED
    BY <1>0, <1>7, <2>3, <2>4, AnswerSent, NextBufferType DEF LineOK
<1>8. ASSUME NEW s \in Slaves, RestartSlave(s) \/ User(s)
      PROVE  LineOK'
  BY <1>1, <1>8, UserFrame DEF RestartSlave
<1> QED
  BY <1>2, <1>3, <1>4, <1>5, <1>6, <1>7, <1>8, Steps

-----------------------------------------------------------------------------
(* The variables with one plain value per slave                            *)

(* They keep their types when the master handles an answer. *)
LEMMA HandlesTypes ==
  ASSUME PlainTypes, LineOK, NEW s \in Slaves, Handles(s)
  PROVE  PlainTypes'
<1> USE DEF Handles, HandleDFC, HandleAck, HandleOtherAck, HandleNack, HandleStatusOfLink,
        HandleUserData, HandleNoData, HandleUnexpectedData, HandleServiceNotImplemented,
        Available, Illegal, SetPrimaryState, SetState, Waits
<1>0. up # <<>> /\ up[1].acd \in BOOLEAN /\ Head(up) = up[1]
  <2>1. up # <<>> /\ up \in Seq(Answers)
    BY HandlesFrame DEF LineOK
  <2>2. Head(up) \in Answers /\ Head(up) = up[1]
    BY <2>1, TailIndex
  <2> QED
    BY <2>1, <2>2 DEF Answers
<1>1. state' \in [Slaves -> States]
  BY DEF PlainTypes, States
<1>2. primaryState' \in [Slaves -> PrimaryStates]
  <2>1. \/ primaryState' = primaryState
        \/ \E p \in {"LINK_LAYERS_AVAILABLE", "IDLE", "REQUEST_STATUS", "BUSY", "RESET_REMOTE_LINK"} :
             primaryState' = [primaryState EXCEPT ![s] = p]
        \/ primaryState' = [primaryState EXCEPT ![s] = primaryState[s]]
    OBVIOUS
  <2>2. PICK p \in PrimaryStates :
          primaryState' = primaryState \/ primaryState' = [primaryState EXCEPT ![s] = p]
    <3>1. primaryState[s] \in PrimaryStates
      BY DEF PlainTypes
    <3> QED
      BY <2>1, <3>1 DEF PrimaryStates
  <2> QED
    BY <2>2 DEF PlainTypes
<1>3. waitingForResponse' \in [Slaves -> BOOLEAN]
  BY DEF PlainTypes
<1>4. requestClass1Data' \in [Slaves -> BOOLEAN]
  <2>1. PICK b \in BOOLEAN : b = Head(up).acd
    BY <1>0
  <2>2. \/ requestClass1Data' = requestClass1Data
        \/ requestClass1Data' = [requestClass1Data EXCEPT ![s] = requestClass1Data[s] \/ b]
        \/ requestClass1Data' = [requestClass1Data EXCEPT ![s] = b]
    BY <2>1 DEF AccessDemand
  <2>3. requestClass1Data \in [Slaves -> BOOLEAN] /\ (requestClass1Data[s] \/ b) \in BOOLEAN
    BY DEF PlainTypes
  <2> QED
    BY <2>2, <2>3
<1>5. requestClass2Data' \in [Slaves -> BOOLEAN]
  BY DEF PlainTypes
<1>6. sendLinkLayerTestFunction' \in [Slaves -> BOOLEAN]
  <2>1. \/ sendLinkLayerTestFunction' = sendLinkLayerTestFunction
        \/ sendLinkLayerTestFunction' = [sendLinkLayerTestFunction EXCEPT ![s] = FALSE]
    BY HandlesFrame
  <2>2. FALSE \in BOOLEAN
    OBVIOUS
  <2> QED
    BY <2>1, <2>2 DEF PlainTypes
<1>7. UNCHANGED <<nextFcb, expectedFcb, repeats, currentSlave, currentSlaveIndex>>
  BY HandlesFrame
<1> QED
  BY <1>1, <1>2, <1>3, <1>4, <1>5, <1>6, <1>7 DEF PlainTypes

(* They keep their types when the state machine runs. *)
LEMMA RunsTypes ==
  ASSUME PlainTypes, NEW s \in Slaves, Runs(s)
  PROVE  PlainTypes'
<1> USE DEF Runs, RunIdle, RunTimeoutOver, RunTimeoutStatusOrReset, RunResetWithoutStatus,
        RunAvailableWithoutAck, RunSendTest, RunSendCommand, RunRequestClass1, RunRequestClass2,
        NewExchange, RunRepeat, RunGiveUpCommand, RunGiveUpRequest, RunNothing, primary,
        Available, Illegal, SetPrimaryState, SetState, Waits
<1>1. state' \in [Slaves -> States]
  BY DEF PlainTypes, States
<1>2. primaryState' \in [Slaves -> PrimaryStates]
  <2>1. \/ primaryState' = primaryState
        \/ \E p \in PrimaryStates : primaryState' = [primaryState EXCEPT ![s] = p]
    BY DEF PrimaryStates
  <2> QED
    BY <2>1 DEF PlainTypes
<1>3. waitingForResponse' \in [Slaves -> BOOLEAN]
  BY DEF PlainTypes
<1>4. requestClass1Data' \in [Slaves -> BOOLEAN] /\ requestClass2Data' \in [Slaves -> BOOLEAN]
  BY DEF PlainTypes
<1>5. sendLinkLayerTestFunction' \in [Slaves -> BOOLEAN]
  BY DEF PlainTypes
<1>6. nextFcb' \in [Slaves -> BOOLEAN]
  BY DEF PlainTypes
<1>7. repeats' \in [Slaves -> 0..Repeats]
  <2>0. repeats \in [Slaves -> 0..Repeats] /\ repeats[s] \in 0..Repeats /\ Repeats \in Nat
    BY UnbalancedAssumption DEF PlainTypes
  <2>1. \/ repeats' = repeats \/ repeats' = [repeats EXCEPT ![s] = 0]
        \/ repeats[s] < Repeats /\ repeats' = [repeats EXCEPT ![s] = repeats[s] + 1]
    OBVIOUS
  <2>2. 0 \in 0..Repeats /\ (repeats[s] < Repeats => repeats[s] + 1 \in 0..Repeats)
    BY <2>0
  <2> QED
    BY <2>0, <2>1, <2>2
<1>8. currentSlave' \in 0..N /\ currentSlaveIndex' \in Slaves
  <2>1. Turn(s)
    OBVIOUS
  <2>2. \/ currentSlaveIndex' = currentSlaveIndex
        \/ currentSlaveIndex' = (currentSlaveIndex % N) + 1
    BY <2>1 DEF Turn
  <2>3. N \in Nat \ {0} /\ currentSlaveIndex \in 1..N /\ s \in 1..N
    BY UnbalancedAssumption DEF PlainTypes, Slaves
  <2>4. (currentSlaveIndex % N) + 1 \in 1..N
    BY <2>3
  <2> QED
    BY <2>1, <2>2, <2>3, <2>4 DEF Turn, Slaves
<1>9. expectedFcb' = expectedFcb
  BY RunsFrame
<1> QED
  BY <1>1, <1>2, <1>3, <1>4, <1>5, <1>6, <1>7, <1>8, <1>9 DEF PlainTypes

(* A slave toggles the frame count bit it expects, or expects TRUE.        *)
LEMMA ExpectedType ==
  ASSUME PlainTypes, NEW s \in Slaves, Answering(s)
  PROVE  expectedFcb' \in [Slaves -> BOOLEAN]
<1>1. \/ expectedFcb' = expectedFcb \/ expectedFcb' = [expectedFcb EXCEPT ![s] = TRUE]
      \/ checkFCB(s, Head(down[s]))
  BY DEF Answering, SlaveRun, ForeignAnswer, HandleRequestLinkStatus, HandleResetRemoteLink,
      HandleRequestUserData, HandleUserDataConfirmed, HandleUserDataNoReply, HandleTestFunction,
      slave
<1>2. \/ expectedFcb' = expectedFcb \/ expectedFcb' = [expectedFcb EXCEPT ![s] = TRUE]
      \/ expectedFcb' = [expectedFcb EXCEPT ![s] = expectedFcb[s]]
      \/ expectedFcb' = [expectedFcb EXCEPT ![s] = ~expectedFcb[s]]
  BY <1>1 DEF checkFCB
<1>3. expectedFcb \in [Slaves -> BOOLEAN]
  BY DEF PlainTypes
<1> QED
  BY <1>2, <1>3

(* They keep their types.                                                  *)
LEMMA PlainTypesKept ==
  ASSUME PlainTypes, LineOK, [Next]_vars
  PROVE  PlainTypes'
<1>1. CASE UNCHANGED vars \/ RunBroadcast \/ SendBroadcast \/ Lose
  <2>1. UNCHANGED <<primary, currentSlave, currentSlaveIndex, expectedFcb>>
    BY <1>1 DEF vars, RunBroadcast, SendBroadcast, Lose, master, slave
  <2> QED
    BY <2>1 DEF PlainTypes, primary
<1>2. ASSUME NEW s \in Slaves, Answering(s)
      PROVE  PlainTypes'
  <2>1. expectedFcb' \in [Slaves -> BOOLEAN]
    BY <1>2, ExpectedType
  <2> QED
    BY <1>2, <2>1, AnsweringFrame DEF PlainTypes
<1>3. ASSUME NEW s \in Slaves, RestartSlave(s)
      PROVE  PlainTypes'
  BY <1>3 DEF RestartSlave, PlainTypes, primary, master
<1>4. ASSUME NEW s \in Slaves, User(s)
      PROVE  PlainTypes'
  <2>1. /\ requestClass1Data' \in [Slaves -> BOOLEAN] /\ requestClass2Data' \in [Slaves -> BOOLEAN]
        /\ sendLinkLayerTestFunction' \in [Slaves -> BOOLEAN]
    BY <1>4 DEF User, Poll, PollClass1, SendASDU, sendTest, Enqueue, PlainTypes, primary
  <2> QED
    BY <1>4, <2>1, UserFrame DEF PlainTypes
<1> QED
  BY <1>1, <1>2, <1>3, <1>4, HandlesTypes, RunsTypes, Steps

(* CommandInHand is kept.                                                  *)
LEMMA CommandInHandKept ==
  ASSUME PlainTypes, BoundsOK, CommandInHand, [Next]_vars
  PROVE  CommandInHand'
<1>0. /\ primaryState = [t \in Slaves |-> primaryState[t]]
      /\ nextMessage \in [Slaves -> Nat] /\ submitted \in [Slaves -> Nat]
      /\ \A t \in Slaves : primaryState[t] = "SEND_CONFIRM" => nextMessage[t] # NoCommand
  BY DEF PlainTypes, BoundsOK, CommandInHand
<1>1. CASE UNCHANGED <<primaryState, nextMessage>>
  BY <1>0, <1>1 DEF CommandInHand
<1>2. CASE UNCHANGED vars \/ RunBroadcast \/ SendBroadcast \/ Lose
  BY <1>1, <1>2 DEF vars, RunBroadcast, SendBroadcast, Lose, primary
<1>3. ASSUME NEW s \in Slaves, Handles(s)
      PROVE  CommandInHand'
  <2>1. /\ \/ nextMessage' = nextMessage
           \/ /\ nextMessage' = [nextMessage EXCEPT ![s] = NoCommand]
              /\ primaryState' = [primaryState EXCEPT ![s] = "LINK_LAYERS_AVAILABLE"]
        /\ \/ primaryState' = primaryState
           \/ \E p \in {"LINK_LAYERS_AVAILABLE", "IDLE", "REQUEST_STATUS", "BUSY",
                        "RESET_REMOTE_LINK"} :
                primaryState' = [primaryState EXCEPT ![s] = p]
           \/ primaryState' = [primaryState EXCEPT ![s] = primaryState[s]]
    BY <1>3 DEF Handles, HandleDFC, HandleAck, HandleOtherAck, HandleNack, HandleStatusOfLink,
        HandleUserData, HandleNoData, HandleUnexpectedData, HandleServiceNotImplemented,
        Available, Illegal, SetPrimaryState
  <2> QED
    BY <1>0, <2>1 DEF CommandInHand
<1>4. ASSUME NEW s \in Slaves, Runs(s)
      PROVE  CommandInHand'
  <2>1. nextMessage' = nextMessage
    BY <1>4, RunsFrame
  <2>2. \/ primaryState' = primaryState
        \/ \E p \in {"LINK_LAYERS_AVAILABLE", "IDLE", "REQUEST_STATUS", "TIMEOUT",
                     "RESET_REMOTE_LINK", "REQUEST_RESPOND"} :
             primaryState' = [primaryState EXCEPT ![s] = p]
        \/ /\ primaryState' = [primaryState EXCEPT ![s] = "SEND_CONFIRM"]
           /\ nextMessage[s] # NoCommand
    BY <1>4 DEF Runs, RunIdle, RunTimeoutOver, RunTimeoutStatusOrReset, RunResetWithoutStatus,
        RunAvailableWithoutAck, RunSendTest, RunSendCommand, RunRequestClass1, RunRequestClass2,
        NewExchange, RunRepeat, RunGiveUpCommand, RunGiveUpRequest, RunNothing, primary,
        Available, Illegal, SetPrimaryState
  <2> QED
    BY <1>0, <2>1, <2>2 DEF CommandInHand
<1>5. ASSUME NEW s \in Slaves, Answering(s)
      PROVE  CommandInHand'
  BY <1>1, <1>5, AnsweringFrame
<1>6. ASSUME NEW s \in Slaves, RestartSlave(s)
      PROVE  CommandInHand'
  BY <1>1, <1>6 DEF RestartSlave, primary
<1>7. ASSUME NEW s \in Slaves, User(s)
      PROVE  CommandInHand'
  <2>1. primaryState' = primaryState
    BY <1>7, UserFrame
  <2>2. CASE SendASDU(s)
    <3>1. submitted' = [submitted EXCEPT ![s] = submitted[s] + 1]
          /\ (nextMessage' = nextMessage \/ nextMessage' = [nextMessage EXCEPT ![s] = submitted'[s]])
      BY <2>2 DEF SendASDU
    <3>2. submitted'[s] # NoCommand
      BY <1>0, <3>1 DEF NoCommand
    <3> QED
      BY <1>0, <2>1, <3>1, <3>2 DEF CommandInHand
  <2> QED
    BY <1>1, <1>7, <2>1, <2>2, UserFrame
<1> QED
  BY <1>2, <1>3, <1>4, <1>5, <1>6, <1>7, Steps


-----------------------------------------------------------------------------
(* The turn: one exchange at a time                                        *)

(* While the master is in step, no late answer, test or refusal happens.   *)
LEMMA InStep ==
  ASSUME BoundsOK, [Next]_vars, ~OutOfStep'
  PROVE  ~OutOfStep /\ ~Fault("late") /\ ~Fault("test") /\ ~Fault("foreign")
<1>1. /\ faults \in [Faults -> Nat] /\ faults' \in [Faults -> Nat]
      /\ \A k \in Faults : faults'[k] >= faults[k]
  BY FaultSteps DEF BoundsOK
<1>2. /\ faults["late"] \in Nat /\ faults["test"] \in Nat /\ faults["foreign"] \in Nat
      /\ faults'["late"] \in Nat /\ faults'["test"] \in Nat /\ faults'["foreign"] \in Nat
      /\ faults'["late"] >= faults["late"] /\ faults'["test"] >= faults["test"]
      /\ faults'["foreign"] >= faults["foreign"]
  BY <1>1 DEF Faults
<1>3. faults'["late"] = 0 /\ faults'["test"] = 0 /\ faults'["foreign"] = 0
  BY <1>2 DEF OutOfStep
<1>4. ~OutOfStep
  BY <1>2, <1>3 DEF OutOfStep
<1>5. ASSUME NEW k \in {"late", "test", "foreign"}, Fault(k)
      PROVE  FALSE
  <2>1. faults'[k] = faults[k] + 1
    BY <1>1, <1>5 DEF Fault, Faults
  <2> QED
    BY <1>2, <1>3, <1>5, <2>1
<1> QED
  BY <1>4, <1>5

(* BroadcastsOK is kept: only a broadcast that the master was given goes   *)
(* to all.                                                                 *)
LEMMA BroadcastsKept ==
  ASSUME PlainTypes, CommandInHand, BoundsOK, LineOK, BroadcastsOK, [Next]_vars
  PROVE  BroadcastsOK'
<1> SUFFICES ASSUME broadcasts' = 0, NEW t \in Slaves
             PROVE  \A i \in 1..Len(down'[t]) : down'[t][i].fc # "USER_DATA_NO_REPLY"
  BY DEF BroadcastsOK, ForAll
<1>1. broadcasts = 0 /\ nextBroadcast = NoCommand
  BY BroadcastSteps DEF BoundsOK, NoCommand
<1>2. /\ \A i \in 1..Len(down[t]) : down[t][i].fc # "USER_DATA_NO_REPLY"
      /\ down[t] \in Seq(Frames) /\ down \in [Slaves -> Seq(Frames)]
  BY <1>1 DEF BroadcastsOK, ForAll, LineOK
<1>3. CASE down' = down
  BY <1>2, <1>3
<1>4. ASSUME NEW s \in Slaves, down[s] # <<>>, down' = [down EXCEPT ![s] = Tail(down[s])]
      PROVE  \A i \in 1..Len(down'[t]) : down'[t][i].fc # "USER_DATA_NO_REPLY"
  <2>1. CASE s = t
    <3>1. down'[t] = Tail(down[t]) /\ down[t] # <<>>
      BY <1>2, <1>4, <2>1
    <3>2. /\ Len(Tail(down[t])) = Len(down[t]) - 1 /\ Len(down[t]) \in Nat \ {0}
          /\ \A i \in 1..Len(Tail(down[t])) : Tail(down[t])[i] = down[t][i + 1]
      BY <1>2, <3>1, TailIndex
    <3> QED
      BY <1>2, <3>1, <3>2
  <2>2. CASE s # t
    BY <1>2, <1>4, <2>2
  <2> QED
    BY <2>1, <2>2
<1>5. ASSUME NEW s \in Slaves, NEW f, f \in Frames, f.fc # "USER_DATA_NO_REPLY",
             down' = [down EXCEPT ![s] = Append(down[s], f)]
      PROVE  \A i \in 1..Len(down'[t]) : down'[t][i].fc # "USER_DATA_NO_REPLY"
  <2>1. CASE s = t
    <3>1. down'[t] = Append(down[t], f)
      BY <1>2, <1>5, <2>1
    <3>2. /\ Len(Append(down[t], f)) = Len(down[t]) + 1 /\ Len(down[t]) \in Nat
          /\ \A i \in 1..Len(down[t]) : Append(down[t], f)[i] = down[t][i]
          /\ Append(down[t], f)[Len(down[t]) + 1] = f
      BY <1>2, <1>5, AppendIndex
    <3> QED
      BY <1>2, <1>5, <3>1, <3>2
  <2>2. CASE s # t
    BY <1>2, <1>5, <2>2
  <2> QED
    BY <2>1, <2>2
<1>6. CASE UNCHANGED vars \/ SendBroadcast \/ Lose
  <2>1. down' = down \/ \E s \in Slaves : down[s] # <<>> /\ down' = [down EXCEPT ![s] = Tail(down[s])]
    BY <1>6 DEF vars, SendBroadcast, Lose
  <2> QED
    BY <1>3, <1>4, <2>1
<1>7. CASE RunBroadcast
  BY <1>1, <1>7 DEF RunBroadcast
<1>8. ASSUME NEW s \in Slaves, Handles(s)
      PROVE  \A i \in 1..Len(down'[t]) : down'[t][i].fc # "USER_DATA_NO_REPLY"
  <2>1. PICK f : f = Request("RESET_REMOTE_LINK", FALSE, FALSE)
    OBVIOUS
  <2>2. f \in Frames /\ f.fc # "USER_DATA_NO_REPLY"
    BY <2>1 DEF Request, Frames, Requests, NoCommand
  <2>3. down' = down \/ down' = [down EXCEPT ![s] = Append(down[s], f)]
    BY <1>8, <2>1 DEF Handles, HandleDFC, HandleAck, HandleOtherAck, HandleNack,
        HandleStatusOfLink, HandleUserData, HandleNoData, HandleUnexpectedData,
        HandleServiceNotImplemented
  <2> QED
    BY <1>3, <1>5, <2>2, <2>3
<1>9. ASSUME NEW s \in Slaves, Runs(s)
      PROVE  \A i \in 1..Len(down'[t]) : down'[t][i].fc # "USER_DATA_NO_REPLY"
  BY <1>3, <1>5, <1>9, RequestIsSent DEF RequestSent
<1>10. ASSUME NEW s \in Slaves, Answering(s)
       PROVE  \A i \in 1..Len(down'[t]) : down'[t][i].fc # "USER_DATA_NO_REPLY"
  BY <1>4, <1>10, AnsweringFrame DEF Take
<1>11. ASSUME NEW s \in Slaves, RestartSlave(s) \/ User(s)
       PROVE  down' = down
  BY <1>11, UserFrame DEF RestartSlave
<1> QED
  BY <1>3, <1>6, <1>7, <1>8, <1>9, <1>10, <1>11, Steps

(* Nothing that asks for an answer is under way.                           *)
NoRequest == \A s \in Slaves : \A i \in 1..Len(down[s]) : down[s][i].fc = "USER_DATA_NO_REPLY"

(* RequestFits, without ForAll.                                            *)
LEMMA RequestFitsAlone ==
  RequestFits <=>
    \A s \in Slaves : \A i \in 1..Len(down[s]) : down[s][i].fc # "USER_DATA_NO_REPLY" =>
      /\ waitingForResponse[s] /\ Asks(primaryState[s], down[s][i].fc)
      /\ up = <<>>
      /\ \A j \in 1..Len(down[s]) : j # i => down[s][j].fc = "USER_DATA_NO_REPLY"
BY DEF RequestFits, ForAll

(* When the master asks nothing, nothing but broadcasts is under way.      *)
LEMMA QuietUnlessAsking ==
  ASSUME WaitsInTurn, RequestFits, AnswerFits, NEW s,
         \A t \in Slaves : waitingForResponse[t] => t = s,
         s \in Slaves => (primaryState[s] \notin Asking \/ ~waitingForResponse[s])
  PROVE  NoRequest /\ up = <<>>
<1>1. \A t \in Slaves : waitingForResponse[t] => primaryState[t] \notin Asking
  OBVIOUS
<1>2. ASSUME NEW t \in Slaves, NEW i \in 1..Len(down[t]), down[t][i].fc # "USER_DATA_NO_REPLY"
      PROVE  FALSE
  <2>1. waitingForResponse[t] /\ Asks(primaryState[t], down[t][i].fc)
    BY <1>2, RequestFitsAlone
  <2> QED
    BY <1>1, <2>1 DEF Asks, Asking
<1>3. ASSUME up # <<>>
      PROVE  FALSE
  <2>1. /\ currentSlave \in Slaves /\ waitingForResponse[currentSlave]
        /\ Ends(primaryState[currentSlave], up[1].fc)
    BY <1>3 DEF AnswerFits
  <2> QED
    BY <1>1, <2>1 DEF Ends, Asking
<1> QED
  BY <1>2, <1>3 DEF NoRequest

(* What is sent on a quiet line fits the new state, if it is the request   *)
(* that this stands for.                                                   *)
LEMMA SentFits ==
  ASSUME LineOK, NoRequest, up' = <<>>, NEW s \in Slaves,
         \/ down' = down
         \/ \E f : /\ down' = [down EXCEPT ![s] = Append(down[s], f)] /\ f \in Frames
                   /\ waitingForResponse'[s] /\ Asks(primaryState'[s], f.fc)
  PROVE  RequestFits' /\ AnswerFits'
<1>0. down \in [Slaves -> Seq(Frames)]
      /\ \A t \in Slaves : \A i \in 1..Len(down[t]) : down[t][i].fc = "USER_DATA_NO_REPLY"
  BY DEF LineOK, NoRequest
<1>1. AnswerFits'
  BY DEF AnswerFits
<1>2. ASSUME NEW t \in Slaves, NEW i \in 1..Len(down'[t]),
             down'[t][i].fc # "USER_DATA_NO_REPLY"
      PROVE  /\ waitingForResponse'[t] /\ Asks(primaryState'[t], down'[t][i].fc)
             /\ \A j \in 1..Len(down'[t]) : j # i => down'[t][j].fc = "USER_DATA_NO_REPLY"
  <2>1. PICK f : /\ down' = [down EXCEPT ![s] = Append(down[s], f)] /\ f \in Frames
                 /\ waitingForResponse'[s] /\ Asks(primaryState'[s], f.fc)
    BY <1>0, <1>2
  <2>2. t = s /\ down'[t] = Append(down[t], f) /\ down[t] \in Seq(Frames)
    BY <1>0, <1>2, <2>1
  <2>3. /\ Len(Append(down[t], f)) = Len(down[t]) + 1 /\ Len(down[t]) \in Nat
        /\ \A j \in 1..Len(down[t]) : Append(down[t], f)[j] = down[t][j]
        /\ Append(down[t], f)[Len(down[t]) + 1] = f
    BY <2>1, <2>2, AppendIndex
  <2>4. i = Len(down[t]) + 1
    BY <1>0, <1>2, <2>2, <2>3
  <2>5. ASSUME NEW j \in 1..Len(down'[t]), j # i
        PROVE  down'[t][j].fc = "USER_DATA_NO_REPLY"
    <3>1. j \in 1..Len(down[t])
      BY <2>2, <2>3, <2>4, <2>5
    <3> QED
      BY <1>0, <2>2, <2>3, <3>1
  <2> QED
    BY <2>1, <2>2, <2>3, <2>4, <2>5
<1>3. RequestFits' <=>
        \A t \in Slaves : \A i \in 1..Len(down'[t]) : down'[t][i].fc # "USER_DATA_NO_REPLY" =>
          /\ waitingForResponse'[t] /\ Asks(primaryState'[t], down'[t][i].fc)
          /\ up' = <<>>
          /\ \A j \in 1..Len(down'[t]) : j # i => down'[t][j].fc = "USER_DATA_NO_REPLY"
  BY DEF RequestFits, ForAll
<1> QED
  BY <1>1, <1>2, <1>3

(* The master handles the answer it waits for: the exchange ends, or the   *)
(* reset follows.                                                          *)
LEMMA HandlesKeepTurn ==
  ASSUME PlainTypes, LineOK, WaitsInTurn, RequestFits, AnswerFits, NEW s \in Slaves, Handles(s)
  PROVE  WaitsInTurn' /\ RequestFits' /\ AnswerFits'
<1>1. /\ up # <<>> /\ up' = Tail(up) /\ s = answering /\ currentSlave' = currentSlave
      /\ \/ sendLinkLayerTestFunction' = sendLinkLayerTestFunction
         \/ sendLinkLayerTestFunction' = [sendLinkLayerTestFunction EXCEPT ![s] = FALSE]
  BY HandlesFrame
<1>2. /\ Head(up) = up[1] /\ up' = <<>>
  <2>1. up \in Seq(Answers) /\ Len(up) <= 1
    BY DEF LineOK, AnswerFits
  <2>2. Tail(up) \in Seq(Answers) /\ Len(Tail(up)) = Len(up) - 1 /\ Len(up) \in Nat \ {0}
        /\ Head(up) = up[1]
    BY <1>1, <2>1, TailIndex
  <2>3. Len(Tail(up)) = 0
    BY <2>1, <2>2
  <2> QED
    BY <1>1, <2>2, <2>3
<1>3. s = currentSlave /\ waitingForResponse[s] /\ ~Head(up).dfc
      /\ Ends(primaryState[s], Head(up).fc)
  BY <1>1, <1>2 DEF AnswerFits, answering
<1>4. NoRequest
  <2>1. ASSUME NEW t \in Slaves, NEW i \in 1..Len(down[t]), down[t][i].fc # "USER_DATA_NO_REPLY"
        PROVE  FALSE
    BY <1>1, <2>1, RequestFitsAlone
  <2> QED
    BY <2>1 DEF NoRequest
<1>5. PICK f : f = Request("RESET_REMOTE_LINK", FALSE, FALSE)
  OBVIOUS
<1>6. f \in Frames /\ f.fc = "RESET_REMOTE_LINK"
  BY <1>5 DEF Request, Frames, Requests, NoCommand
<1>7. \/ /\ down' = down
         /\ primaryState' = [primaryState EXCEPT ![s] = "LINK_LAYERS_AVAILABLE"]
         /\ waitingForResponse' = [waitingForResponse EXCEPT ![s] = FALSE]
      \/ /\ down' = [down EXCEPT ![s] = Append(down[s], f)]
         /\ primaryState' = [primaryState EXCEPT ![s] = "RESET_REMOTE_LINK"]
         /\ waitingForResponse' = [waitingForResponse EXCEPT ![s] = TRUE]
  BY <1>3, <1>5 DEF Ends, Handles, HandleDFC, HandleAck, HandleOtherAck, HandleNack,
     HandleStatusOfLink, HandleUserData, HandleNoData, HandleUnexpectedData,
     HandleServiceNotImplemented, ReadAnswer, Available, SetPrimaryState, Waits
<1>8. /\ primaryState = [t \in Slaves |-> primaryState[t]]
      /\ waitingForResponse = [t \in Slaves |-> waitingForResponse[t]]
      /\ sendLinkLayerTestFunction = [t \in Slaves |-> sendLinkLayerTestFunction[t]]
  BY DEF PlainTypes
<1>9. WaitsInTurn'
  <2>1. \A t \in Slaves : ~sendLinkLayerTestFunction'[t]
    BY <1>1, <1>8 DEF WaitsInTurn
  <2>2. ASSUME NEW t \in Slaves
        PROVE  /\ waitingForResponse'[t] => t = s /\ primaryState'[t] \in Asking \cup {"IDLE"}
               /\ primaryState'[t] \in Asking => waitingForResponse'[t]
    BY <1>3, <1>7, <1>8 DEF WaitsInTurn, Asking
  <2> QED
    BY <1>1, <1>3, <2>1, <2>2 DEF WaitsInTurn
<1>10. \/ down' = down
       \/ /\ down' = [down EXCEPT ![s] = Append(down[s], f)] /\ f \in Frames
          /\ waitingForResponse'[s] /\ Asks(primaryState'[s], f.fc)
  BY <1>6, <1>7, <1>8 DEF Asks
<1>11. RequestFits' /\ AnswerFits'
  BY <1>2, <1>4, <1>10, SentFits
<1> QED
  BY <1>9, <1>11

(* Only the slave whose turn it is may be waited for, before and after the *)
(* turn goes on.                                                           *)
LEMMA TurnAlone ==
  ASSUME WaitsInTurn, NEW s \in Slaves, Turn(s)
  PROVE  currentSlave' = s /\ \A t \in Slaves : waitingForResponse[t] => t = s
<1>1. NoSlave \notin Slaves
  BY UnbalancedAssumption DEF Slaves, NoSlave
<1>2. currentSlave' = s
  BY DEF Turn
<1>3. CASE exchangeEnds
  <2>1. \A t \in Slaves : ~waitingForResponse[t]
    BY <1>1, <1>3 DEF WaitsInTurn, exchangeEnds
  <2> QED
    BY <1>2, <2>1
<1>4. CASE ~exchangeEnds
  <2>1. s = currentSlave
    BY <1>4 DEF Turn
  <2> QED
    BY <1>2, <2>1 DEF WaitsInTurn
<1> QED
  BY <1>3, <1>4

(* The state machine goes on when the line is quiet, unless an answer is   *)
(* late.                                                                   *)
LEMMA RunsKeepTurn ==
  ASSUME PlainTypes, CommandInHand, BoundsOK, LineOK, WaitsInTurn, RequestFits, AnswerFits,
         ~Fault("late"), NEW s \in Slaves, Runs(s)
  PROVE  WaitsInTurn' /\ RequestFits' /\ AnswerFits'
<1>1. Turn(s)
  BY DEF Runs, RunIdle, RunTimeoutOver, RunTimeoutStatusOrReset, RunResetWithoutStatus,
     RunAvailableWithoutAck, RunSendTest, RunSendCommand, RunRequestClass1, RunRequestClass2,
     NewExchange, RunRepeat, RunGiveUpCommand, RunGiveUpRequest, RunNothing
<1>2. currentSlave' = s /\ (\A t \in Slaves : waitingForResponse[t] => t = s) /\ up' = up
  BY <1>1, TurnAlone, RunsFrame
<1>3. /\ primaryState = [t \in Slaves |-> primaryState[t]]
      /\ waitingForResponse = [t \in Slaves |-> waitingForResponse[t]]
      /\ sendLinkLayerTestFunction = [t \in Slaves |-> sendLinkLayerTestFunction[t]]
      /\ \A t \in Slaves : ~sendLinkLayerTestFunction[t]
  BY DEF PlainTypes, WaitsInTurn
<1>4. \A t \in Slaves : ~sendLinkLayerTestFunction'[t]
  <2>1. \/ sendLinkLayerTestFunction' = sendLinkLayerTestFunction
        \/ sendLinkLayerTestFunction' = [sendLinkLayerTestFunction EXCEPT ![s] = FALSE]
    BY DEF Runs, RunIdle, RunTimeoutOver, RunTimeoutStatusOrReset, RunResetWithoutStatus,
       RunAvailableWithoutAck, RunSendTest, RunSendCommand, RunRequestClass1, RunRequestClass2,
       NewExchange, RunRepeat, RunGiveUpCommand, RunGiveUpRequest, RunNothing, primary
  <2> QED
    BY <1>3, <2>1
<1>5. CASE RunNothing(s)
  <2>1. UNCHANGED <<down, primaryState, waitingForResponse>>
    BY <1>5 DEF RunNothing, primary
  <2>2. WaitsInTurn'
    BY <1>2, <1>4, <2>1 DEF WaitsInTurn
  <2>3. RequestFits'
    BY <1>2, <2>1 DEF RequestFits, ForAll
  <2>4. AnswerFits'
    BY <1>2, <2>1 DEF AnswerFits
  <2> QED
    BY <2>2, <2>3, <2>4
<1>6. (NoRequest /\ up = <<>>) \/ RunNothing(s)
  <2>1. CASE primaryState[s] \notin Asking
    BY <1>2, <2>1, QuietUnlessAsking
  <2>2. CASE quiet
    <3>1. up = <<>> /\ \A t \in Slaves : Len(down[t]) = 0
      BY <2>2 DEF quiet
    <3> QED
      BY <3>1 DEF NoRequest
  <2>3. primaryState[s] \in Asking => waitingForResponse[s]
    BY DEF WaitsInTurn
  <2> QED
    BY <2>1, <2>2, <2>3 DEF Asking, Runs, RunIdle, RunTimeoutOver, RunTimeoutStatusOrReset,
       RunResetWithoutStatus, RunAvailableWithoutAck, RunSendTest, RunSendCommand,
       RunRequestClass1, RunRequestClass2, NewExchange, RunRepeat, RunGiveUpCommand,
       RunGiveUpRequest, Timeout
<1>7. ASSUME ~RunNothing(s)
      PROVE  \/ \E p \in PrimaryStates \ Asking :
                  /\ primaryState' = [primaryState EXCEPT ![s] = p]
                  /\ \/ waitingForResponse' = [waitingForResponse EXCEPT ![s] = FALSE]
                     \/ /\ waitingForResponse' = waitingForResponse
                        /\ waitingForResponse[s] => p = "IDLE"
                  /\ down' = down
             \/ \E p \in Asking :
                  /\ primaryState' = [primaryState EXCEPT ![s] = p]
                  /\ \/ waitingForResponse' = [waitingForResponse EXCEPT ![s] = TRUE]
                     \/ waitingForResponse' = waitingForResponse /\ waitingForResponse[s]
  <2>1. primaryState[s] \in Asking => waitingForResponse[s]
    BY DEF WaitsInTurn
  <2>2. waitingForResponse[s] => primaryState[s] \in Asking \cup {"IDLE"}
    BY DEF WaitsInTurn
  <2>3. CASE RunTimeoutOver(s) \/ RunTimeoutStatusOrReset(s) \/ RunGiveUpCommand(s)
             \/ RunGiveUpRequest(s) \/ RunAvailableWithoutAck(s)
    BY <2>1, <2>2, <2>3 DEF RunTimeoutOver, RunTimeoutStatusOrReset, RunGiveUpCommand,
       RunGiveUpRequest, RunAvailableWithoutAck, SetPrimaryState, Waits, Illegal, Asking,
       PrimaryStates
  <2>4. CASE RunIdle(s) \/ RunResetWithoutStatus(s) \/ RunSendTest(s) \/ RunSendCommand(s)
             \/ RunRequestClass1(s) \/ RunRequestClass2(s)
    BY <2>4 DEF RunIdle, RunResetWithoutStatus, RunSendTest, RunSendCommand, RunRequestClass1,
       RunRequestClass2, NewExchange, SetPrimaryState, Waits, Asking
  <2>5. CASE RunRepeat(s)
    <3>1. /\ primaryState' = primaryState /\ waitingForResponse' = waitingForResponse
          /\ primaryState[s] \in Asking
      BY <2>5 DEF RunRepeat, Asking
    <3>2. primaryState' = [primaryState EXCEPT ![s] = primaryState[s]]
      BY <1>3, <3>1
    <3> QED
      BY <2>1, <3>1, <3>2
  <2> QED
    BY <1>7, <2>3, <2>4, <2>5 DEF Runs
<1>8. ASSUME ~RunNothing(s)
      PROVE  WaitsInTurn'
  <2>1. ASSUME NEW t \in Slaves
        PROVE  /\ waitingForResponse'[t] => t = s /\ primaryState'[t] \in Asking \cup {"IDLE"}
               /\ primaryState'[t] \in Asking => waitingForResponse'[t]
    BY <1>2, <1>3, <1>7, <1>8 DEF WaitsInTurn
  <2> QED
    BY <1>2, <1>4, <2>1 DEF WaitsInTurn
<1>9. ASSUME ~RunNothing(s)
      PROVE  RequestFits' /\ AnswerFits'
  <2>1. \/ down' = down
        \/ primaryState'[s] \in Asking /\ waitingForResponse'[s]
    BY <1>3, <1>7, <1>9
  <2>2. \/ down' = down
        \/ \E f : /\ down' = [down EXCEPT ![s] = Append(down[s], f)] /\ f \in Frames
                  /\ Asks(primaryState'[s], f.fc)
    BY <1>3, RequestIsSent DEF RequestSent
  <2>3. \/ down' = down
        \/ \E f : /\ down' = [down EXCEPT ![s] = Append(down[s], f)] /\ f \in Frames
                  /\ waitingForResponse'[s] /\ Asks(primaryState'[s], f.fc)
    BY <2>1, <2>2
  <2> QED
    BY <1>2, <1>6, <1>9, <2>3, SentFits
<1> QED
  BY <1>5, <1>8, <1>9

(* A frame that leaves the line of a slave leaves the others in place.     *)
LEMMA TakenFits ==
  ASSUME LineOK, RequestFits, NEW s \in Slaves, down[s] # <<>>,
         down' = [down EXCEPT ![s] = Tail(down[s])],
         UNCHANGED <<waitingForResponse, primaryState>>,
         up' = <<>> \/ up' = up
  PROVE  RequestFits'
<1>0. /\ down \in [Slaves -> Seq(Frames)] /\ down[s] \in Seq(Frames)
      /\ \A t \in Slaves : \A i \in 1..Len(down[t]) : down[t][i].fc # "USER_DATA_NO_REPLY" =>
           /\ waitingForResponse[t] /\ Asks(primaryState[t], down[t][i].fc)
           /\ up = <<>>
           /\ \A j \in 1..Len(down[t]) : j # i => down[t][j].fc = "USER_DATA_NO_REPLY"
  BY RequestFitsAlone DEF LineOK
<1>1. /\ Len(Tail(down[s])) = Len(down[s]) - 1 /\ Len(down[s]) \in Nat \ {0}
      /\ \A i \in 1..Len(Tail(down[s])) : Tail(down[s])[i] = down[s][i + 1]
  BY <1>0, TailIndex
<1>2. /\ down'[s] = Tail(down[s]) /\ Len(down'[s]) = Len(down[s]) - 1
      /\ \A i \in 1..Len(down'[s]) : i + 1 \in 1..Len(down[s]) /\ down'[s][i] = down[s][i + 1]
      /\ 1 \in 1..Len(down[s])
  BY <1>0, <1>1
<1>3. \A t \in Slaves : t # s => down'[t] = down[t]
  BY <1>0
<1>4. RequestFits' <=>
        \A t \in Slaves : \A i \in 1..Len(down'[t]) : down'[t][i].fc # "USER_DATA_NO_REPLY" =>
          /\ waitingForResponse'[t] /\ Asks(primaryState'[t], down'[t][i].fc)
          /\ up' = <<>>
          /\ \A j \in 1..Len(down'[t]) : j # i => down'[t][j].fc = "USER_DATA_NO_REPLY"
  BY DEF RequestFits, ForAll
<1>5. ASSUME NEW t \in Slaves, NEW i \in 1..Len(down'[t]),
             down'[t][i].fc # "USER_DATA_NO_REPLY"
      PROVE  /\ waitingForResponse'[t] /\ Asks(primaryState'[t], down'[t][i].fc)
             /\ up' = <<>>
             /\ \A j \in 1..Len(down'[t]) : j # i => down'[t][j].fc = "USER_DATA_NO_REPLY"
  <2>1. CASE t # s
    BY <1>0, <1>3, <1>5, <2>1
  <2>2. CASE t = s
    <3>1. i + 1 \in 1..Len(down[s]) /\ down'[s][i] = down[s][i + 1]
      BY <1>2, <1>5, <2>2
    <3>2. /\ waitingForResponse[s] /\ Asks(primaryState[s], down[s][i + 1].fc)
          /\ up = <<>>
          /\ \A j \in 1..Len(down[s]) : j # i + 1 => down[s][j].fc = "USER_DATA_NO_REPLY"
      BY <1>0, <1>5, <2>2, <3>1
    <3>3. ASSUME NEW j \in 1..Len(down'[s]), j # i
          PROVE  down'[s][j].fc = "USER_DATA_NO_REPLY"
      <4>1. j + 1 \in 1..Len(down[s]) /\ down'[s][j] = down[s][j + 1] /\ j + 1 # i + 1
        BY <1>2, <1>5, <2>2, <3>3
      <4> QED
        BY <3>2, <4>1
    <3> QED
      BY <2>2, <3>1, <3>2, <3>3
  <2> QED
    BY <2>1, <2>2
<1> QED
  BY <1>4, <1>5

(* A slave of this implementation answers what the master waits for.       *)
LEMMA AnsweringKeepsTurn ==
  ASSUME PlainTypes, LineOK, WaitsInTurn, RequestFits, AnswerFits, ~Fault("foreign"),
         NEW s \in Slaves, Answering(s), userData'[s] \in Elements
  PROVE  WaitsInTurn' /\ RequestFits' /\ AnswerFits'
<1>1. /\ down[s] # <<>> /\ down' = [down EXCEPT ![s] = Tail(down[s])]
      /\ UNCHANGED <<primaryState, waitingForResponse, sendLinkLayerTestFunction, currentSlave>>
  BY AnsweringFrame DEF Take
<1>2. WaitsInTurn'
  BY <1>1 DEF WaitsInTurn
<1>3. CASE up' = up
  <2>1. RequestFits'
    BY <1>1, <1>3, TakenFits
  <2>2. AnswerFits'
    BY <1>1, <1>3 DEF AnswerFits
  <2> QED
    BY <1>2, <2>1, <2>2
<1>4. ASSUME NEW a, up' = Append(up, a), Answered(s, a)
      PROVE  RequestFits' /\ AnswerFits'
  <2>0. /\ down[s] \in Seq(Frames) /\ up \in Seq(Answers) /\ down \in [Slaves -> Seq(Frames)]
    BY DEF LineOK
  <2>1. /\ Len(Tail(down[s])) = Len(down[s]) - 1 /\ Len(down[s]) \in Nat \ {0}
        /\ \A i \in 1..Len(Tail(down[s])) : Tail(down[s])[i] = down[s][i + 1]
        /\ Head(down[s]) = down[s][1]
    BY <1>1, <2>0, TailIndex
  <2>2. /\ a \in Answers /\ a.from \in {NoSlave, s} /\ ~a.dfc
        /\ AnswerTo(down[s][1].fc, a.fc)
        /\ down[s][1].fc # "USER_DATA_NO_REPLY" /\ 1 \in 1..Len(down[s])
    BY <1>4, <2>1 DEF Answered
  <2>3. /\ waitingForResponse[s] /\ Asks(primaryState[s], down[s][1].fc) /\ up = <<>>
        /\ \A j \in 1..Len(down[s]) : j # 1 => down[s][j].fc = "USER_DATA_NO_REPLY"
    BY <2>2, RequestFitsAlone
  <2>4. s = currentSlave /\ \A t \in Slaves : waitingForResponse[t] => t = s
    BY <2>3 DEF WaitsInTurn
  <2>5. Ends(primaryState[s], a.fc)
    BY <2>2, <2>3 DEF AnswerTo, Asks, Ends
  <2>6. Len(up') = 1 /\ up'[1] = a
    BY <1>4, <2>3
  <2>7. AnswerFits'
    BY <1>1, <2>2, <2>3, <2>4, <2>5, <2>6 DEF AnswerFits
  <2>8. ASSUME NEW t \in Slaves, NEW i \in 1..Len(down'[t])
        PROVE  down'[t][i].fc = "USER_DATA_NO_REPLY"
    <3>1. CASE t = s
      <4>1. /\ down'[s] = Tail(down[s]) /\ i + 1 \in 1..Len(down[s]) /\ i + 1 # 1
            /\ down'[s][i] = down[s][i + 1]
        BY <1>1, <2>0, <2>1, <2>8, <3>1
      <4> QED
        BY <2>3, <3>1, <4>1
    <3>2. CASE t # s
      <4>1. down'[t] = down[t] /\ ~waitingForResponse[t]
        BY <1>1, <2>0, <2>4, <3>2
      <4> QED
        BY <2>8, <4>1, RequestFitsAlone
    <3> QED
      BY <3>1, <3>2
  <2>9. RequestFits'
    BY <2>8 DEF RequestFits, ForAll
  <2> QED
    BY <2>7, <2>9
<1> QED
  BY <1>2, <1>3, <1>4, AnswerSent

(* A broadcast goes out whatever the state of the exchange, and does not   *)
(* disturb it.                                                             *)
LEMMA BroadcastKeepsTurn ==
  ASSUME LineOK, WaitsInTurn, RequestFits, AnswerFits, RunBroadcast
  PROVE  WaitsInTurn' /\ RequestFits' /\ AnswerFits'
<1>1. PICK f : f = Broadcast(nextBroadcast)
  OBVIOUS
<1>2. /\ down' = [t \in Slaves |-> Append(down[t], f)] /\ f.fc = "USER_DATA_NO_REPLY"
      /\ UNCHANGED <<primaryState, waitingForResponse, sendLinkLayerTestFunction, currentSlave, up>>
  BY <1>1 DEF RunBroadcast, Broadcast, primary
<1>3. WaitsInTurn'
  BY <1>2 DEF WaitsInTurn
<1>4. AnswerFits'
  BY <1>2 DEF AnswerFits
<1>5. ASSUME NEW t \in Slaves
      PROVE  /\ Len(down'[t]) = Len(down[t]) + 1 /\ Len(down[t]) \in Nat
             /\ \A i \in 1..Len(down[t]) : down'[t][i] = down[t][i]
             /\ down'[t][Len(down[t]) + 1].fc = "USER_DATA_NO_REPLY"
  <2>1. down[t] \in Seq(Frames \cup {f}) /\ f \in Frames \cup {f}
    BY DEF LineOK
  <2>2. /\ Len(Append(down[t], f)) = Len(down[t]) + 1 /\ Len(down[t]) \in Nat
        /\ \A i \in 1..Len(down[t]) : Append(down[t], f)[i] = down[t][i]
        /\ Append(down[t], f)[Len(down[t]) + 1] = f
    BY <2>1, AppendIndex
  <2> QED
    BY <1>2, <2>2
<1>6. ASSUME NEW t \in Slaves, NEW i \in 1..Len(down'[t]),
             down'[t][i].fc # "USER_DATA_NO_REPLY"
      PROVE  /\ waitingForResponse'[t] /\ Asks(primaryState'[t], down'[t][i].fc)
             /\ up' = <<>>
             /\ \A j \in 1..Len(down'[t]) : j # i => down'[t][j].fc = "USER_DATA_NO_REPLY"
  <2>1. i \in 1..Len(down[t]) /\ down'[t][i] = down[t][i]
    BY <1>5, <1>6
  <2>2. /\ waitingForResponse[t] /\ Asks(primaryState[t], down[t][i].fc)
        /\ up = <<>>
        /\ \A j \in 1..Len(down[t]) : j # i => down[t][j].fc = "USER_DATA_NO_REPLY"
    BY <1>6, <2>1, RequestFitsAlone
  <2>3. ASSUME NEW j \in 1..Len(down'[t]), j # i
        PROVE  down'[t][j].fc = "USER_DATA_NO_REPLY"
    BY <1>5, <2>2, <2>3
  <2> QED
    BY <1>2, <2>1, <2>2, <2>3
<1>7. RequestFits' <=>
        \A t \in Slaves : \A i \in 1..Len(down'[t]) : down'[t][i].fc # "USER_DATA_NO_REPLY" =>
          /\ waitingForResponse'[t] /\ Asks(primaryState'[t], down'[t][i].fc)
          /\ up' = <<>>
          /\ \A j \in 1..Len(down'[t]) : j # i => down'[t][j].fc = "USER_DATA_NO_REPLY"
  BY DEF RequestFits, ForAll
<1> QED
  BY <1>3, <1>4, <1>6, <1>7

(* A frame or an answer that is lost leaves what the master waits for.     *)
LEMMA LoseKeepsTurn ==
  ASSUME LineOK, WaitsInTurn, RequestFits, AnswerFits, Lose
  PROVE  WaitsInTurn' /\ RequestFits' /\ AnswerFits'
<1>1. UNCHANGED <<primaryState, waitingForResponse, sendLinkLayerTestFunction, currentSlave>>
  BY DEF Lose, primary, master
<1>2. WaitsInTurn'
  BY <1>1 DEF WaitsInTurn
<1>3. ASSUME NEW s \in Slaves, down[s] # <<>>, down' = [down EXCEPT ![s] = Tail(down[s])], up' = up
      PROVE  RequestFits' /\ AnswerFits'
  <2>1. RequestFits'
    BY <1>1, <1>3, TakenFits
  <2> QED
    BY <1>1, <1>3, <2>1 DEF AnswerFits
<1>4. ASSUME up # <<>>, up' = Tail(up), down' = down
      PROVE  RequestFits' /\ AnswerFits'
  <2>1. up \in Seq(Answers) /\ Len(up) <= 1
    BY DEF LineOK, AnswerFits
  <2>2. Tail(up) \in Seq(Answers) /\ Len(Tail(up)) = Len(up) - 1 /\ Len(up) \in Nat \ {0}
    BY <1>4, <2>1, TailIndex
  <2>3. Len(Tail(up)) = 0
    BY <2>1, <2>2
  <2>4. up' = <<>>
    BY <1>4, <2>2, <2>3
  <2> QED
    BY <1>1, <1>4, <2>4 DEF AnswerFits, RequestFits, ForAll
<1>5. \/ \E s \in Slaves : down[s] # <<>> /\ down' = [down EXCEPT ![s] = Tail(down[s])] /\ up' = up
      \/ up # <<>> /\ up' = Tail(up) /\ down' = down
  BY DEF Lose
<1> QED
  BY <1>2, <1>3, <1>4, <1>5

(* OneExchange is kept.                                                    *)
LEMMA OneExchangeKept ==
  ASSUME PlainTypes, CommandInHand, BoundsOK, QueuesOK, LineOK, OneExchange, BoundsOK', QueuesOK',
         [Next]_vars
  PROVE  OneExchange'
<1> SUFFICES ASSUME ~OutOfStep'
             PROVE  WaitsInTurn' /\ RequestFits' /\ AnswerFits'
  BY DEF OneExchange
<1>1. /\ WaitsInTurn /\ RequestFits /\ AnswerFits
      /\ ~Fault("late") /\ ~Fault("test") /\ ~Fault("foreign")
  BY InStep DEF OneExchange
<1>2. CASE UNCHANGED <<primaryState, waitingForResponse, sendLinkLayerTestFunction, currentSlave,
                       down, up>>
  BY <1>1, <1>2 DEF WaitsInTurn, RequestFits, AnswerFits, ForAll
<1>3. CASE UNCHANGED vars \/ SendBroadcast
  BY <1>2, <1>3 DEF vars, SendBroadcast, primary, master
<1>4. CASE RunBroadcast
  BY <1>1, <1>4, BroadcastKeepsTurn
<1>5. CASE Lose
  BY <1>1, <1>5, LoseKeepsTurn
<1>6. ASSUME NEW s \in Slaves, Handles(s)
      PROVE  WaitsInTurn' /\ RequestFits' /\ AnswerFits'
  BY <1>1, <1>6, HandlesKeepTurn
<1>7. ASSUME NEW s \in Slaves, Runs(s)
      PROVE  WaitsInTurn' /\ RequestFits' /\ AnswerFits'
  BY <1>1, <1>7, RunsKeepTurn
<1>8. ASSUME NEW s \in Slaves, Answering(s)
      PROVE  WaitsInTurn' /\ RequestFits' /\ AnswerFits'
  <2>1. userData'[s] \in Elements
    BY NextBufferType
  <2> QED
    BY <1>1, <1>8, <2>1, AnsweringKeepsTurn
<1>9. ASSUME NEW s \in Slaves, RestartSlave(s)
      PROVE  WaitsInTurn' /\ RequestFits' /\ AnswerFits'
  BY <1>2, <1>9 DEF RestartSlave, primary, master
<1>10. ASSUME NEW s \in Slaves, User(s)
       PROVE  WaitsInTurn' /\ RequestFits' /\ AnswerFits'
  <2>1. ~sendTest(s)
    BY <1>1 DEF sendTest
  <2> QED
    BY <1>2, <1>10, <2>1, UserFrame
<1> QED
  BY <1>3, <1>4, <1>5, <1>6, <1>7, <1>8, <1>9, <1>10, Steps

-----------------------------------------------------------------------------
(* The theorems                                                            *)

(* The initial states satisfy the invariant.                               *)
LEMMA InitIInv ==
  ASSUME Init
  PROVE  IInv
<1>0. N \in Nat \ {0} /\ Repeats \in Nat /\ Scenarios \subseteq Scenario
  BY UnbalancedAssumption
<1>1. PlainTypes
  <2>1. 0 \in 0..Repeats /\ 0 \in 0..N /\ 1 \in 1..N
    BY <1>0
  <2> QED
    BY <2>1 DEF Init, NewConnection, PlainTypes, States, PrimaryStates, NoSlave, Slaves
<1>2. CommandInHand
  BY DEF CommandInHand, Init, NewConnection
<1>3. BoundsOK
  <2>1. scenario \in Scenario
    BY <1>0 DEF Init
  <2>2. /\ scenario.asdus \in [Slaves -> [Classes -> Nat]] /\ scenario.commands \in [Slaves -> Nat]
        /\ scenario.broadcasts \in Nat
    BY <2>1 DEF Scenario
  <2>3. faults \in [Faults -> Nat]
    BY DEF Init
  <2>4. /\ enqueued \in [Slaves -> [Classes -> Nat]]
        /\ \A s \in Slaves, c \in Classes : enqueued[s][c] <= scenario.asdus[s][c]
    BY <2>2 DEF Init
  <2>5. /\ submitted \in [Slaves -> Nat] /\ nextMessage \in [Slaves -> Nat]
        /\ \A s \in Slaves : submitted[s] <= scenario.commands[s]
        /\ \A s \in Slaves : nextMessage[s] <= submitted[s]
    BY <2>2 DEF Init, NewConnection, NoCommand
  <2>6. /\ broadcasts \in Nat /\ broadcasts <= scenario.broadcasts
        /\ nextBroadcast \in (0 - broadcasts)..0
    BY <2>2 DEF Init, NoCommand
  <2> QED
    BY <2>1, <2>3, <2>4, <2>5, <2>6 DEF BoundsOK
<1>4. QueuesOK
  <2>1. /\ queue = [s \in Slaves |-> EmptyQueues] /\ userData = [s \in Slaves |-> Garbage]
        /\ enqueued = [s \in Slaves |-> [c \in Classes |-> 0]]
    BY DEF Init
  <2>2. \A c \in Classes : HoldsNewest(EmptyQueues[c], c, 0)
    BY EmptyQueuesHold
  <2>3. EmptyQueues = [c \in Classes |-> EmptyQueues[c]]
    BY DEF EmptyQueues
  <2>4. /\ queue = [s \in Slaves |-> queue[s]]
        /\ \A s \in Slaves : queue[s] = [c \in Classes |-> queue[s][c]]
    BY <2>1, <2>3
  <2>5. \A s \in Slaves, c \in Classes : HoldsNewest(queue[s][c], c, enqueued[s][c])
    BY <2>1, <2>2
  <2>6. /\ userData = [s \in Slaves |-> userData[s]]
        /\ \A s \in Slaves : userData[s] \in {NoAsdu, Garbage}
    BY <2>1
  <2> QED
    BY <2>4, <2>5, <2>6 DEF QueuesOK
<1>5. LineOK /\ \A s \in Slaves : Len(down[s]) = 0
  BY DEF Init, LineOK
<1>6. BroadcastsOK
  BY <1>5 DEF BroadcastsOK, ForAll
<1>7. OneExchange
  <2>1. WaitsInTurn
    BY DEF Init, NewConnection, WaitsInTurn, Asking
  <2>2. RequestFits
    BY <1>5 DEF RequestFits
  <2>3. AnswerFits
    BY DEF AnswerFits, Init
  <2> QED
    BY <2>1, <2>2, <2>3 DEF OneExchange
<1> QED
  BY <1>1, <1>2, <1>3, <1>4, <1>5, <1>6, <1>7 DEF IInv

(* Every step keeps the invariant.                                         *)
LEMMA NextIInv ==
  ASSUME IInv, [Next]_vars
  PROVE  IInv'
<1>1. PlainTypes' /\ CommandInHand' /\ BoundsOK' /\ QueuesOK'
  BY PlainTypesKept, CommandInHandKept, BoundsKept, QueuesKept DEF IInv
<1>2. LineOK' /\ BroadcastsOK' /\ OneExchange'
  BY <1>1, LineKept, BroadcastsKept, OneExchangeKept DEF IInv
<1> QED
  BY <1>1, <1>2 DEF IInv

(* The invariant holds in every reachable state: the queues hold the       *)
(* newest ASDUs, and, unless the master is out of step, the line carries   *)
(* nothing but the exchange whose turn it is.                              *)
THEOREM Invariance == Spec => []IInv
<1>1. Init => IInv
  BY InitIInv
<1>2. IInv /\ [Next]_vars => IInv'
  BY NextIInv
<1> QED
  BY <1>1, <1>2, PTL DEF Spec

(* The invariant implies the types.                                        *)
LEMMA IInvTypes ==
  ASSUME IInv
  PROVE  TypeOK
<1>1. /\ PlainTypes /\ CommandInHand /\ BoundsOK /\ QueuesOK /\ OneExchange
  BY DEF IInv
<1>2. nextBroadcast \in (0 - scenario.broadcasts)..0
  <2>1. /\ broadcasts \in Nat /\ broadcasts <= scenario.broadcasts /\ scenario.broadcasts \in Nat
        /\ nextBroadcast \in (0 - broadcasts)..0
    BY <1>1 DEF BoundsOK, Scenario
  <2> QED
    BY <2>1
<1>3. ASSUME NEW s \in Slaves
      PROVE  /\ nextMessage[s] \in CommandsTo(s) \cup {NoCommand}
             /\ primaryState[s] = "SEND_CONFIRM" => nextMessage[s] # NoCommand
             /\ userData[s] \in AsdusOf(s) \cup {NoAsdu, Garbage}
             /\ waitingForResponse[s] => s = currentSlave \/ OutOfStep
             /\ primaryState[s] \in {"REQUEST_STATUS", "RESET_REMOTE_LINK"} /\ ~waitingForResponse[s]
                  => OutOfStep
  <2>1. nextMessage[s] \in CommandsTo(s) \cup {NoCommand}
    <3>1. /\ nextMessage[s] \in Nat /\ submitted[s] \in Nat /\ scenario.commands[s] \in Nat
          /\ nextMessage[s] <= submitted[s] /\ submitted[s] <= scenario.commands[s]
      BY <1>1 DEF BoundsOK, Scenario
    <3> QED
      BY <3>1 DEF CommandsTo, NoCommand
  <2>2. primaryState[s] = "SEND_CONFIRM" => nextMessage[s] # NoCommand
    BY <1>1 DEF CommandInHand
  <2>3. userData[s] \in AsdusOf(s) \cup {NoAsdu, Garbage}
    BY <1>1, BufferType
  <2>4. /\ waitingForResponse[s] => s = currentSlave \/ OutOfStep
        /\ primaryState[s] \in {"REQUEST_STATUS", "RESET_REMOTE_LINK"} /\ ~waitingForResponse[s]
             => OutOfStep
    BY <1>1 DEF OneExchange, WaitsInTurn, Asking
  <2> QED
    BY <2>1, <2>2, <2>3, <2>4
<1> QED
  BY <1>1, <1>2, <1>3 DEF TypeOK, PlainTypes, States, PrimaryStates

(* Every variable keeps its type; the master waits for no other slave than *)
(* the one whose turn it is, and the branches of the state machine for a   *)
(* status request or a reset that nobody waits for are not reached, unless *)
(* the master is out of step.                                              *)
THEOREM TypeCorrect == Spec => []TypeOK
BY Invariance, IInvTypes, PTL

(* The invariant leaves at most one frame on the line.                     *)
LEMMA IInvOneFrame ==
  ASSUME IInv
  PROVE  OneFrameAtATime
<1> SUFFICES ASSUME ~OutOfStep, broadcasts = 0
             PROVE  \A s \in Slaves : Len(up) + Len(down[s]) <= 1
                      /\ \A t \in Slaves \ {s} : Len(down[s]) = 0 \/ Len(down[t]) = 0
  BY DEF OneFrameAtATime
<1>1. /\ WaitsInTurn /\ RequestFits /\ AnswerFits
      /\ \A s \in Slaves : ForAll(s) = {}
      /\ \A s \in Slaves : down[s] \in Seq(Frames)
      /\ up \in Seq(Answers)
  BY DEF IInv, OneExchange, BroadcastsOK, LineOK
<1>2. ASSUME NEW s \in Slaves, Len(down[s]) # 0
      PROVE  waitingForResponse[s] /\ Len(down[s]) = 1 /\ up = <<>>
  <2>1. Len(down[s]) \in Nat /\ 1 \in 1..Len(down[s])
    BY <1>1, <1>2
  <2>2. /\ waitingForResponse[s] /\ up = <<>>
        /\ \A j \in 1..Len(down[s]) : j # 1 => j \in ForAll(s)
    BY <1>1, <2>1 DEF RequestFits
  <2>3. ASSUME Len(down[s]) # 1
        PROVE  FALSE
    <3>0. PICK n \in Nat : n = Len(down[s])
      BY <2>1
    <3>a. n # 0 /\ n # 1
      BY <1>2, <2>3, <3>0
    <3>1. 2 \in 1..n /\ 2 # 1
      BY <3>a
    <3>2. 2 \in ForAll(s)
      BY <2>2, <3>0, <3>1
    <3> QED
      BY <1>1, <3>2
  <2> QED
    BY <2>2, <2>3
<1>3. Len(up) \in Nat /\ Len(up) <= 1
  BY <1>1 DEF AnswerFits
<1>4. ASSUME NEW s \in Slaves
      PROVE  Len(up) + Len(down[s]) <= 1
  <2>1. Len(down[s]) \in Nat
    BY <1>1
  <2>2. CASE Len(down[s]) = 0
    BY <1>3, <2>2
  <2>3. CASE Len(down[s]) # 0
    <3>1. Len(up) = 0 /\ Len(down[s]) = 1
      BY <1>2, <2>3
    <3> QED
      BY <3>1
  <2> QED
    BY <2>2, <2>3
<1>5. ASSUME NEW s \in Slaves, NEW t \in Slaves \ {s}
      PROVE  Len(down[s]) = 0 \/ Len(down[t]) = 0
  BY <1>1, <1>2 DEF WaitsInTurn
<1> QED
  BY <1>4, <1>5

(* Whatever is lost, whichever slave restarts and whatever is enqueued:    *)
(* the line carries at most one frame, but for broadcasts and a master     *)
(* that is out of step.                                                    *)
THEOREM OneFrame == Spec => []OneFrameAtATime
BY Invariance, IInvOneFrame, PTL

(* The invariant makes a queue the list of the newest ASDUs.               *)
LEMMA IInvNewest ==
  ASSUME IInv
  PROVE  QueueKeepsNewest
<1> SUFFICES ASSUME NEW s \in Slaves, NEW c \in Classes
             PROVE  LET held == contents(queue[s][c], QueueSize)
                    IN  \A i \in DOMAIN held : held[i] = <<c, enqueued[s][c] - Len(held) + i>>
  BY DEF QueueKeepsNewest
<1>1. HoldsNewest(queue[s][c], c, enqueued[s][c])
  BY DEF IInv, QueuesOK
<1>2. PICK q : q = queue[s][c]
  OBVIOUS
<1>3. PICK n : n = q.entryCounter
  OBVIOUS
<1>4. /\ n \in Nat
      /\ \A i \in 1..n : q.elements[slot(q, QueueSize, i)] = <<c, enqueued[s][c] - n + i>>
  BY <1>1, <1>2, <1>3 DEF HoldsNewest, Rings
<1>5. PICK held : held = [i \in 1..n |-> q.elements[slot(q, QueueSize, i)]]
  OBVIOUS
<1>6. /\ DOMAIN held = 1..n /\ Len(held) = n
      /\ \A i \in 1..n : held[i] = <<c, enqueued[s][c] - n + i>>
  BY <1>4, <1>5
<1>7. held = contents(queue[s][c], QueueSize)
  BY <1>2, <1>3, <1>5 DEF contents
<1> QED
  BY <1>6, <1>7

(* However ASDUs are enqueued, requested, repeated and flushed, and        *)
(* whichever slave restarts: a class queue holds the newest of them in     *)
(* their order.                                                            *)
THEOREM NewestKept == Spec => []QueueKeepsNewest
BY Invariance, IInvNewest, PTL

-----------------------------------------------------------------------------
(* The order of arrival: commands                                          *)

(* The commands in a sequence of frames are in order and between the two.  *)
CommandsBetween(q, low, high) ==
  /\ low <= high
  /\ \A i \in 1..Len(q) : q[i].fc = "USER_DATA_CONFIRMED" =>
       /\ low <= q[i].command /\ q[i].command <= high
       /\ \A j \in 1..(i - 1) :
            q[j].fc = "USER_DATA_CONFIRMED" => q[j].command <= q[i].command

(* The last command given to the master, if it has left its buffer, or     *)
(* else the one in the buffer: none that is under way is newer.            *)
Latest(s) == IF nextMessage[s] = NoCommand THEN submitted[s] ELSE nextMessage[s]

(* No command under way to a slave is older than the last one that its     *)
(* application got, and none is newer than the one in the buffer.          *)
CommandsOK ==
  /\ indicated \in [Slaves -> Nat]
  /\ \A s \in Slaves : CommandsBetween(down[s], indicated[s], Latest(s))

(* The commands of frames are numbers.                                     *)
LEMMA FrameCommands ==
  ASSUME NEW q \in Seq(Frames)
  PROVE  \A i \in 1..Len(q) : q[i].command \in Int
<1> SUFFICES ASSUME NEW i \in 1..Len(q)
             PROVE  q[i].command \in Int
  OBVIOUS
<1>1. PICK f \in Frames : f = q[i]
  OBVIOUS
<1>2. f.command \in Int
  BY DEF Frames
<1> QED
  BY <1>1, <1>2

(* The bound may grow.                                                     *)
LEMMA CommandsBetweenGrows ==
  ASSUME NEW q \in Seq(Frames), NEW low \in Int, NEW high \in Int, NEW higher \in Int,
         CommandsBetween(q, low, high), high <= higher
  PROVE  CommandsBetween(q, low, higher)
<1>1. \A i \in 1..Len(q) : q[i].command \in Int
  BY FrameCommands
<1> QED
  BY <1>1 DEF CommandsBetween

(* The frames behind the first one are no older than it.                   *)
LEMMA CommandsBetweenTail ==
  ASSUME NEW q \in Seq(Frames), NEW low \in Int, NEW high \in Int, q # <<>>,
         CommandsBetween(q, low, high)
  PROVE  /\ CommandsBetween(Tail(q), low, high)
         /\ q[1].fc = "USER_DATA_CONFIRMED" =>
              low <= q[1].command /\ CommandsBetween(Tail(q), q[1].command, high)
<1>1. /\ Len(Tail(q)) = Len(q) - 1 /\ Len(q) \in Nat \ {0}
      /\ \A i \in 1..Len(Tail(q)) : Tail(q)[i] = q[i + 1]
  BY TailIndex
<1>2. /\ 1 \in 1..Len(q) /\ low <= high
      /\ \A i \in 1..Len(q) : q[i].command \in Int
      /\ \A i \in 1..Len(q) : q[i].fc = "USER_DATA_CONFIRMED" =>
           /\ low <= q[i].command /\ q[i].command <= high
           /\ \A j \in 1..(i - 1) :
                q[j].fc = "USER_DATA_CONFIRMED" => q[j].command <= q[i].command
  BY <1>1, FrameCommands DEF CommandsBetween
<1>3. ASSUME NEW i \in 1..Len(Tail(q)), Tail(q)[i].fc = "USER_DATA_CONFIRMED"
      PROVE  /\ low <= Tail(q)[i].command /\ Tail(q)[i].command <= high
             /\ q[1].fc = "USER_DATA_CONFIRMED" => q[1].command <= Tail(q)[i].command
             /\ \A j \in 1..(i - 1) :
                  Tail(q)[j].fc = "USER_DATA_CONFIRMED" => Tail(q)[j].command <= Tail(q)[i].command
  <2>1. PICK k \in 1..Len(q) : k = i + 1 /\ Tail(q)[i] = q[k] /\ 1 \in 1..(k - 1)
    BY <1>1
  <2>2. /\ low <= q[k].command /\ q[k].command <= high
        /\ \A j \in 1..(k - 1) :
             q[j].fc = "USER_DATA_CONFIRMED" => q[j].command <= q[k].command
    BY <1>2, <1>3, <2>1
  <2>3. ASSUME NEW j \in 1..(i - 1), Tail(q)[j].fc = "USER_DATA_CONFIRMED"
        PROVE  Tail(q)[j].command <= Tail(q)[i].command
    <3>1. PICK m \in 1..(k - 1) : m = j + 1 /\ Tail(q)[j] = q[m]
      BY <1>1, <2>1
    <3> QED
      BY <2>1, <2>2, <2>3, <3>1
  <2> QED
    BY <2>1, <2>2, <2>3
<1>4. CommandsBetween(Tail(q), low, high)
  BY <1>2, <1>3 DEF CommandsBetween
<1>5. ASSUME q[1].fc = "USER_DATA_CONFIRMED"
      PROVE  low <= q[1].command /\ CommandsBetween(Tail(q), q[1].command, high)
  <2>1. low <= q[1].command /\ q[1].command <= high
    BY <1>2, <1>5
  <2> QED
    BY <1>3, <1>5, <2>1 DEF CommandsBetween
<1> QED
  BY <1>4, <1>5

(* The frame that is appended may be the newest command.                   *)
LEMMA CommandsBetweenAppend ==
  ASSUME NEW q \in Seq(Frames), NEW low \in Int, NEW high \in Int, NEW f \in Frames,
         CommandsBetween(q, low, high), f.fc = "USER_DATA_CONFIRMED" => f.command = high
  PROVE  CommandsBetween(Append(q, f), low, high)
<1>1. PICK r : r = Append(q, f)
  OBVIOUS
<1>2. /\ Len(r) = Len(q) + 1 /\ Len(q) \in Nat
      /\ \A i \in 1..Len(q) : r[i] = q[i]
      /\ r[Len(q) + 1] = f
  BY <1>1, AppendIndex
<1>3. low <= high /\ \A i \in 1..Len(q) : q[i].fc = "USER_DATA_CONFIRMED" =>
           /\ low <= q[i].command /\ q[i].command <= high
           /\ \A j \in 1..(i - 1) :
                q[j].fc = "USER_DATA_CONFIRMED" => q[j].command <= q[i].command
  BY DEF CommandsBetween
<1>4. ASSUME NEW i \in 1..Len(r), r[i].fc = "USER_DATA_CONFIRMED"
      PROVE  /\ low <= r[i].command /\ r[i].command <= high
             /\ \A j \in 1..(i - 1) :
                  r[j].fc = "USER_DATA_CONFIRMED" => r[j].command <= r[i].command
  <2>1. CASE i \in 1..Len(q)
    <3>1. \A j \in 1..(i - 1) : j \in 1..Len(q) /\ r[j] = q[j]
      BY <1>2, <2>1
    <3> QED
      BY <1>2, <1>3, <1>4, <2>1, <3>1
  <2>2. CASE i = Len(q) + 1
    <3>1. r[i].command = high
      BY <1>2, <1>4, <2>2
    <3>2. \A j \in 1..(i - 1) : j \in 1..Len(q) /\ r[j] = q[j]
      BY <1>2, <2>2
    <3> QED
      BY <1>3, <3>1, <3>2
  <2> QED
    BY <1>2, <2>1, <2>2
<1> QED
  BY <1>1, <1>3, <1>4 DEF CommandsBetween

(* The latest command does not become an older one.                        *)
LEMMA LatestGrows ==
  ASSUME BoundsOK, [Next]_vars, NEW s \in Slaves
  PROVE  Latest(s) \in Nat /\ Latest(s)' \in Nat /\ Latest(s) <= Latest(s)'
<1>0. /\ submitted[s] \in Nat /\ nextMessage[s] \in Nat /\ nextMessage[s] <= submitted[s]
      /\ nextMessage = [t \in Slaves |-> nextMessage[t]]
      /\ submitted = [t \in Slaves |-> submitted[t]]
      /\ submitted'[s] \in Nat /\ nextMessage'[s] \in Nat
  BY CommandSteps DEF BoundsOK
<1>1. Latest(s) \in Nat /\ Latest(s)' \in Nat
  BY <1>0 DEF Latest
<1>2. CASE UNCHANGED <<submitted, nextMessage>>
  BY <1>0, <1>2 DEF Latest
<1>3. CASE UNCHANGED vars \/ RunBroadcast \/ SendBroadcast \/ Lose
  BY <1>2, <1>3 DEF vars, RunBroadcast, SendBroadcast, Lose, application, primary
<1>4. ASSUME NEW t \in Slaves, Handles(t)
      PROVE  Latest(s) <= Latest(s)'
  <2>1. /\ submitted' = submitted
        /\ nextMessage' = nextMessage \/ nextMessage' = [nextMessage EXCEPT ![t] = NoCommand]
    BY <1>4, HandlesFrame
  <2>2. nextMessage'[s] = nextMessage[s] \/ nextMessage'[s] = NoCommand
    BY <1>0, <2>1
  <2> QED
    BY <1>0, <2>1, <2>2 DEF Latest
<1>5. ASSUME NEW t \in Slaves, Runs(t) \/ Answering(t)
      PROVE  UNCHANGED <<submitted, nextMessage>>
  BY <1>5, RunsFrame, AnsweringFrame
<1>6. ASSUME NEW t \in Slaves, RestartSlave(t)
      PROVE  UNCHANGED <<submitted, nextMessage>>
  BY <1>6 DEF RestartSlave, application, primary
<1>7. ASSUME NEW t \in Slaves, User(t)
      PROVE  Latest(s) <= Latest(s)'
  <2>1. CASE SendASDU(t)
    <3>1. /\ submitted' = [submitted EXCEPT ![t] = submitted[t] + 1]
          /\ \/ nextMessage[t] = NoCommand /\ nextMessage' = [nextMessage EXCEPT ![t] = submitted'[t]]
             \/ nextMessage[t] # NoCommand /\ nextMessage' = nextMessage
      BY <2>1 DEF SendASDU
    <3>2. CASE t = s
      <4>1. /\ submitted'[s] = submitted[s] + 1
            /\ \/ nextMessage[s] = NoCommand /\ nextMessage'[s] = submitted[s] + 1
               \/ nextMessage[s] # NoCommand /\ nextMessage'[s] = nextMessage[s]
        BY <1>0, <3>1, <3>2
      <4> QED
        BY <1>0, <4>1 DEF Latest, NoCommand
    <3>3. CASE t # s
      <4>1. submitted'[s] = submitted[s] /\ nextMessage'[s] = nextMessage[s]
        BY <1>0, <3>1, <3>3
      <4> QED
        BY <1>0, <4>1 DEF Latest
    <3> QED
      BY <3>2, <3>3
  <2> QED
    BY <1>2, <1>7, <2>1, UserFrame
<1> QED
  BY <1>1, <1>2, <1>3, <1>4, <1>5, <1>6, <1>7, Steps

(* What a step does to the line of one slave and to its application: the   *)
(* first frame is taken, and with it may go its command; a frame is added, *)
(* that is the latest command or none; or neither.                         *)
CommandStep(s) ==
  \/ down'[s] = down[s] /\ indicated'[s] = indicated[s]
  \/ /\ down[s] # <<>> /\ down'[s] = Tail(down[s])
     /\ \/ indicated'[s] = indicated[s]
        \/ down[s][1].fc = "USER_DATA_CONFIRMED" /\ indicated'[s] = down[s][1].command
  \/ \E f \in Frames : /\ down'[s] = Append(down[s], f) /\ indicated'[s] = indicated[s]
                       /\ f.fc = "USER_DATA_CONFIRMED" => f.command = Latest(s)

(* A slave that answers may hand the command to its application.           *)
LEMMA AnsweringIndicates ==
  ASSUME NEW s \in Slaves, Answering(s)
  PROVE  \/ indicated' = indicated
         \/ /\ Head(down[s]).fc = "USER_DATA_CONFIRMED"
            /\ indicated' = [indicated EXCEPT ![s] = Head(down[s]).command]
BY DEF Answering, SlaveRun, ForeignAnswer, HandleRequestLinkStatus, HandleResetRemoteLink,
   HandleRequestUserData, HandleUserDataConfirmed, HandleUserDataNoReply, HandleTestFunction,
   HandleReceivedData, TakeAndSend, history

(* Every step is one of these for every slave.                             *)
LEMMA CommandStepsOfSlaves ==
  ASSUME IInv, CommandsOK, [Next]_vars
  PROVE  indicated' = [s \in Slaves |-> indicated'[s]] /\ \A s \in Slaves : CommandStep(s)
<1>0. /\ indicated = [s \in Slaves |-> indicated[s]]
      /\ down \in [Slaves -> Seq(Frames)]
      /\ PlainTypes /\ CommandInHand /\ BoundsOK
  BY DEF CommandsOK, IInv, LineOK
<1>1. CASE UNCHANGED <<down, indicated>>
  BY <1>0, <1>1 DEF CommandStep
<1>2. ASSUME NEW s \in Slaves, down[s] # <<>>, down' = [down EXCEPT ![s] = Tail(down[s])],
             indicated' = indicated
      PROVE  \A t \in Slaves : CommandStep(t)
  BY <1>0, <1>2 DEF CommandStep
<1>3. ASSUME NEW s \in Slaves, NEW f \in Frames, down' = [down EXCEPT ![s] = Append(down[s], f)],
             indicated' = indicated, f.fc = "USER_DATA_CONFIRMED" => f.command = Latest(s)
      PROVE  \A t \in Slaves : CommandStep(t)
  <2>1. down'[s] = Append(down[s], f) /\ \A t \in Slaves : t # s => down'[t] = down[t]
    BY <1>0, <1>3
  <2> QED
    BY <1>3, <2>1 DEF CommandStep
<1>4. CASE UNCHANGED vars \/ SendBroadcast
  BY <1>1, <1>4 DEF vars, SendBroadcast, history
<1>5. CASE Lose
  <2>1. /\ \/ \E s \in Slaves : down[s] # <<>> /\ down' = [down EXCEPT ![s] = Tail(down[s])]
           \/ down' = down
        /\ indicated' = indicated
    BY <1>5 DEF Lose, history
  <2> QED
    BY <1>0, <1>1, <1>2, <2>1
<1>6. CASE RunBroadcast
  <2>1. PICK f : f = Broadcast(nextBroadcast)
    OBVIOUS
  <2>2. f \in Frames /\ f.fc # "USER_DATA_CONFIRMED"
    <3>1. nextBroadcast \in Int
      BY <1>0 DEF BoundsOK
    <3> QED
      BY <2>1, <3>1 DEF Broadcast, Frames
  <2>3. down' = [t \in Slaves |-> Append(down[t], f)] /\ indicated' = indicated
    BY <1>6, <2>1 DEF RunBroadcast, history
  <2> QED
    BY <1>0, <2>2, <2>3 DEF CommandStep
<1>7. ASSUME NEW s \in Slaves, Handles(s)
      PROVE  indicated' = indicated /\ \A t \in Slaves : CommandStep(t)
  <2>1. PICK f : f = Request("RESET_REMOTE_LINK", FALSE, FALSE)
    OBVIOUS
  <2>2. f \in Frames /\ f.fc # "USER_DATA_CONFIRMED"
    BY <2>1 DEF Request, Frames, Requests, NoCommand
  <2>3. down' = down \/ down' = [down EXCEPT ![s] = Append(down[s], f)]
    BY <1>7, <2>1 DEF Handles, HandleDFC, HandleAck, HandleOtherAck, HandleNack,
        HandleStatusOfLink, HandleUserData, HandleNoData, HandleUnexpectedData,
        HandleServiceNotImplemented
  <2>4. indicated' = indicated
    BY <1>7, HandlesFrame
  <2> QED
    BY <1>1, <1>3, <2>2, <2>3, <2>4
<1>8. ASSUME NEW s \in Slaves, Runs(s)
      PROVE  indicated' = indicated /\ \A t \in Slaves : CommandStep(t)
  <2>1. indicated' = indicated
    BY <1>8, RunsFrame
  <2>2. ASSUME NEW f, down' = [down EXCEPT ![s] = Append(down[s], f)], RequestSent(s, f)
        PROVE  \A t \in Slaves : CommandStep(t)
    BY <1>3, <2>1, <2>2 DEF RequestSent, Latest
  <2> QED
    BY <1>0, <1>1, <1>8, <2>1, <2>2, RequestIsSent
<1>9. ASSUME NEW s \in Slaves, Answering(s)
      PROVE  /\ indicated' = [t \in Slaves |-> indicated'[t]]
             /\ \A t \in Slaves : CommandStep(t)
  <2>1. down[s] # <<>> /\ down' = [down EXCEPT ![s] = Tail(down[s])] /\ down[s] \in Seq(Frames)
    BY <1>0, <1>9, AnsweringFrame DEF Take
  <2>2. Head(down[s]) = down[s][1]
    BY <2>1, TailIndex
  <2>3. CASE indicated' = indicated
    BY <1>0, <1>2, <2>1, <2>3
  <2>4. CASE /\ down[s][1].fc = "USER_DATA_CONFIRMED"
             /\ indicated' = [indicated EXCEPT ![s] = down[s][1].command]
    BY <1>0, <2>1, <2>4 DEF CommandStep
  <2> QED
    BY <1>9, <2>2, <2>3, <2>4, AnsweringIndicates
<1>10. ASSUME NEW s \in Slaves, RestartSlave(s)
       PROVE  UNCHANGED <<down, indicated>>
  BY <1>10 DEF RestartSlave, history
<1>11. ASSUME NEW s \in Slaves, User(s)
       PROVE  UNCHANGED <<down, indicated>>
  BY <1>11, UserFrame
<1> QED
  BY <1>0, <1>1, <1>4, <1>5, <1>6, <1>7, <1>8, <1>9, <1>10, <1>11, Steps
     DEF Lose, RunBroadcast, history

(* CommandsOK is kept, and no command is handed to the application after a *)
(* newer one.                                                              *)
LEMMA CommandsKept ==
  ASSUME IInv, CommandsOK, [Next]_vars
  PROVE  CommandsOK' /\ \A s \in Slaves : indicated'[s] >= indicated[s]
<1>1. ASSUME NEW s \in Slaves
      PROVE  /\ CommandsBetween(down'[s], indicated'[s], Latest(s)')
             /\ indicated'[s] \in Nat /\ indicated'[s] >= indicated[s]
  <2>0. /\ down[s] \in Seq(Frames) /\ indicated[s] \in Nat
        /\ CommandsBetween(down[s], indicated[s], Latest(s))
        /\ BoundsOK
    BY DEF IInv, LineOK, CommandsOK
  <2>a. \A i \in 1..Len(down[s]) : down[s][i].command \in Int
    BY <2>0, FrameCommands
  <2>1. PICK high \in Nat, higher \in Nat : high = Latest(s) /\ higher = Latest(s)' /\ high <= higher
    BY <2>0, LatestGrows
  <2>2. CommandsBetween(down[s], indicated[s], high) /\ indicated[s] \in Int
    BY <2>0, <2>1
  <2>3. CASE down'[s] = down[s] /\ indicated'[s] = indicated[s]
    BY <2>0, <2>1, <2>2, <2>3, CommandsBetweenGrows
  <2>4. CASE /\ down[s] # <<>> /\ down'[s] = Tail(down[s])
             /\ indicated'[s] = indicated[s]
    <3>1. CommandsBetween(Tail(down[s]), indicated[s], high) /\ Tail(down[s]) \in Seq(Frames)
      BY <2>0, <2>2, <2>4, CommandsBetweenTail, TailIndex
    <3>2. PICK r : r = Tail(down[s])
      OBVIOUS
    <3>r. r \in Seq(Frames) /\ CommandsBetween(r, indicated[s], high)
      BY <3>1, <3>2
    <3>3. CommandsBetween(r, indicated[s], higher)
      BY <2>1, <2>2, <3>r, CommandsBetweenGrows
    <3> QED
      BY <2>0, <2>1, <2>4, <3>2, <3>3
  <2>5. CASE /\ down[s] # <<>> /\ down'[s] = Tail(down[s])
             /\ down[s][1].fc = "USER_DATA_CONFIRMED" /\ indicated'[s] = down[s][1].command
    <3>0. PICK c \in Int : c = down[s][1].command
      <4>1. 1 \in 1..Len(down[s])
        BY <2>0, <2>5
      <4> QED
        BY <2>a, <4>1
    <3>1. /\ CommandsBetween(Tail(down[s]), c, high) /\ Tail(down[s]) \in Seq(Frames)
          /\ indicated[s] <= c
      BY <2>0, <2>2, <2>5, <3>0, CommandsBetweenTail, TailIndex
    <3>2. PICK r : r = Tail(down[s])
      OBVIOUS
    <3>r. r \in Seq(Frames) /\ CommandsBetween(r, c, high)
      BY <3>1, <3>2
    <3>3. CommandsBetween(r, c, higher)
      BY <2>1, <3>0, <3>r, CommandsBetweenGrows
    <3>4. c \in Nat
      BY <2>0, <3>0, <3>1
    <3> QED
      BY <2>0, <2>1, <2>5, <3>0, <3>1, <3>2, <3>3, <3>4
  <2>6. ASSUME NEW f \in Frames, down'[s] = Append(down[s], f), indicated'[s] = indicated[s],
               f.fc = "USER_DATA_CONFIRMED" => f.command = Latest(s)
        PROVE  CommandsBetween(down'[s], indicated'[s], Latest(s)')
    <3>1. CommandsBetween(Append(down[s], f), indicated[s], high) /\ Append(down[s], f) \in Seq(Frames)
      BY <2>0, <2>1, <2>2, <2>6, CommandsBetweenAppend, AppendIndex
    <3>2. PICK r : r = Append(down[s], f)
      OBVIOUS
    <3>r. r \in Seq(Frames) /\ CommandsBetween(r, indicated[s], high)
      BY <3>1, <3>2
    <3>3. CommandsBetween(r, indicated[s], higher)
      BY <2>1, <2>2, <3>r, CommandsBetweenGrows
    <3> QED
      BY <2>1, <2>6, <3>2, <3>3
  <2> QED
    BY <2>0, <2>3, <2>4, <2>5, <2>6, CommandStepsOfSlaves DEF CommandStep
<1>2. indicated' \in [Slaves -> Nat]
  BY <1>1, CommandStepsOfSlaves
<1> QED
  BY <1>1, <1>2 DEF CommandsOK

-----------------------------------------------------------------------------
(* The order of arrival: data                                              *)

(* The answer hands an ASDU of a class of the slave to the master.         *)
DataOf(a, s, c) == a.fc = "RESP_USER_DATA" /\ a.from = s /\ a.asdu[1] = c

(* Data comes from a slave, and is an ASDU or what was never written.      *)
DataAnswer(a) ==
  a.fc = "RESP_USER_DATA" => a.from \in Slaves /\ (a.asdu = Garbage \/ a.asdu \in Classes \X Nat)

(* The ASDUs of the class in a sequence of answers are in order and        *)
(* between the two.                                                        *)
DataBetween(q, s, c, low, high) ==
  /\ low <= high
  /\ \A i \in 1..Len(q) : DataOf(q[i], s, c) =>
       /\ low <= q[i].asdu[2] /\ q[i].asdu[2] <= high
       /\ \A j \in 1..(i - 1) : DataOf(q[j], s, c) => q[j].asdu[2] <= q[i].asdu[2]

(* The last ASDU of a class that the slave may have sent: it sends what is *)
(* in its buffer, and what it has put there before has left the queue.     *)
Handed(s, c) == IF userData[s][1] = c THEN userData[s][2] ELSE Gone(s, c)

(* No ASDU under way to the master is older than the last one of its class *)
(* that the master's application got from the slave, and none is newer     *)
(* than what the slave may have sent.                                      *)
DataOK ==
  /\ received \in [Slaves -> [Classes -> Nat]]
  /\ \A i \in 1..Len(up) : DataAnswer(up[i])
  /\ \A s \in Slaves, c \in Classes : DataBetween(up, s, c, received[s][c], Handed(s, c))

(* The ASDUs of answers are numbered.                                      *)
LEMMA AnswerNumbers ==
  ASSUME NEW q \in Seq(Answers)
  PROVE  \A i \in 1..Len(q) : q[i].asdu[2] \in Int
<1> SUFFICES ASSUME NEW i \in 1..Len(q)
             PROVE  q[i].asdu[2] \in Int
  OBVIOUS
<1>1. PICK f \in Answers : f = q[i]
  OBVIOUS
<1>2. f.asdu \in Int \X Int
  BY DEF Answers, Elements
<1> QED
  BY <1>1, <1>2

(* The bound may grow.                                                     *)
LEMMA DataBetweenGrows ==
  ASSUME NEW q \in Seq(Answers), NEW s, NEW c, NEW low \in Int, NEW high \in Int, NEW higher \in Int,
         DataBetween(q, s, c, low, high), high <= higher
  PROVE  DataBetween(q, s, c, low, higher)
<1>1. \A i \in 1..Len(q) : q[i].asdu[2] \in Int
  BY AnswerNumbers
<1> QED
  BY <1>1 DEF DataBetween

(* The answers behind the first one are no older than it.                  *)
LEMMA DataBetweenTail ==
  ASSUME NEW q \in Seq(Answers), NEW s, NEW c, NEW low \in Int, NEW high \in Int, q # <<>>,
         DataBetween(q, s, c, low, high)
  PROVE  /\ DataBetween(Tail(q), s, c, low, high)
         /\ DataOf(q[1], s, c) =>
              low <= q[1].asdu[2] /\ DataBetween(Tail(q), s, c, q[1].asdu[2], high)
<1>1. /\ Len(Tail(q)) = Len(q) - 1 /\ Len(q) \in Nat \ {0}
      /\ \A i \in 1..Len(Tail(q)) : Tail(q)[i] = q[i + 1]
  BY TailIndex
<1>2. /\ 1 \in 1..Len(q) /\ low <= high
      /\ \A i \in 1..Len(q) : q[i].asdu[2] \in Int
      /\ \A i \in 1..Len(q) : DataOf(q[i], s, c) =>
           /\ low <= q[i].asdu[2] /\ q[i].asdu[2] <= high
           /\ \A j \in 1..(i - 1) :
                DataOf(q[j], s, c) => q[j].asdu[2] <= q[i].asdu[2]
  BY <1>1, AnswerNumbers DEF DataBetween
<1>3. ASSUME NEW i \in 1..Len(Tail(q)), DataOf(Tail(q)[i], s, c)
      PROVE  /\ low <= Tail(q)[i].asdu[2] /\ Tail(q)[i].asdu[2] <= high
             /\ DataOf(q[1], s, c) => q[1].asdu[2] <= Tail(q)[i].asdu[2]
             /\ \A j \in 1..(i - 1) :
                  DataOf(Tail(q)[j], s, c) => Tail(q)[j].asdu[2] <= Tail(q)[i].asdu[2]
  <2>1. PICK k \in 1..Len(q) : k = i + 1 /\ Tail(q)[i] = q[k] /\ 1 \in 1..(k - 1)
    BY <1>1
  <2>2. /\ low <= q[k].asdu[2] /\ q[k].asdu[2] <= high
        /\ \A j \in 1..(k - 1) :
             DataOf(q[j], s, c) => q[j].asdu[2] <= q[k].asdu[2]
    BY <1>2, <1>3, <2>1
  <2>3. ASSUME NEW j \in 1..(i - 1), DataOf(Tail(q)[j], s, c)
        PROVE  Tail(q)[j].asdu[2] <= Tail(q)[i].asdu[2]
    <3>1. PICK m \in 1..(k - 1) : m = j + 1 /\ Tail(q)[j] = q[m]
      BY <1>1, <2>1
    <3> QED
      BY <2>1, <2>2, <2>3, <3>1
  <2> QED
    BY <2>1, <2>2, <2>3
<1>4. DataBetween(Tail(q), s, c, low, high)
  BY <1>2, <1>3 DEF DataBetween
<1>5. ASSUME DataOf(q[1], s, c)
      PROVE  low <= q[1].asdu[2] /\ DataBetween(Tail(q), s, c, q[1].asdu[2], high)
  <2>1. low <= q[1].asdu[2] /\ q[1].asdu[2] <= high
    BY <1>2, <1>5
  <2> QED
    BY <1>3, <1>5, <2>1 DEF DataBetween
<1> QED
  BY <1>4, <1>5

(* The answer that is appended may be the newest one.                      *)
LEMMA DataBetweenAppend ==
  ASSUME NEW q \in Seq(Answers), NEW s, NEW c, NEW low \in Int, NEW high \in Int, NEW f \in Answers,
         DataBetween(q, s, c, low, high), DataOf(f, s, c) => f.asdu[2] = high
  PROVE  DataBetween(Append(q, f), s, c, low, high)
<1>1. PICK r : r = Append(q, f)
  OBVIOUS
<1>2. /\ Len(r) = Len(q) + 1 /\ Len(q) \in Nat
      /\ \A i \in 1..Len(q) : r[i] = q[i]
      /\ r[Len(q) + 1] = f
  BY <1>1, AppendIndex
<1>3. low <= high /\ \A i \in 1..Len(q) : DataOf(q[i], s, c) =>
           /\ low <= q[i].asdu[2] /\ q[i].asdu[2] <= high
           /\ \A j \in 1..(i - 1) :
                DataOf(q[j], s, c) => q[j].asdu[2] <= q[i].asdu[2]
  BY DEF DataBetween
<1>4. ASSUME NEW i \in 1..Len(r), DataOf(r[i], s, c)
      PROVE  /\ low <= r[i].asdu[2] /\ r[i].asdu[2] <= high
             /\ \A j \in 1..(i - 1) :
                  DataOf(r[j], s, c) => r[j].asdu[2] <= r[i].asdu[2]
  <2>1. CASE i \in 1..Len(q)
    <3>1. \A j \in 1..(i - 1) : j \in 1..Len(q) /\ r[j] = q[j]
      BY <1>2, <2>1
    <3> QED
      BY <1>2, <1>3, <1>4, <2>1, <3>1
  <2>2. CASE i = Len(q) + 1
    <3>1. r[i].asdu[2] = high
      BY <1>2, <1>4, <2>2
    <3>2. \A j \in 1..(i - 1) : j \in 1..Len(q) /\ r[j] = q[j]
      BY <1>2, <2>2
    <3> QED
      BY <1>3, <3>1, <3>2
  <2> QED
    BY <1>2, <2>1, <2>2
<1> QED
  BY <1>1, <1>3, <1>4 DEF DataBetween


(* A slave has sent no ASDU that has not left its queue, and what it may   *)
(* have sent only grows: it puts the next one into its buffer, or loses    *)
(* some.                                                                   *)
LEMMA HandedGrows ==
  ASSUME BoundsOK, QueuesOK, [Next]_vars, NEW s \in Slaves, NEW c \in Classes
  PROVE  Handed(s, c) \in Nat /\ Handed(s, c)' \in Nat /\ Handed(s, c) <= Handed(s, c)'
<1>1. PICK g \in Nat, g2 \in Nat : g = Gone(s, c) /\ g2 = Gone(s, c)' /\ g <= g2
  BY QueuesHold
<1>2. PICK h : h = Handed(s, c)
  OBVIOUS
<1>3. h \in Nat /\ h <= g
  <2>1. CASE userData[s][1] = c
    <3>1. userData[s] \notin {NoAsdu, Garbage}
      BY <2>1 DEF NoAsdu, Garbage, Classes
    <3>2. PICK d \in Classes : \E k \in 1..Gone(s, d) : userData[s] = <<d, k>>
      BY <3>1 DEF QueuesOK
    <3>3. PICK k \in 1..Gone(s, d) : userData[s] = <<d, k>>
      BY <3>2
    <3>4. d = c /\ h = k
      BY <1>2, <2>1, <3>3 DEF Handed
    <3>5. k \in 1..g
      BY <1>1, <3>4
    <3> QED
      BY <1>1, <3>4, <3>5
  <2>2. CASE userData[s][1] # c
    BY <1>1, <1>2, <2>2 DEF Handed
  <2> QED
    BY <2>1, <2>2
<1>4. Handed(s, c)' = IF userData'[s][1] = c THEN userData'[s][2] ELSE g2
  BY <1>1 DEF Handed
<1>5. CASE userData'[s] = userData[s]
  BY <1>1, <1>2, <1>3, <1>4, <1>5 DEF Handed
<1>6. CASE userData'[s] \in {NoAsdu, Garbage}
  <2>1. userData'[s][1] # c
    BY <1>6 DEF NoAsdu, Garbage, Classes
  <2> QED
    BY <1>1, <1>2, <1>3, <1>4, <2>1
<1>7. ASSUME NEW d \in Classes, userData'[s] = <<d, Gone(s, d) + 1>>, Gone(s, d)' = Gone(s, d) + 1
      PROVE  Handed(s, c)' \in Nat /\ h <= Handed(s, c)'
  <2>1. CASE d = c
    <3>1. Handed(s, c)' = g + 1
      BY <1>1, <1>4, <1>7, <2>1
    <3> QED
      BY <1>3, <3>1
  <2>2. CASE d # c
    <3>1. Handed(s, c)' = g2
      BY <1>4, <1>7, <2>2
    <3> QED
      BY <1>1, <1>3, <3>1
  <2> QED
    BY <2>1, <2>2
<1> QED
  BY <1>2, <1>3, <1>5, <1>6, <1>7, BufferSteps

(* What a step does to the data under way to the master and to the         *)
(* master's application: the first answer is taken, and with it may go its *)
(* ASDU; an answer is added, with what the slave has in its buffer; or     *)
(* neither.                                                                *)
DataStep(s, c) ==
  \/ up' = up /\ received'[s][c] = received[s][c]
  \/ /\ up # <<>> /\ up' = Tail(up)
     /\ \/ received'[s][c] = received[s][c]
        \/ DataOf(up[1], s, c) /\ received'[s][c] = up[1].asdu[2]
  \/ \E a \in Answers :
       /\ up' = Append(up, a) /\ received'[s][c] = received[s][c]
       /\ DataAnswer(a) /\ (DataOf(a, s, c) => a.asdu[2] = Handed(s, c)')

(* The master hands no more than the ASDU of the first answer to its       *)
(* application.                                                            *)
LEMMA HandlesReceive ==
  ASSUME NEW s \in Slaves, Handles(s)
  PROVE  \/ received' = received
         \/ /\ Head(up).fc = "RESP_USER_DATA" /\ answering = s /\ Head(up).asdu # Garbage
            /\ received' = [received EXCEPT ![s][Head(up).asdu[1]] = Head(up).asdu[2]]
<1>1. CASE HandleUserData(s)
  BY <1>1 DEF HandleUserData, UserData, ReadAnswer
<1>2. CASE ~HandleUserData(s)
  BY <1>2 DEF Handles, HandleDFC, HandleAck, HandleOtherAck, HandleNack, HandleStatusOfLink,
     HandleNoData, HandleUnexpectedData, HandleServiceNotImplemented, history
<1> QED
  BY <1>1, <1>2

(* The answer that a slave sends has data only from its buffer.            *)
LEMMA AnswerHasHanded ==
  ASSUME BoundsOK', QueuesOK', NEW t \in Slaves, NEW a, Answered(t, a)
  PROVE  /\ a \in Answers /\ DataAnswer(a)
         /\ \A s \in Slaves, c \in Classes : DataOf(a, s, c) => a.asdu[2] = Handed(s, c)'
<1>1. /\ a \in Answers
      /\ a.fc = "RESP_USER_DATA" => a.from = t /\ a.asdu = userData'[t] /\ a.asdu # NoAsdu
  BY DEF Answered
<1>2. DataAnswer(a)
  <2>1. CASE a.fc = "RESP_USER_DATA"
    <3>1. userData'[t] \in AsdusOf(t)' \cup {NoAsdu, Garbage}
      BY NextBufferType
    <3>2. \A c \in Classes : scenario'.asdus[t][c] \in Nat
      BY DEF BoundsOK, Scenario
    <3>3. AsdusOf(t)' \subseteq Classes \X Nat
      BY <3>2 DEF AsdusOf
    <3> QED
      BY <1>1, <2>1, <3>1, <3>3 DEF DataAnswer
  <2> QED
    BY <2>1 DEF DataAnswer
<1>3. ASSUME NEW s \in Slaves, NEW c \in Classes, DataOf(a, s, c)
      PROVE  a.asdu[2] = Handed(s, c)'
  BY <1>1, <1>3 DEF DataOf, Handed
<1> QED
  BY <1>1, <1>2, <1>3

(* Every step is one of these for every slave and class.                   *)
LEMMA DataSteps ==
  ASSUME IInv, DataOK, IInv', [Next]_vars
  PROVE  /\ received' = [s \in Slaves |-> received'[s]]
         /\ \A s \in Slaves : received'[s] = [c \in Classes |-> received'[s][c]]
         /\ \A s \in Slaves, c \in Classes : DataStep(s, c)
<1>0. /\ received \in [Slaves -> [Classes -> Nat]] /\ up \in Seq(Answers)
      /\ BoundsOK' /\ QueuesOK'
  BY DEF DataOK, IInv, LineOK
<1>a. /\ received = [s \in Slaves |-> received[s]]
      /\ \A s \in Slaves : received[s] = [c \in Classes |-> received[s][c]]
  BY <1>0
<1>1. CASE UNCHANGED <<up, received>>
  BY <1>a, <1>1 DEF DataStep
<1>2. CASE UNCHANGED vars \/ SendBroadcast \/ RunBroadcast
  BY <1>1, <1>2 DEF vars, SendBroadcast, RunBroadcast, history
<1>3. CASE Lose
  <2>1. (up' = up \/ (up # <<>> /\ up' = Tail(up))) /\ received' = received
    BY <1>3 DEF Lose, history
  <2> QED
    BY <1>a, <2>1 DEF DataStep
<1>4. ASSUME NEW s \in Slaves, Handles(s)
      PROVE  /\ received' = [t \in Slaves |-> received'[t]]
             /\ \A t \in Slaves : received'[t] = [c \in Classes |-> received'[t][c]]
             /\ \A t \in Slaves, c \in Classes : DataStep(t, c)
  <2>1. up # <<>> /\ up' = Tail(up)
    BY <1>4, HandlesFrame
  <2>2. Head(up) = up[1] /\ 1 \in 1..Len(up)
    BY <1>0, <2>1, TailIndex
  <2>3. CASE received' = received
    BY <1>a, <2>1, <2>3 DEF DataStep
  <2>4. CASE /\ up[1].fc = "RESP_USER_DATA" /\ answering = s /\ up[1].asdu # Garbage
             /\ received' = [received EXCEPT ![s][up[1].asdu[1]] = up[1].asdu[2]]
    <3>1. up[1].from \in Slaves /\ up[1].asdu \in Classes \X Nat
      BY <2>2, <2>4 DEF DataOK, DataAnswer
    <3>2. up[1].from = s
      <4>1. NoSlave \notin Slaves
        BY UnbalancedAssumption DEF Slaves, NoSlave
      <4> QED
        BY <2>2, <2>4, <3>1, <4>1 DEF answering
    <3>3. PICK d \in Classes, k \in Nat : up[1].asdu[1] = d /\ up[1].asdu[2] = k
      BY <3>1
    <3>4. received' = [received EXCEPT ![s] = [received[s] EXCEPT ![d] = k]]
      BY <2>4, <3>3
    <3>5. received' \in [Slaves -> [Classes -> Nat]]
      BY <1>0, <3>4
    <3>6. ASSUME NEW t \in Slaves, NEW c \in Classes
          PROVE  DataStep(t, c)
      <4>1. CASE t = s /\ c = d
        <5>1. received'[t][c] = k
          BY <1>0, <3>4, <4>1
        <5>2. DataOf(up[1], t, c)
          BY <2>4, <3>2, <3>3, <4>1 DEF DataOf
        <5> QED
          BY <2>1, <3>3, <5>1, <5>2 DEF DataStep
      <4>2. CASE ~(t = s /\ c = d)
        <5>1. received'[t][c] = received[t][c]
          BY <1>0, <3>4, <4>2
        <5> QED
          BY <2>1, <5>1 DEF DataStep
      <4> QED
        BY <4>1, <4>2
    <3> QED
      BY <3>5, <3>6
  <2> QED
    BY <1>4, <2>2, <2>3, <2>4, HandlesReceive
<1>5. ASSUME NEW s \in Slaves, Runs(s)
      PROVE  UNCHANGED <<up, received>>
  BY <1>5, RunsFrame
<1>6. ASSUME NEW s \in Slaves, Answering(s)
      PROVE  received' = received /\ \A t \in Slaves, c \in Classes : DataStep(t, c)
  <2>1. received' = received
    BY <1>6, AnsweringFrame
  <2>2. userData'[s] \in Elements
    BY <1>0, NextBufferType
  <2>3. ASSUME NEW a, up' = Append(up, a), Answered(s, a)
        PROVE  \A t \in Slaves, c \in Classes : DataStep(t, c)
    <3>1. /\ a \in Answers /\ DataAnswer(a)
          /\ \A t \in Slaves, c \in Classes : DataOf(a, t, c) => a.asdu[2] = Handed(t, c)'
      BY <1>0, <2>3, AnswerHasHanded
    <3> QED
      BY <2>1, <2>3, <3>1 DEF DataStep
  <2>4. CASE up' = up
    BY <2>1, <2>4 DEF DataStep
  <2> QED
    BY <1>6, <2>1, <2>2, <2>3, <2>4, AnswerSent
<1>7. ASSUME NEW s \in Slaves, RestartSlave(s)
      PROVE  UNCHANGED <<up, received>>
  BY <1>7 DEF RestartSlave, history
<1>8. ASSUME NEW s \in Slaves, User(s)
      PROVE  UNCHANGED <<up, received>>
  BY <1>8, UserFrame
<1>9. CASE \E s \in Slaves : Answering(s)
  <2>1. received' = received /\ \A t \in Slaves, c \in Classes : DataStep(t, c)
    BY <1>6, <1>9
  <2> QED
    BY <1>a, <2>1
<1> QED
  BY <1>1, <1>2, <1>3, <1>4, <1>5, <1>7, <1>8, <1>9, Steps

(* DataOK is kept, and no ASDU of a class is handed to the application     *)
(* after a newer one.                                                      *)
LEMMA DataKept ==
  ASSUME IInv, DataOK, IInv', [Next]_vars
  PROVE  DataOK' /\ \A s \in Slaves, c \in Classes : received'[s][c] >= received[s][c]
<1>0. /\ up \in Seq(Answers) /\ BoundsOK /\ QueuesOK
      /\ received \in [Slaves -> [Classes -> Nat]]
      /\ \A i \in 1..Len(up) : DataAnswer(up[i])
  BY DEF IInv, LineOK, DataOK
<1>1. ASSUME NEW s \in Slaves, NEW c \in Classes
      PROVE  /\ DataBetween(up', s, c, received'[s][c], Handed(s, c)')
             /\ received'[s][c] \in Nat /\ received'[s][c] >= received[s][c]
  <2>0. PICK low \in Nat : low = received[s][c]
    BY <1>0
  <2>1. PICK high \in Nat, higher \in Nat :
          high = Handed(s, c) /\ higher = Handed(s, c)' /\ high <= higher
    BY <1>0, HandedGrows
  <2>2. DataBetween(up, s, c, low, high)
    BY <2>0, <2>1 DEF DataOK
  <2>3. CASE up' = up /\ received'[s][c] = received[s][c]
    <3>1. DataBetween(up, s, c, low, higher)
      BY <1>0, <2>1, <2>2, DataBetweenGrows
    <3> QED
      BY <2>0, <2>1, <2>3, <3>1
  <2>4. CASE up # <<>> /\ up' = Tail(up)
    <3>1. PICK r : r = Tail(up)
      OBVIOUS
    <3>2. /\ r \in Seq(Answers) /\ DataBetween(r, s, c, low, high)
          /\ DataOf(up[1], s, c) =>
               low <= up[1].asdu[2] /\ DataBetween(r, s, c, up[1].asdu[2], high)
          /\ 1 \in 1..Len(up)
      BY <1>0, <2>2, <2>4, <3>1, DataBetweenTail, TailIndex
    <3>3. CASE received'[s][c] = received[s][c]
      <4>1. DataBetween(r, s, c, low, higher)
        BY <2>1, <3>2, DataBetweenGrows
      <4> QED
        BY <2>0, <2>1, <2>4, <3>1, <3>3, <4>1
    <3>4. CASE DataOf(up[1], s, c) /\ received'[s][c] = up[1].asdu[2]
      <4>1. PICK k \in Int : k = up[1].asdu[2]
        BY <1>0, <3>2, AnswerNumbers
      <4>2. low <= k /\ DataBetween(r, s, c, k, high)
        BY <3>2, <3>4, <4>1
      <4>3. DataBetween(r, s, c, k, higher)
        BY <2>1, <3>2, <4>2, DataBetweenGrows
      <4>4. k \in Nat
        BY <4>2
      <4> QED
        BY <2>0, <2>1, <2>4, <3>1, <3>4, <4>1, <4>2, <4>3, <4>4
    <3>5. CASE ~(received'[s][c] = received[s][c])
               /\ ~(DataOf(up[1], s, c) /\ received'[s][c] = up[1].asdu[2])
      <4>1. PICK a \in Answers : up' = Append(up, a) /\ received'[s][c] = received[s][c]
        BY <1>1, <2>4, <3>5, DataSteps DEF DataStep
      <4> QED
        BY <3>5, <4>1
    <3> QED
      BY <3>3, <3>4, <3>5
  <2>5. ASSUME NEW a \in Answers, up' = Append(up, a), received'[s][c] = received[s][c],
               DataOf(a, s, c) => a.asdu[2] = Handed(s, c)'
        PROVE  /\ DataBetween(up', s, c, received'[s][c], Handed(s, c)')
               /\ received'[s][c] \in Nat /\ received'[s][c] >= received[s][c]
    <3>1. DataBetween(up, s, c, low, higher)
      BY <1>0, <2>1, <2>2, DataBetweenGrows
    <3>2. PICK r : r = Append(up, a)
      OBVIOUS
    <3>3. DataBetween(r, s, c, low, higher)
      BY <1>0, <2>1, <2>5, <3>1, <3>2, DataBetweenAppend
    <3> QED
      BY <2>0, <2>1, <2>5, <3>2, <3>3
  <2> QED
    BY <2>3, <2>4, <2>5, DataSteps DEF DataStep
<1>2. received' \in [Slaves -> [Classes -> Nat]]
  <2>1. ASSUME NEW s \in Slaves
        PROVE  received'[s] \in [Classes -> Nat]
    BY <1>1, DataSteps
  <2> QED
    BY <2>1, DataSteps
<1>3. \A i \in 1..Len(up') : DataAnswer(up'[i])
  <2>0. PICK s \in Slaves, c \in Classes : TRUE
    BY UnbalancedAssumption DEF Slaves, Classes
  <2>1. DataStep(s, c)
    BY DataSteps
  <2>2. CASE up' = up
    BY <1>0, <2>2
  <2>3. CASE up # <<>> /\ up' = Tail(up)
    <3>1. /\ Len(Tail(up)) = Len(up) - 1 /\ Len(up) \in Nat \ {0}
          /\ \A i \in 1..Len(Tail(up)) : Tail(up)[i] = up[i + 1]
      BY <1>0, <2>3, TailIndex
    <3>2. ASSUME NEW i \in 1..Len(up')
          PROVE  i + 1 \in 1..Len(up) /\ up'[i] = up[i + 1]
      BY <2>3, <3>1
    <3> QED
      BY <1>0, <3>2
  <2>4. ASSUME NEW a \in Answers, up' = Append(up, a), DataAnswer(a)
        PROVE  \A i \in 1..Len(up') : DataAnswer(up'[i])
    <3>1. /\ Len(up') = Len(up) + 1 /\ Len(up) \in Nat
          /\ \A i \in 1..Len(up) : up'[i] = up[i]
          /\ up'[Len(up) + 1] = a
      BY <1>0, <2>4, AppendIndex
    <3>2. ASSUME NEW i \in 1..Len(up')
          PROVE  DataAnswer(up'[i])
      <4>1. CASE i \in 1..Len(up)
        BY <1>0, <3>1, <4>1
      <4>2. CASE i = Len(up) + 1
        BY <2>4, <3>1, <4>2
      <4> QED
        BY <3>1, <4>1, <4>2
    <3> QED
      BY <3>2
  <2> QED
    BY <2>1, <2>2, <2>3, <2>4 DEF DataStep
<1>4. \A s \in Slaves, c \in Classes : DataBetween(up', s, c, received'[s][c], Handed(s, c)')
  BY <1>1
<1>5. DataOK'
  BY <1>2, <1>3, <1>4 DEF DataOK
<1> QED
  BY <1>1, <1>5

(* The invariant for the order of arrival.                                 *)
OInv == IInv /\ CommandsOK /\ DataOK

(* The initial states satisfy it.                                          *)
LEMMA InitOInv ==
  ASSUME Init
  PROVE  OInv
<1>1. IInv /\ BoundsOK /\ QueuesOK
  BY InitIInv DEF IInv
<1>2. /\ indicated = [s \in Slaves |-> 0] /\ received = [s \in Slaves |-> [c \in Classes |-> 0]]
      /\ up = <<>> /\ Len(up) = 0 /\ \A s \in Slaves : down[s] = <<>> /\ Len(down[s]) = 0
  BY DEF Init, NoCommand
<1>3. CommandsOK
  <2>1. ASSUME NEW s \in Slaves
        PROVE  CommandsBetween(down[s], indicated[s], Latest(s))
    <3>1. Latest(s) \in Nat
      BY <1>1 DEF Latest, BoundsOK
    <3>2. indicated[s] = 0 /\ 1..Len(down[s]) = {}
      BY <1>2
    <3> QED
      BY <3>1, <3>2 DEF CommandsBetween
  <2> QED
    BY <1>2, <2>1 DEF CommandsOK
<1>4. DataOK
  <2>1. ASSUME NEW s \in Slaves, NEW c \in Classes
        PROVE  DataBetween(up, s, c, received[s][c], Handed(s, c))
    <3>1. Handed(s, c) = 0
      <4>1. userData[s] = Garbage /\ queue[s] = EmptyQueues /\ enqueued[s][c] = 0
        BY DEF Init
      <4>2. EmptyQueues[c].entryCounter = 0
        BY EmptyQueuesHold
      <4>3. userData[s][1] # c
        BY <4>1 DEF Garbage, Classes
      <4> QED
        BY <4>1, <4>2, <4>3 DEF Handed, Gone
    <3>2. received[s][c] = 0 /\ 1..Len(up) = {}
      BY <1>2
    <3> QED
      BY <3>1, <3>2 DEF DataBetween
  <2>2. 1..Len(up) = {}
    BY <1>2
  <2> QED
    BY <1>2, <2>1, <2>2 DEF DataOK
<1> QED
  BY <1>1, <1>3, <1>4 DEF OInv

(* A step hands nothing to an application after something newer.           *)
LEMMA NextArrives ==
  ASSUME OInv, [Next]_vars
  PROVE  /\ OInv'
         /\ \A s \in Slaves : /\ indicated'[s] >= indicated[s]
                              /\ \A c \in Classes : received'[s][c] >= received[s][c]
<1>1. IInv' /\ IInv /\ CommandsOK /\ DataOK
  BY NextIInv DEF OInv
<1>2. CommandsOK' /\ \A s \in Slaves : indicated'[s] >= indicated[s]
  BY <1>1, CommandsKept
<1>3. DataOK' /\ \A s \in Slaves, c \in Classes : received'[s][c] >= received[s][c]
  BY <1>1, DataKept
<1> QED
  BY <1>1, <1>2, <1>3 DEF OInv

(* Commands, and the ASDUs of a class, arrive in the order in which they   *)
(* were accepted, whatever is lost, late, refused or restarted, and        *)
(* whether or not the master is in step.                                   *)
THEOREM InOrder == Spec => ArriveInOrder
<1>1. Init => OInv
  BY InitOInv
<1>2. OInv /\ [Next]_vars => OInv'
  BY NextArrives
<1>3. OInv /\ [Next]_vars =>
        [\A s \in Slaves : /\ indicated'[s] >= indicated[s]
                           /\ \A c \in Classes : received'[s][c] >= received[s][c]]_vars
  BY NextArrives
<1> QED
  BY <1>1, <1>2, <1>3, PTL DEF Spec, ArriveInOrder

-----------------------------------------------------------------------------
(* What a reset or a restart costs                                         *)

One(b) == IF b THEN 1 ELSE 0

(* The FCB that the master sends next is the one that the slave expects.   *)
InPhase(s) == nextFcb[s] = expectedFcb[s]

(* The next numbered frame of the master begins a new exchange: the link   *)
(* is available, or the answer that makes it so is under way.              *)
Concluded(s) ==
  \/ primaryState[s] = "LINK_LAYERS_AVAILABLE"
  \/ up # <<>> /\ primaryState[s] \in {"RESET_REMOTE_LINK", "SEND_CONFIRM", "REQUEST_RESPOND"}

(* The slave will take the next command for a repetition, or has taken the *)
(* one that it acknowledges for one.                                       *)
ToSkip(s) == Concluded(s) /\ ~InPhase(s)
Skipped(s) ==
  /\ primaryState[s] = "SEND_CONFIRM" /\ indicated[s] # nextMessage[s]
  /\ InPhase(s) \/ up # <<>>

SkipDebt(s) == One(ToSkip(s)) + One(Skipped(s))

(* The slave will take the command in the buffer for a new one, although   *)
(* its application has got it.                                             *)
ToRepeat(s) ==
  /\ nextMessage[s] # NoCommand /\ nextMessage[s] = indicated[s]
  /\ \/ primaryState[s] = "LINK_LAYERS_AVAILABLE" /\ InPhase(s)
     \/ primaryState[s] = "RESET_REMOTE_LINK" /\ up # <<>> /\ InPhase(s)
     \/ primaryState[s] = "SEND_CONFIRM" /\ ~InPhase(s)
     \/ primaryState[s] = "REQUEST_RESPOND"

(* The master's application has got the ASDU, or nobody has written it.    *)
Stale(s, a) == a = Garbage \/ (a # NoAsdu /\ a[2] = received[s][a[1]])

StaleAnswer(s) == up # <<>> /\ up[1].fc = "RESP_USER_DATA" /\ Stale(s, up[1].asdu)

(* The slave will answer the next request with such an ASDU, or does; if   *)
(* it lost its memory after it answered, it may do both.                   *)
StaleDebt(s) ==
  IF primaryState[s] # "REQUEST_RESPOND"
  THEN One(Concluded(s) /\ ~InPhase(s) /\ Stale(s, userData[s]))
  ELSE IF up = <<>> THEN One(InPhase(s) /\ Stale(s, userData[s]))
  ELSE IF InPhase(s) THEN One(StaleAnswer(s) \/ Stale(s, userData[s]))
  ELSE One(StaleAnswer(s)) + 1

(* What has gone wrong and what will was paid for by resets and restarts.  *)
Covered(s, count, debt) ==
  resets[s] < MaxCount => count[s] + debt <= resets[s] + faults["restart"]

Covers(s) ==
  /\ Covered(s, notIndicated, SkipDebt(s))
  /\ Covered(s, indicatedAgain, One(ToRepeat(s)))
  /\ Covered(s, receivedAgain, StaleDebt(s))

(* A numbered frame under way has the FCB of the exchange that the master  *)
(* is in, and a command is the one in the buffer.                          *)
Numbered == {"USER_DATA_CONFIRMED", "REQUEST_USER_DATA_CLASS_1", "REQUEST_USER_DATA_CLASS_2"}

Current(f, fcb, c) ==
  /\ f.fcv = TRUE /\ f.fcb = ~fcb
  /\ f.fc = "USER_DATA_CONFIRMED" => f.command = c

RequestsOn(q, fcb, c) == \A i \in 1..Len(q) : q[i].fc \in Numbered => Current(q[i], fcb, c)

RequestsNow == \A s \in Slaves : RequestsOn(down[s], nextFcb[s], nextMessage[s])

CountsOK ==
  /\ notIndicated \in [Slaves -> Nat] /\ indicatedAgain \in [Slaves -> Nat]
  /\ receivedAgain \in [Slaves -> Nat] /\ resets \in [Slaves -> Nat]

DInv ==
  OInv /\ CountsOK /\ (~OutOfStep => RequestsNow /\ \A s \in Slaves : Covers(s))

-----------------------------------------------------------------------------
(* What a step does to one slave, while the master is in step              *)

PhaseKept(s) == nextFcb'[s] = nextFcb[s] /\ expectedFcb'[s] = expectedFcb[s]
CommandKept(s) ==
  /\ nextMessage'[s] = nextMessage[s] /\ indicated'[s] = indicated[s]
  /\ indicatedAgain'[s] = indicatedAgain[s] /\ notIndicated'[s] = notIndicated[s]
DataSame(s) ==
  /\ userData'[s] = userData[s] /\ received'[s] = received[s]
  /\ receivedAgain'[s] = receivedAgain[s]
CostSame(s) == resets'[s] = resets[s] /\ faults'["restart"] = faults["restart"]

(* Nothing. *)
Untouched(s) ==
  /\ PhaseKept(s) /\ CommandKept(s) /\ DataSame(s)
  /\ resets'[s] = resets[s] /\ faults'["restart"] >= faults["restart"]
  /\ primaryState'[s] = primaryState[s]
  /\ primaryState[s] \in Asking => up' = up \/ up' = <<>> \/ primaryState[s] = "REQUEST_STATUS"

(* The slave loses its memory. *)
Forgets(s) ==
  /\ nextFcb'[s] = nextFcb[s] /\ CommandKept(s) /\ expectedFcb'[s] = TRUE
  /\ userData'[s] = Garbage /\ received'[s] = received[s] /\ receivedAgain'[s] = receivedAgain[s]
  /\ resets'[s] = resets[s] /\ faults'["restart"] = faults["restart"] + 1
  /\ primaryState'[s] = primaryState[s] /\ up' = up

(* The master leaves the link, or sends a reset. *)
Leaves(s) ==
  /\ PhaseKept(s) /\ CommandKept(s) /\ DataSame(s) /\ CostSame(s)
  /\ \/ primaryState'[s] \in {"IDLE", "TIMEOUT", "REQUEST_STATUS"}
     \/ primaryState'[s] = "RESET_REMOTE_LINK" /\ up' = <<>>

(* The exchange ends. *)
Ended(s) ==
  up # <<>> /\ up' = <<>> /\ primaryState'[s] = "LINK_LAYERS_AVAILABLE" /\ PhaseKept(s) /\ CostSame(s)

EndsEmpty(s) ==
  /\ Ended(s) /\ primaryState[s] \in {"RESET_REMOTE_LINK", "REQUEST_RESPOND"}
  /\ CommandKept(s) /\ DataSame(s)

EndsConfirmed(s) ==
  /\ Ended(s) /\ primaryState[s] = "SEND_CONFIRM" /\ DataSame(s)
  /\ nextMessage'[s] = NoCommand /\ indicated'[s] = indicated[s]
  /\ indicatedAgain'[s] = indicatedAgain[s]
  /\ notIndicated'[s] <= notIndicated[s] + One(indicated[s] # nextMessage[s])

EndsWithData(s) ==
  /\ Ended(s) /\ primaryState[s] = "REQUEST_RESPOND" /\ up[1].fc = "RESP_USER_DATA"
  /\ CommandKept(s) /\ userData'[s] = userData[s]
  /\ receivedAgain'[s] <= receivedAgain[s] + One(StaleAnswer(s))

(* A new exchange begins. *)
Begins(s) ==
  /\ up = <<>> /\ up' = <<>> /\ primaryState[s] = "LINK_LAYERS_AVAILABLE"
  /\ nextFcb'[s] = ~nextFcb[s] /\ expectedFcb'[s] = expectedFcb[s]
  /\ CommandKept(s) /\ DataSame(s) /\ CostSame(s)
  /\ \/ primaryState'[s] = "SEND_CONFIRM" /\ nextMessage[s] # NoCommand
     \/ primaryState'[s] = "REQUEST_RESPOND" /\ nextMessage[s] = NoCommand

(* The slave answers. *)
Replies(s) ==
  /\ up = <<>> /\ primaryState'[s] = primaryState[s] /\ nextFcb'[s] = nextFcb[s]
  /\ nextMessage'[s] = nextMessage[s] /\ notIndicated'[s] = notIndicated[s]
  /\ received'[s] = received[s] /\ receivedAgain'[s] = receivedAgain[s]
  /\ faults'["restart"] = faults["restart"]

IsReset(s) ==
  /\ Replies(s) /\ CommandKept(s) /\ DataSame(s)
  /\ primaryState[s] = "RESET_REMOTE_LINK"
  /\ resets'[s] = resets[s] + One(resets[s] < MaxCount)

GetsCommand(s) ==
  /\ Replies(s) /\ primaryState[s] = "SEND_CONFIRM" /\ CostSame(s) /\ DataSame(s)
  /\ nextMessage[s] # NoCommand
  /\ expectedFcb'[s] = nextFcb[s]
  /\ IF InPhase(s)
     THEN CommandKept(s)
     ELSE /\ indicated'[s] = nextMessage[s]
          /\ indicatedAgain'[s] <= indicatedAgain[s] + One(nextMessage[s] = indicated[s])

GetsRequest(s) ==
  /\ Replies(s) /\ primaryState[s] = "REQUEST_RESPOND" /\ CostSame(s) /\ CommandKept(s)
  /\ expectedFcb'[s] = nextFcb[s]
  /\ IF InPhase(s) THEN userData'[s] = userData[s] ELSE ~Stale(s, userData'[s])
  /\ up' # <<>> /\ up'[1].fc = "RESP_USER_DATA" => up'[1].asdu = userData'[s]

(* The user gives the master a command. *)
GetsNew(s) ==
  /\ nextMessage[s] = NoCommand /\ nextMessage'[s] # indicated[s] /\ indicated'[s] = indicated[s]
  /\ indicatedAgain'[s] = indicatedAgain[s] /\ notIndicated'[s] = notIndicated[s]
  /\ PhaseKept(s) /\ DataSame(s) /\ CostSame(s)
  /\ up' = up /\ primaryState'[s] = primaryState[s] /\ primaryState[s] # "SEND_CONFIRM"

Moves(s) ==
  \/ Untouched(s) \/ Forgets(s) \/ Leaves(s) \/ EndsEmpty(s) \/ EndsConfirmed(s)
  \/ EndsWithData(s) \/ Begins(s) \/ IsReset(s) \/ GetsCommand(s) \/ GetsRequest(s) \/ GetsNew(s)

(* The values that the debts of a slave are made of.                       *)
Values(s) ==
  /\ nextFcb[s] \in BOOLEAN /\ expectedFcb[s] \in BOOLEAN
  /\ notIndicated[s] \in Nat /\ indicatedAgain[s] \in Nat /\ receivedAgain[s] \in Nat
  /\ resets[s] \in Nat /\ faults["restart"] \in Nat

(* Whatever happens to a slave, what is wrongly taken for a repetition, or *)
(* will be, was paid for.                                                  *)
LEMMA SkipsCovered ==
  ASSUME NEW s \in Slaves, Values(s), Values(s)', Moves(s), MaxCount \in Nat,
         Covered(s, notIndicated, SkipDebt(s))
  PROVE  Covered(s, notIndicated, SkipDebt(s))'
<1>0. SkipDebt(s) \in 0..2 /\ SkipDebt(s)' \in 0..2
  BY DEF SkipDebt, One
<1>1. CASE Untouched(s)
  <2>1. (ToSkip(s)' => ToSkip(s)) /\ (Skipped(s)' => Skipped(s))
    BY <1>1 DEF Untouched, Asking, PhaseKept, CommandKept, ToSkip, Skipped, Concluded, InPhase
  <2>2. SkipDebt(s)' <= SkipDebt(s)
    BY <2>1 DEF SkipDebt, One
  <2> QED
    BY <1>0, <1>1, <2>2 DEF Untouched, CommandKept, Values, Covered
<1>2. CASE Forgets(s)
  <2>1. ToSkip(s)' /\ Skipped(s)' => ToSkip(s) \/ Skipped(s)
    BY <1>2 DEF Forgets, CommandKept, ToSkip, Skipped, Concluded, InPhase
  <2>2. SkipDebt(s)' <= SkipDebt(s) + 1
    BY <2>1 DEF SkipDebt, One
  <2> QED
    BY <1>0, <1>2, <2>2 DEF Forgets, CommandKept, Values, Covered
<1>3. CASE Leaves(s)
  <2>1. ~ToSkip(s)' /\ ~Skipped(s)'
    BY <1>3 DEF Leaves, ToSkip, Skipped, Concluded
  <2>2. SkipDebt(s)' <= SkipDebt(s)
    BY <2>1 DEF SkipDebt, One
  <2> QED
    BY <1>0, <1>3, <2>2 DEF Leaves, CommandKept, CostSame, Values, Covered
<1>4. CASE EndsEmpty(s) \/ EndsConfirmed(s) \/ EndsWithData(s)
  <2>1. ~Skipped(s)' /\ (ToSkip(s)' => ToSkip(s))
    BY <1>4 DEF EndsEmpty, EndsConfirmed, EndsWithData, Ended, PhaseKept, ToSkip, Skipped,
       Concluded, InPhase
  <2>2. \/ notIndicated'[s] = notIndicated[s]
        \/ notIndicated'[s] <= notIndicated[s] + One(Skipped(s))
    BY <1>4 DEF EndsEmpty, EndsConfirmed, EndsWithData, Ended, CommandKept, Skipped, One
  <2>3. SkipDebt(s)' <= SkipDebt(s) - One(Skipped(s)) /\ One(Skipped(s)) \in 0..1
    BY <2>1 DEF SkipDebt, One
  <2>4. resets'[s] = resets[s] /\ faults'["restart"] = faults["restart"]
    BY <1>4 DEF EndsEmpty, EndsConfirmed, EndsWithData, Ended, CostSame
  <2> QED
    BY <1>0, <2>2, <2>3, <2>4 DEF Values, Covered
<1>5. CASE Begins(s)
  <2>1. ~ToSkip(s)' /\ (Skipped(s)' => ToSkip(s))
    BY <1>5 DEF Begins, Values, ToSkip, Skipped, Concluded, InPhase
  <2>2. SkipDebt(s)' <= SkipDebt(s)
    BY <2>1 DEF SkipDebt, One
  <2> QED
    BY <1>0, <1>5, <2>2 DEF Begins, CommandKept, CostSame, Values, Covered
<1>6. CASE IsReset(s)
  <2>1. ~Skipped(s)'
    BY <1>6 DEF IsReset, Replies, Skipped
  <2>2. SkipDebt(s)' <= SkipDebt(s) + 1
    BY <2>1 DEF SkipDebt, One
  <2>3. resets[s] < MaxCount => resets'[s] = resets[s] + 1
    BY <1>6 DEF IsReset, One
  <2>4. resets[s] >= MaxCount => resets'[s] = resets[s]
    BY <1>6 DEF IsReset, One, Values
  <2> QED
    BY <1>0, <1>6, <2>2, <2>3, <2>4 DEF IsReset, Replies, Values, Covered
<1>7. CASE GetsCommand(s) \/ GetsRequest(s)
  <2>1. ~ToSkip(s)' /\ (Skipped(s)' => Skipped(s))
    BY <1>7 DEF GetsCommand, GetsRequest, Replies, CommandKept, ToSkip, Skipped, InPhase
  <2>2. notIndicated'[s] = notIndicated[s]
    BY <1>7 DEF GetsCommand, GetsRequest, Replies
  <2>3. SkipDebt(s)' <= SkipDebt(s)
    BY <2>1 DEF SkipDebt, One
  <2> QED
    BY <1>0, <1>7, <2>2, <2>3 DEF GetsCommand, GetsRequest, CostSame, Values, Covered
<1>8. CASE GetsNew(s)
  <2>1. ~Skipped(s)' /\ (ToSkip(s)' => ToSkip(s))
    BY <1>8 DEF GetsNew, PhaseKept, ToSkip, Skipped, Concluded, InPhase
  <2>2. SkipDebt(s)' <= SkipDebt(s)
    BY <2>1 DEF SkipDebt, One
  <2> QED
    BY <1>0, <1>8, <2>2 DEF GetsNew, CostSame, Values, Covered
<1> QED
  BY <1>1, <1>2, <1>3, <1>4, <1>5, <1>6, <1>7, <1>8 DEF Moves

(* Nor is a command indicated again, or will be, that was not paid for.    *)
LEMMA RepeatsCovered ==
  ASSUME NEW s \in Slaves, Values(s), Values(s)', Moves(s), MaxCount \in Nat,
         Covered(s, indicatedAgain, One(ToRepeat(s)))
  PROVE  Covered(s, indicatedAgain, One(ToRepeat(s)))'
<1> USE DEF Values, Covered, ToRepeat, InPhase, One, PhaseKept, CommandKept, DataSame, CostSame
<1>1. CASE Untouched(s)
  BY <1>1 DEF Untouched, Asking
<1>2. CASE Forgets(s)
  BY <1>2 DEF Forgets
<1>3. CASE Leaves(s)
  BY <1>3 DEF Leaves
<1>4. CASE EndsEmpty(s) \/ EndsConfirmed(s) \/ EndsWithData(s)
  BY <1>4 DEF EndsEmpty, EndsConfirmed, EndsWithData, Ended
<1>5. CASE Begins(s)
  BY <1>5 DEF Begins
<1>6. CASE IsReset(s)
  BY <1>6 DEF IsReset, Replies
<1>7. CASE GetsCommand(s)
  BY <1>7 DEF GetsCommand, Replies
<1>8. CASE GetsRequest(s)
  BY <1>8 DEF GetsRequest, Replies
<1>9. CASE GetsNew(s)
  BY <1>9 DEF GetsNew
<1> QED
  BY <1>1, <1>2, <1>3, <1>4, <1>5, <1>6, <1>7, <1>8, <1>9 DEF Moves

(* Nor an ASDU that has come before, or that nobody wrote.                 *)
LEMMA StaleCovered ==
  ASSUME NEW s \in Slaves, Values(s), Values(s)', Moves(s), MaxCount \in Nat,
         Covered(s, receivedAgain, StaleDebt(s))
  PROVE  Covered(s, receivedAgain, StaleDebt(s))'
<1> USE DEF Values, Covered, StaleDebt, StaleAnswer, Concluded, InPhase, One, PhaseKept,
        CommandKept, DataSame, CostSame
<1>0. StaleDebt(s) \in 0..2 /\ StaleDebt(s)' \in 0..2
  OBVIOUS
<1>1. CASE Untouched(s)
  <2>1. /\ userData'[s] = userData[s] /\ received'[s] = received[s]
        /\ InPhase(s)' <=> InPhase(s)
        /\ Stale(s, userData[s])' <=> Stale(s, userData[s])
    BY <1>1 DEF Untouched, Stale
  <2>2. StaleDebt(s)' <= StaleDebt(s)
    <3>1. CASE primaryState[s] # "REQUEST_RESPOND"
      BY <1>1, <2>1, <3>1 DEF Untouched, Asking
    <3>2. CASE primaryState[s] = "REQUEST_RESPOND" /\ up' = up
      <4>1. StaleAnswer(s)' <=> StaleAnswer(s)
        BY <2>1, <3>2 DEF Stale
      <4> HIDE DEF StaleAnswer, InPhase
      <4> QED
        BY <1>1, <2>1, <3>2, <4>1 DEF Untouched
    <3>3. CASE primaryState[s] = "REQUEST_RESPOND" /\ up' = <<>>
      <4> HIDE DEF StaleAnswer, InPhase
      <4> QED
        BY <1>1, <2>1, <3>3 DEF Untouched
    <3> QED
      BY <1>1, <3>1, <3>2, <3>3 DEF Untouched, Asking
  <2>3. receivedAgain'[s] = receivedAgain[s] /\ resets'[s] = resets[s]
        /\ faults'["restart"] >= faults["restart"]
    BY <1>1 DEF Untouched
  <2> HIDE DEF StaleDebt
  <2> QED
    BY <1>0, <2>2, <2>3
<1>2. CASE Forgets(s)
  <2>1. up' = up /\ primaryState'[s] = primaryState[s] /\ (StaleAnswer(s)' <=> StaleAnswer(s))
    BY <1>2 DEF Forgets, Stale
  <2>2. StaleDebt(s)' <= StaleDebt(s) + 1
    <3> HIDE DEF StaleAnswer, InPhase, Concluded
    <3> QED
      BY <2>1
  <2> HIDE DEF StaleDebt
  <2> QED
    BY <1>0, <1>2, <2>2 DEF Forgets
<1>3. CASE Leaves(s)
  BY <1>3 DEF Leaves
<1>4. CASE EndsEmpty(s) \/ EndsConfirmed(s)
  <2>1. /\ up # <<>> /\ primaryState'[s] = "LINK_LAYERS_AVAILABLE" /\ Concluded(s)
        /\ InPhase(s)' <=> InPhase(s)
        /\ Stale(s, userData[s])' <=> Stale(s, userData[s])
    BY <1>4 DEF EndsEmpty, EndsConfirmed, Ended, Stale
  <2>2. StaleDebt(s)' <= StaleDebt(s)
    <3> HIDE DEF StaleAnswer, InPhase, Concluded
    <3> QED
      BY <2>1
  <2>3. receivedAgain'[s] = receivedAgain[s] /\ resets'[s] = resets[s]
        /\ faults'["restart"] = faults["restart"]
    BY <1>4 DEF EndsEmpty, EndsConfirmed, Ended
  <2> HIDE DEF StaleDebt
  <2> QED
    BY <1>0, <2>2, <2>3
<1>5. CASE EndsWithData(s)
  BY <1>5 DEF EndsWithData, Ended
<1>6. CASE Begins(s)
  BY <1>6 DEF Begins, Stale
<1>7. CASE IsReset(s)
  BY <1>7 DEF IsReset, Replies
<1>8. CASE GetsCommand(s)
  BY <1>8 DEF GetsCommand, Replies
<1>9. CASE GetsRequest(s)
  BY <1>9 DEF GetsRequest, Replies, Stale
<1>10. CASE GetsNew(s)
  BY <1>10 DEF GetsNew, Stale
<1> QED
  BY <1>1, <1>2, <1>3, <1>4, <1>5, <1>6, <1>7, <1>8, <1>9, <1>10 DEF Moves

(* A frame is taken from the line of a slave, or added, or neither.        *)
LineStep(q, q2, fcb, c) ==
  \/ q2 = q
  \/ q # <<>> /\ q2 = Tail(q)
  \/ \E f \in Frames : q2 = Append(q, f) /\ (f.fc \in Numbered => Current(f, fcb, c))

(* What is added is of the exchange that the master is in.                 *)
LEMMA LineStays ==
  ASSUME NEW q \in Seq(Frames), NEW q2, NEW fcb, NEW c, RequestsOn(q, fcb, c),
         LineStep(q, q2, fcb, c)
  PROVE  RequestsOn(q2, fcb, c)
<1>1. CASE q2 = q
  BY <1>1
<1>2. CASE q # <<>> /\ q2 = Tail(q)
  <2>1. /\ Len(q2) = Len(q) - 1 /\ Len(q) \in Nat \ {0}
        /\ \A i \in 1..Len(q2) : q2[i] = q[i + 1]
    BY <1>2, TailIndex
  <2>2. \A i \in 1..Len(q2) : i + 1 \in 1..Len(q)
    BY <2>1
  <2> QED
    BY <2>1, <2>2 DEF RequestsOn
<1>3. ASSUME NEW f \in Frames, q2 = Append(q, f), f.fc \in Numbered => Current(f, fcb, c)
      PROVE  RequestsOn(q2, fcb, c)
  <2>1. /\ Len(q2) = Len(q) + 1 /\ Len(q) \in Nat
        /\ \A i \in 1..Len(q) : q2[i] = q[i]
        /\ q2[Len(q) + 1] = f
    BY <1>3, AppendIndex
  <2>2. ASSUME NEW i \in 1..Len(q2), q2[i].fc \in Numbered
        PROVE  Current(q2[i], fcb, c)
    <3>1. CASE i = Len(q) + 1
      BY <1>3, <2>1, <2>2, <3>1
    <3>2. CASE i # Len(q) + 1
      <4>1. i \in 1..Len(q)
        BY <2>1, <3>2
      <4> QED
        BY <2>1, <2>2, <4>1 DEF RequestsOn
    <3> QED
      BY <3>1, <3>2
  <2> QED
    BY <2>2 DEF RequestsOn
<1> QED
  BY <1>1, <1>2, <1>3 DEF LineStep

(* While an answer is under way, nothing that asks for one is.             *)
LEMMA NoneBesideAnswer ==
  ASSUME RequestFits, up # <<>> \/ NoRequest, NEW t \in Slaves, NEW fcb, NEW c
  PROVE  RequestsOn(down[t], fcb, c)
<1>1. \A i \in 1..Len(down[t]) : down[t][i].fc = "USER_DATA_NO_REPLY"
  BY RequestFitsAlone DEF NoRequest
<1> QED
  BY <1>1 DEF RequestsOn, Numbered

(* The state machine sends a numbered frame only with the FCB of the       *)
(* exchange that it begins, or repeats.                                    *)
LEMMA RunsNow ==
  ASSUME PlainTypes, CommandInHand, BoundsOK, LineOK, WaitsInTurn, RequestFits, AnswerFits,
         RequestsNow, NEW s \in Slaves, Runs(s), NEW t \in Slaves
  PROVE  /\ RequestsOn(down[t], nextFcb'[t], nextMessage'[t])
         /\ LineStep(down[t], down'[t], nextFcb'[t], nextMessage'[t])
<1>0. /\ down \in [Slaves -> Seq(Frames)] /\ nextFcb \in [Slaves -> BOOLEAN]
      /\ nextMessage \in [Slaves -> Nat] /\ nextMessage' = nextMessage
      /\ nextFcb[s] \in BOOLEAN
      /\ RequestsOn(down[t], nextFcb[t], nextMessage[t])
      /\ primaryState[s] \in Asking => waitingForResponse[s]
      /\ ~sendLinkLayerTestFunction[s]
  BY RunsFrame DEF LineOK, PlainTypes, BoundsOK, RequestsNow, WaitsInTurn
<1>1. ASSUME UNCHANGED <<down, nextFcb>>
      PROVE  /\ RequestsOn(down[t], nextFcb'[t], nextMessage'[t])
             /\ LineStep(down[t], down'[t], nextFcb'[t], nextMessage'[t])
  BY <1>0, <1>1 DEF LineStep
<1>2. ASSUME NEW f \in Frames, down' = [down EXCEPT ![s] = Append(down[s], f)],
             f.fc \in Numbered => Current(f, nextFcb'[s], nextMessage[s])
      PROVE  LineStep(down[t], down'[t], nextFcb'[t], nextMessage'[t])
  <2>1. CASE t = s
    BY <1>0, <1>2, <2>1 DEF LineStep
  <2>2. CASE t # s
    <3>1. down'[t] = down[t]
      BY <1>0, <1>2, <2>2
    <3> QED
      BY <3>1 DEF LineStep
  <2> QED
    BY <2>1, <2>2
<1>3. CASE RunIdle(s)
  <2>1. PICK f : f = Request("REQUEST_LINK_STATUS", FALSE, FALSE)
    OBVIOUS
  <2>2. f \in Frames /\ f.fc = "REQUEST_LINK_STATUS"
    BY <2>1, RequestFields DEF Requests
  <2>3. down' = [down EXCEPT ![s] = Append(down[s], f)] /\ nextFcb' = nextFcb
    BY <1>3, <2>1 DEF RunIdle, Send
  <2>4. f.fc \notin Numbered
    BY <2>2 DEF Numbered
  <2> QED
    BY <1>0, <1>2, <2>2, <2>3, <2>4
<1>4. CASE RunTimeoutOver(s) \/ RunTimeoutStatusOrReset(s) \/ RunGiveUpCommand(s)
           \/ RunGiveUpRequest(s) \/ RunNothing(s) \/ RunAvailableWithoutAck(s)
  BY <1>1, <1>4 DEF RunTimeoutOver, RunTimeoutStatusOrReset, RunGiveUpCommand, RunGiveUpRequest,
     RunNothing, RunAvailableWithoutAck, primary
<1>5. ~RunResetWithoutStatus(s) /\ ~RunSendTest(s)
  BY <1>0 DEF RunResetWithoutStatus, RunSendTest, Asking
<1>6. ASSUME NEW frame, NEW new, NewExchange(s, frame, new), frame \in Frames,
             frame.fcv = TRUE, frame.fcb = nextFcb[s],
             frame.fc = "USER_DATA_CONFIRMED" => frame.command = nextMessage[s]
      PROVE  /\ RequestsOn(down[t], nextFcb'[t], nextMessage'[t])
             /\ LineStep(down[t], down'[t], nextFcb'[t], nextMessage'[t])
  <2>1. /\ Turn(s) /\ primaryState[s] = "LINK_LAYERS_AVAILABLE"
        /\ down' = [down EXCEPT ![s] = Append(down[s], frame)]
        /\ nextFcb' = [nextFcb EXCEPT ![s] = ~nextFcb[s]]
    BY <1>6 DEF NewExchange, Send
  <2>2. NoRequest
    <3>1. \A u \in Slaves : waitingForResponse[u] => u = s
      BY <2>1, TurnAlone
    <3>2. primaryState[s] \notin Asking
      BY <2>1 DEF Asking
    <3> QED
      BY <3>1, <3>2, QuietUnlessAsking
  <2>3. nextFcb'[s] = ~nextFcb[s]
    BY <1>0, <2>1
  <2>4. Current(frame, nextFcb'[s], nextMessage[s])
    BY <1>0, <1>6, <2>3 DEF Current
  <2> QED
    BY <1>2, <1>6, <2>1, <2>2, <2>4, NoneBesideAnswer
<1>7. CASE RunSendCommand(s)
  <2>1. PICK f : f = Command(nextFcb[s], nextMessage[s])
    OBVIOUS
  <2>2. NewExchange(s, f, "SEND_CONFIRM")
    BY <1>7, <2>1 DEF RunSendCommand
  <2>3. f \in Frames /\ f.fcv = TRUE /\ f.fcb = nextFcb[s] /\ f.command = nextMessage[s]
    <3>1. f \in Frames
      BY <1>0, <2>1, CommandFields
    <3> QED
      BY <2>1, <3>1 DEF Command
  <2> QED
    BY <1>6, <2>2, <2>3
<1>8. CASE RunRequestClass1(s) \/ RunRequestClass2(s)
  <2>1. PICK fc \in {"REQUEST_USER_DATA_CLASS_1", "REQUEST_USER_DATA_CLASS_2"} :
          NewExchange(s, Request(fc, nextFcb[s], TRUE), "REQUEST_RESPOND")
    BY <1>8 DEF RunRequestClass1, RunRequestClass2
  <2>2. PICK f : f = Request(fc, nextFcb[s], TRUE)
    OBVIOUS
  <2>3. f \in Frames /\ f.fc = fc /\ f.fcv = TRUE /\ f.fcb = nextFcb[s]
    <3>1. f \in Frames /\ f.fc = fc
      <4>1. fc \in Requests /\ TRUE \in BOOLEAN
        BY DEF Requests
      <4> QED
        BY <1>0, <2>2, <4>1, RequestFields
    <3> QED
      BY <2>2, <3>1 DEF Request
  <2> QED
    BY <1>6, <2>1, <2>2, <2>3
<1>9. CASE RunRepeat(s)
  <2>1. PICK f : f = repetition(s)
    OBVIOUS
  <2>2. down' = [down EXCEPT ![s] = Append(down[s], f)] /\ nextFcb' = nextFcb
    BY <1>9, <2>1 DEF RunRepeat, Send
  <2>3. f \in Frames /\ f.fcv = TRUE /\ f.fcb = ~nextFcb[s]
        /\ (f.fc = "USER_DATA_CONFIRMED" => f.command = nextMessage[s])
    <3>0. (~nextFcb[s]) \in BOOLEAN /\ TRUE \in BOOLEAN
      OBVIOUS
    <3>1. CASE primaryState[s] = "SEND_CONFIRM"
      <4>1. f = Command(~nextFcb[s], nextMessage[s])
        BY <1>0, <2>1, <3>1 DEF repetition
      <4>2. f \in Frames
        <5>1. PICK b \in BOOLEAN : b = ~nextFcb[s]
          BY <3>0
        <5>2. PICK n \in Int : n = nextMessage[s]
          BY <1>0
        <5> QED
          BY <4>1, <5>1, <5>2, CommandFields
      <4> QED
        BY <4>1, <4>2 DEF Command
    <3>2. CASE primaryState[s] # "SEND_CONFIRM"
      <4>1. PICK fc \in {"REQUEST_USER_DATA_CLASS_1", "REQUEST_USER_DATA_CLASS_2"} :
              f = Request(fc, ~nextFcb[s], TRUE)
        BY <2>1, <3>2 DEF repetition
      <4>2. f \in Frames /\ f.fc = fc
        <5>1. fc \in Requests
          BY DEF Requests
        <5>2. PICK b \in BOOLEAN : b = ~nextFcb[s]
          BY <3>0
        <5>3. Request(fc, b, TRUE) \in Frames /\ Request(fc, b, TRUE).fc = fc
          BY <3>0, <5>1, RequestFields
        <5> QED
          BY <4>1, <5>2, <5>3
      <4> QED
        BY <4>1, <4>2 DEF Request
    <3> QED
      BY <3>1, <3>2
  <2>4. Current(f, nextFcb'[s], nextMessage[s])
    BY <2>2, <2>3 DEF Current
  <2> QED
    BY <1>0, <1>2, <2>2, <2>3, <2>4
<1> QED
  BY <1>3, <1>4, <1>5, <1>7, <1>8, <1>9 DEF Runs

(* RequestsNow is kept while the master is in step.                        *)
LEMMA RequestsNowKept ==
  ASSUME IInv, RequestsNow, [Next]_vars, ~OutOfStep'
  PROVE  RequestsNow'
<1>0. /\ PlainTypes /\ CommandInHand /\ BoundsOK /\ LineOK
      /\ WaitsInTurn /\ RequestFits /\ AnswerFits
      /\ down \in [Slaves -> Seq(Frames)] /\ nextMessage \in [Slaves -> Nat]
      /\ nextFcb \in [Slaves -> BOOLEAN]
      /\ ~Fault("late") /\ ~Fault("test") /\ ~Fault("foreign")
  BY InStep DEF IInv, OneExchange, LineOK, PlainTypes, BoundsOK
<1> SUFFICES ASSUME NEW t \in Slaves
             PROVE  /\ RequestsOn(down[t], nextFcb'[t], nextMessage'[t])
                    /\ LineStep(down[t], down'[t], nextFcb'[t], nextMessage'[t])
  BY <1>0, LineStays DEF RequestsNow
<1>1. RequestsOn(down[t], nextFcb[t], nextMessage[t]) /\ down[t] \in Seq(Frames)
  BY <1>0 DEF RequestsNow
<1>2. ASSUME UNCHANGED <<nextFcb, nextMessage>>,
             \/ down' = down
             \/ \E s \in Slaves : down[s] # <<>> /\ down' = [down EXCEPT ![s] = Tail(down[s])]
      PROVE  /\ RequestsOn(down[t], nextFcb'[t], nextMessage'[t])
             /\ LineStep(down[t], down'[t], nextFcb'[t], nextMessage'[t])
  BY <1>0, <1>1, <1>2 DEF LineStep
<1>3. CASE UNCHANGED vars \/ SendBroadcast \/ Lose
  BY <1>2, <1>3 DEF vars, SendBroadcast, Lose, primary
<1>4. CASE RunBroadcast
  <2>1. PICK f : f = Broadcast(nextBroadcast)
    OBVIOUS
  <2>2. f \in Frames /\ f.fc \notin Numbered
    <3>1. nextBroadcast \in Int
      BY <1>0 DEF BoundsOK
    <3> QED
      BY <2>1, <3>1 DEF Broadcast, Frames, Numbered
  <2>3. down'[t] = Append(down[t], f) /\ UNCHANGED <<nextFcb, nextMessage>>
    BY <1>4, <2>1 DEF RunBroadcast, primary
  <2> QED
    BY <1>1, <2>2, <2>3 DEF LineStep
<1>5. ASSUME NEW s \in Slaves, Handles(s)
      PROVE  /\ RequestsOn(down[t], nextFcb'[t], nextMessage'[t])
             /\ LineStep(down[t], down'[t], nextFcb'[t], nextMessage'[t])
  <2>1. up # <<>>
    BY <1>5, HandlesFrame
  <2>2. RequestsOn(down[t], nextFcb'[t], nextMessage'[t])
    BY <1>0, <2>1, NoneBesideAnswer
  <2>3. PICK f : f = Request("RESET_REMOTE_LINK", FALSE, FALSE)
    OBVIOUS
  <2>4. f \in Frames /\ f.fc \notin Numbered
    BY <2>3 DEF Request, Frames, Requests, NoCommand, Numbered
  <2>5. down' = down \/ down' = [down EXCEPT ![s] = Append(down[s], f)]
    BY <1>5, <2>3 DEF Handles, HandleDFC, HandleAck, HandleOtherAck, HandleNack,
        HandleStatusOfLink, HandleUserData, HandleNoData, HandleUnexpectedData,
        HandleServiceNotImplemented
  <2> QED
    BY <1>0, <2>2, <2>4, <2>5 DEF LineStep
<1>6. ASSUME NEW s \in Slaves, Runs(s)
      PROVE  /\ RequestsOn(down[t], nextFcb'[t], nextMessage'[t])
             /\ LineStep(down[t], down'[t], nextFcb'[t], nextMessage'[t])
  BY <1>0, <1>6, RunsNow
<1>7. ASSUME NEW s \in Slaves, Answering(s)
      PROVE  /\ RequestsOn(down[t], nextFcb'[t], nextMessage'[t])
             /\ LineStep(down[t], down'[t], nextFcb'[t], nextMessage'[t])
  BY <1>2, <1>7, AnsweringFrame DEF Take
<1>8. ASSUME NEW s \in Slaves, RestartSlave(s)
      PROVE  UNCHANGED <<down, nextFcb, nextMessage>>
  BY <1>8 DEF RestartSlave, primary
<1>9. ASSUME NEW s \in Slaves, User(s), ~SendASDU(s)
      PROVE  UNCHANGED <<down, nextFcb, nextMessage>>
  BY <1>9, UserFrame
<1>10. ASSUME NEW s \in Slaves, SendASDU(s)
       PROVE  /\ RequestsOn(down[t], nextFcb'[t], nextMessage'[t])
              /\ LineStep(down[t], down'[t], nextFcb'[t], nextMessage'[t])
  <2>1. /\ down' = down /\ nextFcb' = nextFcb
        /\ \/ nextMessage' = nextMessage
           \/ nextMessage[s] = NoCommand /\ nextMessage' = [nextMessage EXCEPT ![s] = submitted'[s]]
    BY <1>10 DEF SendASDU
  <2>2. CASE nextMessage'[t] = nextMessage[t]
    BY <1>1, <2>1, <2>2 DEF LineStep
  <2>3. CASE nextMessage'[t] # nextMessage[t]
    <3>1. nextMessage[t] = NoCommand
      BY <1>0, <2>1, <2>3
    <3>2. primaryState[t] # "SEND_CONFIRM"
      BY <1>0, <3>1 DEF CommandInHand
    <3>3. \A i \in 1..Len(down[t]) : down[t][i].fc # "USER_DATA_CONFIRMED"
      BY <1>0, <3>2, RequestFitsAlone DEF Asks
    <3>4. RequestsOn(down[t], nextFcb'[t], nextMessage'[t])
      BY <1>1, <2>1, <3>3 DEF RequestsOn, Current
    <3> QED
      BY <2>1, <3>4 DEF LineStep
  <2> QED
    BY <2>2, <2>3
<1> QED
  BY <1>2, <1>3, <1>4, <1>5, <1>6, <1>7, <1>8, <1>9, <1>10, Steps

(* The histories count one more at most.                                   *)
LEMMA CountedUp ==
  ASSUME NEW count \in [Slaves -> Nat], NEW s \in Slaves, NEW more \in BOOLEAN, MaxCount \in Nat
  PROVE  /\ Counted(count, s, more) \in [Slaves -> Nat]
         /\ Counted(count, s, more)[s] <= count[s] + One(more)
         /\ \A t \in Slaves : t # s => Counted(count, s, more)[t] = count[t]
BY DEF Counted, One

(* The master handles an answer: nothing changes for the other slaves.     *)
LEMMA HandlesOthers ==
  ASSUME IInv, DataOK, CountsOK, NEW s \in Slaves, NEW t \in Slaves, t # s, Handles(s)
  PROVE  /\ primaryState'[t] = primaryState[t] /\ nextMessage'[t] = nextMessage[t]
         /\ received'[t] = received[t]
         /\ notIndicated'[t] = notIndicated[t] /\ receivedAgain'[t] = receivedAgain[t]
<1>0. /\ primaryState \in [Slaves -> PrimaryStates] /\ nextMessage \in [Slaves -> Nat]
      /\ received \in [Slaves -> [Classes -> Nat]]
      /\ notIndicated \in [Slaves -> Nat] /\ receivedAgain \in [Slaves -> Nat]
  BY DEF IInv, PlainTypes, BoundsOK, DataOK, CountsOK
<1> USE DEF Handles, HandleDFC, HandleAck, HandleOtherAck, HandleNack, HandleStatusOfLink,
        HandleUserData, HandleNoData, HandleUnexpectedData, HandleServiceNotImplemented, history
<1>1. primaryState'[t] = primaryState[t]
  <2>1. primaryState' = primaryState \/ \E p : SetPrimaryState(s, p)
    BY DEF Available, Illegal
  <2> QED
    BY <1>0, <2>1 DEF SetPrimaryState
<1>2. nextMessage'[t] = nextMessage[t]
  <2>1. nextMessage' = nextMessage \/ nextMessage' = [nextMessage EXCEPT ![s] = NoCommand]
    OBVIOUS
  <2> QED
    BY <1>0, <2>1
<1>3. received'[t] = received[t]
  BY <1>0, HandlesReceive
<1>4. notIndicated'[t] = notIndicated[t]
  <2>1. notIndicated' = notIndicated \/ \E b : notIndicated' = Counted(notIndicated, s, b)
    OBVIOUS
  <2> QED
    BY <1>0, <2>1 DEF Counted
<1>5. receivedAgain'[t] = receivedAgain[t]
  <2>1. receivedAgain' = receivedAgain \/ \E b : receivedAgain' = Counted(receivedAgain, s, b)
    BY DEF UserData
  <2> QED
    BY <1>0, <2>1 DEF Counted
<1> QED
  BY <1>1, <1>2, <1>3, <1>4, <1>5

(* The answer that the master waits for ends the exchange, or the reset    *)
(* follows.                                                                *)
LEMMA HandlesMoves ==
  ASSUME IInv, DataOK, CountsOK, WaitsInTurn, RequestFits, AnswerFits,
         NEW s \in Slaves, Handles(s), NEW t \in Slaves
  PROVE  Moves(t)
<1>0. /\ PlainTypes /\ up \in Seq(Answers) /\ Len(up) <= 1
      /\ notIndicated \in [Slaves -> Nat] /\ receivedAgain \in [Slaves -> Nat]
      /\ faults["restart"] \in Nat /\ MaxCount \in Nat
      /\ nextMessage \in [Slaves -> Nat] /\ primaryState = [u \in Slaves |-> primaryState[u]]
  BY UnbalancedAssumption DEF IInv, LineOK, AnswerFits, CountsOK, BoundsOK, Faults, PlainTypes
<1>1. /\ up # <<>> /\ up' = Tail(up) /\ s = answering
      /\ UNCHANGED <<expectedFcb, userData, indicated, indicatedAgain, resets, faults, nextFcb>>
  BY HandlesFrame
<1>2. Head(up) = up[1] /\ up' = <<>> /\ 1 \in 1..Len(up)
  <2>1. Tail(up) \in Seq(Answers) /\ Len(Tail(up)) = Len(up) - 1 /\ Len(up) \in Nat \ {0}
        /\ Head(up) = up[1]
    BY <1>0, <1>1, TailIndex
  <2>2. Len(Tail(up)) = 0
    BY <1>0, <2>1
  <2> QED
    BY <1>1, <2>1, <2>2
<1>3. /\ s = currentSlave /\ waitingForResponse[s] /\ ~up[1].dfc /\ Ends(primaryState[s], up[1].fc)
      /\ ~sendLinkLayerTestFunction[s]
  BY <1>1, <1>2 DEF AnswerFits, answering, WaitsInTurn
<1>4. CASE t # s
  <2>1. ~waitingForResponse[t] /\ primaryState[t] \notin Asking
    BY <1>3, <1>4 DEF WaitsInTurn
  <2>2. /\ primaryState'[t] = primaryState[t] /\ nextMessage'[t] = nextMessage[t]
        /\ received'[t] = received[t]
        /\ notIndicated'[t] = notIndicated[t] /\ receivedAgain'[t] = receivedAgain[t]
    BY <1>4, HandlesOthers
  <2>3. Untouched(t)
    BY <1>0, <1>1, <2>1, <2>2 DEF Untouched, PhaseKept, CommandKept, DataSame
  <2> QED
    BY <2>3 DEF Moves
<1>5. CASE t = s
  <2> USE <1>5
  <2>1. CASE HandleDFC(s) \/ HandleNack(s) \/ HandleServiceNotImplemented(s)
             \/ HandleUnexpectedData(s)
    BY <1>2, <1>3, <2>1 DEF HandleDFC, HandleNack, HandleServiceNotImplemented,
       HandleUnexpectedData, ReadAnswer, Ends
  <2>2. CASE HandleAck(s)
    <3>1. notIndicated' = Counted(notIndicated, s, indicated[s] # nextMessage[s])
          /\ nextMessage' = [nextMessage EXCEPT ![s] = NoCommand]
      BY <1>3, <2>2 DEF HandleAck
    <3>2. notIndicated'[s] <= notIndicated[s] + One(indicated[s] # nextMessage[s])
      <4>1. PICK more \in BOOLEAN : more <=> (indicated[s] # nextMessage[s])
        OBVIOUS
      <4>2. notIndicated' = Counted(notIndicated, s, more)
        BY <3>1, <4>1 DEF Counted
      <4>3. notIndicated'[s] <= notIndicated[s] + One(more)
        BY <1>0, <4>2, CountedUp
      <4> QED
        BY <4>1, <4>3 DEF One
    <3>3. nextMessage'[s] = NoCommand
      BY <1>0, <3>1
    <3>4. /\ primaryState[s] = "SEND_CONFIRM" /\ primaryState'[s] = "LINK_LAYERS_AVAILABLE"
          /\ UNCHANGED <<received, receivedAgain>>
      BY <1>0, <2>2 DEF HandleAck, Available, SetPrimaryState
    <3> QED
      BY <1>1, <1>2, <3>2, <3>3, <3>4
         DEF Moves, EndsConfirmed, Ended, PhaseKept, CostSame, DataSame
  <2>3. CASE HandleOtherAck(s) \/ HandleNoData(s)
    <3>1. primaryState[s] \in {"RESET_REMOTE_LINK", "REQUEST_RESPOND"}
      BY <1>2, <1>3, <2>3 DEF HandleOtherAck, HandleNoData, ReadAnswer, Ends
    <3>2. primaryState'[s] = "LINK_LAYERS_AVAILABLE"
      BY <1>0, <2>3, <3>1 DEF HandleOtherAck, HandleNoData, Available, SetPrimaryState
    <3>3. UNCHANGED <<received, receivedAgain, notIndicated, nextMessage>>
      BY <2>3 DEF HandleOtherAck, HandleNoData, history
    <3> QED
      BY <1>1, <1>2, <3>1, <3>2, <3>3
         DEF Moves, EndsEmpty, Ended, PhaseKept, CommandKept, CostSame, DataSame
  <2>4. CASE HandleStatusOfLink(s)
    <3>1. primaryState[s] = "REQUEST_STATUS"
      BY <1>2, <1>3, <2>4 DEF HandleStatusOfLink, ReadAnswer, Ends
    <3>2. primaryState'[s] = "RESET_REMOTE_LINK"
      BY <1>0, <2>4, <3>1 DEF HandleStatusOfLink, SetPrimaryState
    <3>3. UNCHANGED <<received, receivedAgain, notIndicated, nextMessage>>
      BY <2>4 DEF HandleStatusOfLink, history
    <3> QED
      BY <1>1, <1>2, <3>1, <3>2, <3>3
         DEF Moves, Leaves, PhaseKept, CommandKept, CostSame, DataSame
  <2>5. CASE HandleUserData(s)
    <3>1. /\ primaryState[s] = "REQUEST_RESPOND" /\ up[1].fc = "RESP_USER_DATA"
          /\ UserData(s, up[1].asdu) /\ UNCHANGED <<notIndicated, nextMessage>>
          /\ primaryState'[s] = "LINK_LAYERS_AVAILABLE"
      BY <1>0, <1>2, <2>5 DEF HandleUserData, ReadAnswer, Available, SetPrimaryState
    <3>2. up[1].asdu # NoAsdu
      BY <1>2, <3>1 DEF DataOK, DataAnswer, NoAsdu, Garbage, Classes
    <3>3. PICK more \in BOOLEAN : more <=> StaleAnswer(s)
      OBVIOUS
    <3>4. receivedAgain' = Counted(receivedAgain, s, more)
      BY <1>1, <3>1, <3>2, <3>3 DEF UserData, StaleAnswer, Stale, Counted
    <3>5. receivedAgain'[s] <= receivedAgain[s] + One(more)
      BY <1>0, <3>4, CountedUp
    <3>6. receivedAgain'[s] <= receivedAgain[s] + One(StaleAnswer(s))
      BY <3>3, <3>5 DEF One
    <3> QED
      BY <1>1, <1>2, <3>1, <3>6
         DEF Moves, EndsWithData, Ended, PhaseKept, CommandKept, CostSame
  <2> QED
    BY <2>1, <2>2, <2>3, <2>4, <2>5 DEF Handles
<1> QED
  BY <1>4, <1>5

(* What the master's application has got of a class has left the queue.    *)
LEMMA ReceivedGone ==
  ASSUME IInv, DataOK, NEW s \in Slaves, NEW c \in Classes
  PROVE  received[s][c] \in Nat /\ Gone(s, c) \in Nat /\ received[s][c] <= Gone(s, c)
<1>1. /\ HoldsNewest(queue[s][c], c, enqueued[s][c]) /\ enqueued[s][c] \in Nat
      /\ received[s][c] \in Nat /\ DataBetween(up, s, c, received[s][c], Handed(s, c))
  BY DEF IInv, QueuesOK, BoundsOK, DataOK
<1>2. queue[s][c].entryCounter \in Nat /\ queue[s][c].entryCounter <= enqueued[s][c]
  BY <1>1 DEF HoldsNewest, Rings
<1>3. PICK g \in Nat : g = Gone(s, c)
  BY <1>1, <1>2 DEF Gone
<1>4. received[s][c] <= Handed(s, c)
  BY <1>1 DEF DataBetween
<1>5. CASE userData[s][1] # c
  BY <1>1, <1>3, <1>4, <1>5 DEF Handed
<1>6. CASE userData[s][1] = c
  <2>1. userData[s] \notin {NoAsdu, Garbage}
    BY <1>6 DEF NoAsdu, Garbage, Classes
  <2>2. PICK d \in Classes : \E k \in 1..Gone(s, d) : userData[s] = <<d, k>>
    BY <2>1 DEF IInv, QueuesOK
  <2>3. PICK k \in 1..Gone(s, d) : userData[s] = <<d, k>>
    BY <2>2
  <2>4. d = c /\ Handed(s, c) = k
    BY <1>6, <2>3 DEF Handed
  <2>5. k \in 1..g
    BY <1>3, <2>4
  <2> QED
    BY <1>1, <1>3, <1>4, <2>4, <2>5
<1> QED
  BY <1>5, <1>6

(* What a new request finds is no ASDU that has come before.               *)
LEMMA FreshData ==
  ASSUME IInv, DataOK, NEW s \in Slaves, NEW c \in Classes, GetClassData(s, c)
  PROVE  ~Stale(s, userData'[s])
<1>1. userData'[s] = IF CS101_Queue_isEmpty(queue[s][c])
                     THEN NoAsdu ELSE CS101_Queue_first(queue[s][c])
  BY DEF GetClassData, IInv, QueuesOK
<1>2. CASE CS101_Queue_isEmpty(queue[s][c])
  BY <1>1, <1>2 DEF Stale, NoAsdu, Garbage
<1>3. CASE ~CS101_Queue_isEmpty(queue[s][c])
  <2>0. PICK n \in Nat : n = enqueued[s][c] /\ HoldsNewest(queue[s][c], c, n)
    BY DEF IInv, QueuesOK, BoundsOK
  <2>1. CS101_Queue_first(queue[s][c]) = <<c, n - queue[s][c].entryCounter + 1>>
    <3>1. PICK q : q = queue[s][c]
      OBVIOUS
    <3>2. c \in Int /\ HoldsNewest(q, c, n) /\ ~CS101_Queue_isEmpty(q)
      BY <1>3, <2>0, <3>1 DEF Classes
    <3>3. CS101_Queue_first(q) = <<c, n - q.entryCounter + 1>>
      BY <3>2, DequeueHolds
    <3> QED
      BY <3>1, <3>3
  <2>2. PICK g \in Nat : g = Gone(s, c) /\ received[s][c] \in Nat /\ received[s][c] <= g
    BY ReceivedGone
  <2>3. userData'[s] = <<c, g + 1>> /\ c # -1
    BY <1>1, <1>3, <2>0, <2>1, <2>2 DEF Gone, Classes
  <2>4. g + 1 # received[s][c]
    BY <2>2
  <2> QED
    BY <2>3, <2>4 DEF Stale, Garbage
<1> QED
  BY <1>2, <1>3

(* A slave that answers changes nothing for the other slaves.              *)
LEMMA AnsweringOthers ==
  ASSUME IInv, CommandsOK, CountsOK, NEW s \in Slaves, NEW t \in Slaves, t # s, Answering(s)
  PROVE  /\ expectedFcb'[t] = expectedFcb[t] /\ userData'[t] = userData[t]
         /\ indicated'[t] = indicated[t] /\ indicatedAgain'[t] = indicatedAgain[t]
         /\ resets'[t] = resets[t]
<1>0. /\ expectedFcb \in [Slaves -> BOOLEAN] /\ userData = [u \in Slaves |-> userData[u]]
      /\ indicated \in [Slaves -> Nat]
      /\ indicatedAgain \in [Slaves -> Nat] /\ resets \in [Slaves -> Nat]
  BY DEF IInv, PlainTypes, QueuesOK, CommandsOK, CountsOK
<1> USE DEF Answering, SlaveRun, ForeignAnswer, HandleRequestLinkStatus, HandleResetRemoteLink,
        HandleRequestUserData, HandleUserDataConfirmed, HandleUserDataNoReply,
        HandleTestFunction, HandleReceivedData, slave, history
<1>1. expectedFcb'[t] = expectedFcb[t]
  <2>1. expectedFcb' = expectedFcb \/ \E b : expectedFcb' = [expectedFcb EXCEPT ![s] = b]
    BY DEF checkFCB
  <2> QED
    BY <1>0, <2>1
<1>2. userData'[t] = userData[t]
  <2>1. userData' = userData \/ \E b : userData' = [userData EXCEPT ![s] = b]
    BY DEF GetClassData
  <2> QED
    BY <1>0, <2>1
<1>3. indicated'[t] = indicated[t]
  <2>1. indicated' = indicated \/ \E b : indicated' = [indicated EXCEPT ![s] = b]
    OBVIOUS
  <2> QED
    BY <1>0, <2>1
<1>4. indicatedAgain'[t] = indicatedAgain[t]
  <2>1. indicatedAgain' = indicatedAgain \/ \E b : indicatedAgain' = Counted(indicatedAgain, s, b)
    OBVIOUS
  <2> QED
    BY <1>0, <2>1 DEF Counted
<1>5. resets'[t] = resets[t]
  <2>1. resets' = resets \/ \E b : resets' = Counted(resets, s, b)
    OBVIOUS
  <2> QED
    BY <1>0, <2>1 DEF Counted
<1> QED
  BY <1>1, <1>2, <1>3, <1>4, <1>5

(* A slave answers the request of the exchange.                            *)
LEMMA AnsweringMoves ==
  ASSUME IInv, IInv', CommandsOK, DataOK, CountsOK, WaitsInTurn, RequestFits, AnswerFits,
         RequestsNow, ~Fault("foreign"), NEW s \in Slaves, Answering(s), NEW t \in Slaves
  PROVE  Moves(t)
<1>0. /\ down \in [Slaves -> Seq(Frames)] /\ up \in Seq(Answers)
      /\ nextFcb[s] \in BOOLEAN /\ expectedFcb[s] \in BOOLEAN
      /\ expectedFcb \in [Slaves -> BOOLEAN] /\ userData = [u \in Slaves |-> userData[u]]
      /\ resets \in [Slaves -> Nat] /\ indicatedAgain \in [Slaves -> Nat]
      /\ indicated \in [Slaves -> Nat] /\ faults["restart"] \in Nat /\ MaxCount \in Nat
      /\ userData'[s] \in Elements
  BY UnbalancedAssumption, NextBufferType
     DEF IInv, LineOK, PlainTypes, QueuesOK, CountsOK, CommandsOK, BoundsOK, Faults
<1>1. /\ Take(s) /\ faults' = faults
      /\ UNCHANGED <<primaryState, nextFcb, nextMessage, received, receivedAgain, notIndicated>>
  BY AnsweringFrame
<1>2. PICK f : f = Head(down[s]) /\ f = down[s][1] /\ 1 \in 1..Len(down[s])
  BY <1>0, <1>1, TailIndex DEF Take
<1>3. CASE t # s
  <2>1. /\ expectedFcb'[t] = expectedFcb[t] /\ userData'[t] = userData[t]
        /\ indicated'[t] = indicated[t] /\ indicatedAgain'[t] = indicatedAgain[t]
        /\ resets'[t] = resets[t]
    BY <1>3, AnsweringOthers
  <2>2. up' = up \/ primaryState[t] \notin Asking
    <3>1. ASSUME NEW a, Answered(s, a)
          PROVE  primaryState[t] \notin Asking
      <4>1. waitingForResponse[s]
        BY <1>2, <3>1, RequestFitsAlone DEF Answered
      <4> QED
        BY <1>3, <4>1 DEF WaitsInTurn
    <3> QED
      BY <1>0, <3>1, AnswerSent
  <2>3. Untouched(t)
    BY <1>0, <1>1, <2>1, <2>2 DEF Untouched, PhaseKept, CommandKept, DataSame
  <2> QED
    BY <2>3 DEF Moves
<1>4. CASE t = s
  <2> USE <1>4
  <2>1. f.fc # "USER_DATA_NO_REPLY" => Asks(primaryState[s], f.fc) /\ up = <<>>
    BY <1>2, RequestFitsAlone
  <2>2. f.fc \in Numbered => Current(f, nextFcb[s], nextMessage[s])
    BY <1>2 DEF RequestsNow, RequestsOn
  <2>3. f.fc \in Numbered => /\ (rightFCB(s, f) <=> ~InPhase(s))
                            /\ (checkFCB(s, f) => expectedFcb'[s] = nextFcb[s])
    BY <1>0, <2>2 DEF Current, rightFCB, checkFCB, InPhase
  <2>4. CASE HandleRequestLinkStatus(s)
    <3>1. f.fc = "REQUEST_LINK_STATUS"
      BY <1>2, <2>4 DEF HandleRequestLinkStatus, TakeAndSend
    <3>2. primaryState[s] = "REQUEST_STATUS"
      BY <2>1, <3>1 DEF Asks
    <3>3. UNCHANGED <<expectedFcb, userData, indicated, indicatedAgain, resets>>
      BY <2>4 DEF HandleRequestLinkStatus, slave, history
    <3> QED
      BY <1>0, <1>1, <3>2, <3>3 DEF Moves, Untouched, PhaseKept, CommandKept, DataSame
  <2>5. CASE HandleResetRemoteLink(s)
    <3>1. f.fc = "RESET_REMOTE_LINK"
      BY <1>2, <2>5 DEF HandleResetRemoteLink, TakeAndSend
    <3>2. primaryState[s] = "RESET_REMOTE_LINK" /\ up = <<>>
      BY <2>1, <3>1 DEF Asks
    <3>3. /\ UNCHANGED <<userData, indicated, indicatedAgain>>
          /\ resets' = Counted(resets, s, TRUE)
      BY <2>5 DEF HandleResetRemoteLink
    <3>4. resets'[s] = resets[s] + One(resets[s] < MaxCount)
      BY <1>0, <3>3 DEF Counted, One
    <3> QED
      BY <1>1, <3>2, <3>3, <3>4 DEF Moves, IsReset, Replies, CommandKept, DataSame
  <2>6. CASE HandleUserDataConfirmed(s)
    <3>1. f.fc = "USER_DATA_CONFIRMED" /\ checkFCB(s, f)
          /\ IF rightFCB(s, f) THEN HandleReceivedData(s, f.command)
             ELSE UNCHANGED <<indicated, indicatedAgain>>
      BY <1>2, <2>6 DEF HandleUserDataConfirmed, TakeAndSend
    <3>2. primaryState[s] = "SEND_CONFIRM" /\ up = <<>> /\ nextMessage[s] # NoCommand
      BY <2>1, <3>1 DEF Asks, IInv, CommandInHand
    <3>3. /\ expectedFcb'[s] = nextFcb[s] /\ (rightFCB(s, f) <=> ~InPhase(s))
          /\ f.command = nextMessage[s]
      BY <2>2, <2>3, <3>1 DEF Numbered, Current
    <3>4. UNCHANGED <<userData, resets>>
      BY <2>6 DEF HandleUserDataConfirmed
    <3>5. CASE InPhase(s)
      BY <1>1, <3>1, <3>2, <3>3, <3>4, <3>5
         DEF Moves, GetsCommand, Replies, CommandKept, DataSame, CostSame
    <3>6. CASE ~InPhase(s)
      <4>1. /\ indicated' = [indicated EXCEPT ![s] = nextMessage[s]]
            /\ indicatedAgain' = Counted(indicatedAgain, s, nextMessage[s] = indicated[s])
        BY <3>1, <3>3, <3>6 DEF HandleReceivedData
      <4>2. indicated'[s] = nextMessage[s]
        BY <1>0, <4>1
      <4>3. indicatedAgain'[s] <= indicatedAgain[s] + One(nextMessage[s] = indicated[s])
        <5>1. PICK more \in BOOLEAN : more <=> nextMessage[s] = indicated[s]
          OBVIOUS
        <5>2. indicatedAgain' = Counted(indicatedAgain, s, more)
          BY <4>1, <5>1 DEF Counted
        <5>3. indicatedAgain'[s] <= indicatedAgain[s] + One(more)
          BY <1>0, <5>2, CountedUp
        <5> QED
          BY <5>1, <5>3 DEF One
      <4> QED
        BY <1>1, <3>2, <3>3, <3>4, <3>6, <4>2, <4>3
           DEF Moves, GetsCommand, Replies, DataSame, CostSame
    <3> QED
      BY <3>5, <3>6
  <2>7. ASSUME NEW c \in Classes,
               NEW fc \in {"REQUEST_USER_DATA_CLASS_1", "REQUEST_USER_DATA_CLASS_2"},
               HandleRequestUserData(s, c, fc)
        PROVE  Moves(s)
    <3>1. /\ f.fc = fc /\ checkFCB(s, f) /\ fc \in Numbered
          /\ IF ~rightFCB(s, f) THEN UNCHANGED <<queue, userData>> ELSE GetClassData(s, c)
      BY <1>2, <2>7 DEF HandleRequestUserData, Numbered, repeatedRequest
    <3>2. primaryState[s] = "REQUEST_RESPOND" /\ up = <<>>
      BY <2>1, <3>1 DEF Asks
    <3>3. expectedFcb'[s] = nextFcb[s] /\ (rightFCB(s, f) <=> ~InPhase(s))
      BY <2>3, <3>1
    <3>4. UNCHANGED <<indicated, indicatedAgain, resets>>
      BY <2>7 DEF HandleRequestUserData, history
    <3>5. IF InPhase(s) THEN userData'[s] = userData[s] ELSE ~Stale(s, userData'[s])
      BY <3>1, <3>3, FreshData
    <3>6. up' # <<>> /\ up'[1].fc = "RESP_USER_DATA" => up'[1].asdu = userData'[s]
      <4>1. ASSUME NEW a, up' = Append(up, a), Answered(s, a)
            PROVE  up'[1].fc = "RESP_USER_DATA" => up'[1].asdu = userData'[s]
        <5>1. up'[1] = a
          BY <3>2, <4>1
        <5> QED
          BY <4>1, <5>1 DEF Answered
      <4> QED
        BY <1>0, <3>2, <4>1, AnswerSent
    <3> QED
      BY <1>1, <3>2, <3>3, <3>4, <3>5, <3>6
         DEF Moves, GetsRequest, Replies, CommandKept, CostSame
  <2>8. CASE HandleUserDataNoReply(s)
    <3>1. UNCHANGED <<expectedFcb, userData, indicated, indicatedAgain, resets, up>>
      BY <2>8 DEF HandleUserDataNoReply, slave, history
    <3> QED
      BY <1>0, <1>1, <3>1 DEF Moves, Untouched, PhaseKept, CommandKept, DataSame
  <2>9. ~HandleTestFunction(s)
    BY <1>2, <2>1 DEF HandleTestFunction, TakeAndSend, Asks
  <2>10. ~ForeignAnswer(s)
    BY DEF ForeignAnswer
  <2> QED
    BY <2>4, <2>5, <2>6, <2>7, <2>8, <2>9, <2>10 DEF Answering, SlaveRun, Classes
<1> QED
  BY <1>3, <1>4

(* The state machine begins an exchange on a quiet line, repeats, or       *)
(* leaves the link.                                                        *)
LEMMA RunsMoves ==
  ASSUME IInv, WaitsInTurn, RequestFits, AnswerFits, ~Fault("late"),
         NEW s \in Slaves, Runs(s), NEW t \in Slaves
  PROVE  Moves(t)
<1>0. /\ primaryState \in [Slaves -> PrimaryStates] /\ nextFcb \in [Slaves -> BOOLEAN]
      /\ faults["restart"] \in Nat
      /\ primaryState[s] \in Asking => waitingForResponse[s]
      /\ ~sendLinkLayerTestFunction[s]
  BY DEF IInv, PlainTypes, BoundsOK, Faults, WaitsInTurn
<1>1. /\ UNCHANGED <<expectedFcb, userData, received, receivedAgain, indicated, indicatedAgain>>
      /\ UNCHANGED <<notIndicated, resets, up, nextMessage>> /\ faults' = faults
  BY RunsFrame
<1>2. ~RunResetWithoutStatus(s) /\ ~RunSendTest(s) /\ ~RunAvailableWithoutAck(s)
  BY <1>0 DEF RunResetWithoutStatus, RunSendTest, RunAvailableWithoutAck, Asking
<1>3. ASSUME primaryState'[t] = primaryState[t], nextFcb'[t] = nextFcb[t]
      PROVE  Moves(t)
  BY <1>0, <1>1, <1>3 DEF Moves, Untouched, PhaseKept, CommandKept, DataSame
<1>4. CASE t # s
  <2>1. primaryState' = primaryState \/ \E p : SetPrimaryState(s, p)
    BY DEF Runs, RunIdle, RunTimeoutOver, RunTimeoutStatusOrReset, RunResetWithoutStatus,
       RunAvailableWithoutAck, RunSendTest, RunSendCommand, RunRequestClass1, RunRequestClass2,
       NewExchange, RunRepeat, RunGiveUpCommand, RunGiveUpRequest, RunNothing, Available,
       Illegal, primary
  <2>2. nextFcb' = nextFcb \/ \E b : nextFcb' = [nextFcb EXCEPT ![s] = b]
    BY DEF Runs, RunIdle, RunTimeoutOver, RunTimeoutStatusOrReset, RunResetWithoutStatus,
       RunAvailableWithoutAck, RunSendTest, RunSendCommand, RunRequestClass1, RunRequestClass2,
       NewExchange, RunRepeat, RunGiveUpCommand, RunGiveUpRequest, RunNothing, primary
  <2>3. primaryState'[t] = primaryState[t] /\ nextFcb'[t] = nextFcb[t]
    BY <1>0, <1>4, <2>1, <2>2 DEF SetPrimaryState
  <2> QED
    BY <1>3, <2>3
<1>5. CASE t = s
  <2> USE <1>5
  <2>1. CASE RunNothing(s) \/ RunRepeat(s)
    BY <1>3, <2>1 DEF RunNothing, RunRepeat, primary
  <2>2. CASE RunIdle(s) \/ RunTimeoutOver(s) \/ RunTimeoutStatusOrReset(s)
             \/ RunGiveUpCommand(s) \/ RunGiveUpRequest(s)
    <3>1. nextFcb' = nextFcb /\ primaryState'[s] \in {"IDLE", "TIMEOUT", "REQUEST_STATUS"}
      BY <1>0, <2>2 DEF RunIdle, RunTimeoutOver, RunTimeoutStatusOrReset, RunGiveUpCommand,
         RunGiveUpRequest, Illegal, SetPrimaryState
    <3> QED
      BY <1>1, <3>1 DEF Moves, Leaves, PhaseKept, CommandKept, DataSame, CostSame
  <2>3. CASE RunSendCommand(s) \/ RunRequestClass1(s) \/ RunRequestClass2(s)
    <3>1. /\ Turn(s) /\ primaryState[s] = "LINK_LAYERS_AVAILABLE"
          /\ nextFcb' = [nextFcb EXCEPT ![s] = ~nextFcb[s]]
          /\ \/ SetPrimaryState(s, "SEND_CONFIRM") /\ nextMessage[s] # NoCommand
             \/ SetPrimaryState(s, "REQUEST_RESPOND") /\ nextMessage[s] = NoCommand
      BY <2>3 DEF RunSendCommand, RunRequestClass1, RunRequestClass2, NewExchange
    <3>2. up = <<>>
      <4>1. \A u \in Slaves : waitingForResponse[u] => u = s
        BY <3>1, TurnAlone
      <4>2. primaryState[s] \notin Asking
        BY <3>1 DEF Asking
      <4> QED
        BY <4>1, <4>2, QuietUnlessAsking
    <3>3. /\ nextFcb'[s] = ~nextFcb[s]
          /\ \/ primaryState'[s] = "SEND_CONFIRM" /\ nextMessage[s] # NoCommand
             \/ primaryState'[s] = "REQUEST_RESPOND" /\ nextMessage[s] = NoCommand
      BY <1>0, <3>1 DEF SetPrimaryState
    <3> QED
      BY <1>1, <3>1, <3>2, <3>3 DEF Moves, Begins, CommandKept, DataSame, CostSame
  <2> QED
    BY <1>2, <2>1, <2>2, <2>3 DEF Runs
<1> QED
  BY <1>4, <1>5

(* A user gives the master a command that no application has got.          *)
LEMMA UserMoves ==
  ASSUME IInv, CommandsOK, ~Fault("test"), NEW s \in Slaves, User(s), NEW t \in Slaves
  PROVE  Moves(t)
<1>0. /\ nextMessage \in [Slaves -> Nat] /\ submitted \in [Slaves -> Nat]
      /\ indicated \in [Slaves -> Nat] /\ faults["restart"] \in Nat
      /\ CommandsBetween(down[t], indicated[t], Latest(t))
      /\ primaryState[t] = "SEND_CONFIRM" => nextMessage[t] # NoCommand
  BY DEF IInv, BoundsOK, CommandsOK, CommandInHand, Faults
<1>1. /\ UNCHANGED <<primaryState, nextFcb, expectedFcb, userData, up, received, receivedAgain>>
      /\ UNCHANGED <<indicated, indicatedAgain, notIndicated, resets>> /\ faults' = faults
      /\ UNCHANGED nextMessage \/ SendASDU(s)
  BY UserFrame DEF sendTest
<1>2. CASE nextMessage'[t] = nextMessage[t]
  BY <1>0, <1>1, <1>2 DEF Moves, Untouched, PhaseKept, CommandKept, DataSame
<1>3. CASE nextMessage'[t] # nextMessage[t]
  <2>1. /\ submitted' = [submitted EXCEPT ![s] = submitted[s] + 1]
        /\ nextMessage[s] = NoCommand /\ nextMessage' = [nextMessage EXCEPT ![s] = submitted'[s]]
    BY <1>1, <1>3 DEF SendASDU
  <2>2. t = s
    BY <1>0, <1>3, <2>1
  <2>3. nextMessage'[t] = submitted[t] + 1 /\ nextMessage[t] = NoCommand
    BY <1>0, <2>1, <2>2
  <2>4. indicated[t] <= submitted[t]
    BY <1>0, <2>3 DEF CommandsBetween, Latest
  <2>5. nextMessage'[t] # indicated[t]
    BY <1>0, <2>3, <2>4
  <2> QED
    BY <1>0, <1>1, <2>3, <2>5 DEF Moves, GetsNew, PhaseKept, DataSame, CostSame
<1> QED
  BY <1>2, <1>3

(* What the line and a restart do to a slave.                              *)
LEMMA OtherMoves ==
  ASSUME IInv, AnswerFits, NEW t \in Slaves,
         \/ UNCHANGED vars \/ SendBroadcast \/ RunBroadcast \/ Lose
         \/ \E s \in Slaves : RestartSlave(s)
  PROVE  Moves(t)
<1>0. /\ expectedFcb \in [Slaves -> BOOLEAN] /\ userData = [u \in Slaves |-> userData[u]]
      /\ faults \in [Faults -> Nat] /\ faults["restart"] \in Nat
  BY DEF IInv, PlainTypes, QueuesOK, BoundsOK, Faults
<1>1. /\ UNCHANGED <<primaryState, nextFcb, received, receivedAgain, indicated>>
      /\ UNCHANGED <<indicatedAgain, notIndicated, resets, nextMessage>>
  BY DEF vars, SendBroadcast, RunBroadcast, Lose, RestartSlave, primary, history
<1>2. CASE UNCHANGED vars \/ SendBroadcast \/ RunBroadcast
  <2>1. UNCHANGED <<expectedFcb, userData, up, faults>>
    BY <1>2 DEF vars, SendBroadcast, RunBroadcast, slave
  <2> QED
    BY <1>0, <1>1, <2>1 DEF Moves, Untouched, PhaseKept, CommandKept, DataSame
<1>3. CASE Lose
  <2>1. UNCHANGED <<expectedFcb, userData>> /\ faults'["restart"] = faults["restart"]
    BY <1>0, <1>3 DEF Lose, slave, Fault, Faults
  <2>2. up' = up \/ up' = <<>>
    <3>1. CASE up # <<>> /\ up' = Tail(up)
      <4>1. up \in Seq(Answers) /\ Len(up) <= 1
        BY DEF IInv, LineOK, AnswerFits
      <4>2. Tail(up) \in Seq(Answers) /\ Len(Tail(up)) = Len(up) - 1 /\ Len(up) \in Nat \ {0}
        BY <3>1, <4>1, TailIndex
      <4>3. up' \in Seq(Answers) /\ Len(up') = 0
        BY <3>1, <4>1, <4>2
      <4> QED
        BY <4>3
    <3> QED
      BY <1>3, <3>1 DEF Lose
  <2> QED
    BY <1>0, <1>1, <2>1, <2>2 DEF Moves, Untouched, PhaseKept, CommandKept, DataSame
<1>4. ASSUME NEW s \in Slaves, RestartSlave(s)
      PROVE  Moves(t)
  <2>1. /\ expectedFcb' = [expectedFcb EXCEPT ![s] = TRUE]
        /\ userData' = [userData EXCEPT ![s] = Garbage] /\ up' = up
        /\ faults'["restart"] = faults["restart"] + 1
    BY <1>0, <1>4 DEF RestartSlave, Fault, Faults
  <2>2. CASE t = s
    <3>1. expectedFcb'[t] = TRUE /\ userData'[t] = Garbage
      BY <1>0, <2>1, <2>2
    <3> QED
      BY <1>1, <2>1, <3>1 DEF Moves, Forgets, CommandKept
  <2>3. CASE t # s
    <3>1. expectedFcb'[t] = expectedFcb[t] /\ userData'[t] = userData[t]
      BY <1>0, <2>1, <2>3
    <3>2. faults'["restart"] >= faults["restart"]
      BY <1>0, <2>1
    <3>3. PhaseKept(t) /\ CommandKept(t) /\ DataSame(t)
      BY <1>1, <3>1 DEF PhaseKept, CommandKept, DataSame
    <3>4. Untouched(t)
      BY <1>1, <2>1, <3>2, <3>3 DEF Untouched
    <3> QED
      BY <3>4 DEF Moves
  <2> QED
    BY <2>2, <2>3
<1> QED
  BY <1>2, <1>3, <1>4

-----------------------------------------------------------------------------
(* The debts are paid                                                      *)

(* The histories stay counts.                                              *)
LEMMA CountsKept ==
  ASSUME IInv, CountsOK, [Next]_vars
  PROVE  CountsOK'
<1>0. /\ notIndicated \in [Slaves -> Nat] /\ indicatedAgain \in [Slaves -> Nat]
      /\ receivedAgain \in [Slaves -> Nat] /\ resets \in [Slaves -> Nat]
  BY DEF CountsOK
<1>1. CASE UNCHANGED vars \/ RunBroadcast \/ SendBroadcast \/ Lose
  BY <1>0, <1>1 DEF vars, history, RunBroadcast, SendBroadcast, Lose, CountsOK
<1>2. ASSUME NEW s \in Slaves, RestartSlave(s) \/ User(s) \/ Runs(s)
      PROVE  CountsOK'
  <2>1. UNCHANGED <<receivedAgain, indicatedAgain, notIndicated, resets>>
    BY <1>2, UserFrame, RunsFrame DEF RestartSlave, history
  <2> QED
    BY <1>0, <2>1 DEF CountsOK
<1>3. ASSUME NEW s \in Slaves, Handles(s)
      PROVE  CountsOK'
  <2>1. UNCHANGED <<indicatedAgain, resets>>
    BY <1>3, HandlesFrame
  <2>2. notIndicated' \in [Slaves -> Nat]
    <3>1. \/ notIndicated' = notIndicated
          \/ notIndicated' = Counted(notIndicated, s, indicated[s] # nextMessage[s])
      BY <1>3 DEF Handles, HandleDFC, HandleAck, HandleOtherAck, HandleNack, HandleStatusOfLink,
         HandleUserData, HandleNoData, HandleUnexpectedData, HandleServiceNotImplemented, history
    <3> QED
      BY <1>0, <3>1 DEF Counted
  <2>3. receivedAgain' \in [Slaves -> Nat]
    <3>1. \/ receivedAgain' = receivedAgain
          \/ receivedAgain' = Counted(receivedAgain, s, TRUE)
          \/ \E a \in {Head(up).asdu} : receivedAgain' = Counted(receivedAgain, s, a[2] = received[s][a[1]])
      BY <1>3 DEF Handles, HandleDFC, HandleAck, HandleOtherAck, HandleNack, HandleStatusOfLink,
         HandleUserData, UserData, HandleNoData, HandleUnexpectedData,
         HandleServiceNotImplemented, history
    <3> QED
      BY <1>0, <3>1 DEF Counted
  <2> QED
    BY <1>0, <2>1, <2>2, <2>3 DEF CountsOK
<1>4. ASSUME NEW s \in Slaves, Answering(s)
      PROVE  CountsOK'
  <2>1. UNCHANGED <<receivedAgain, notIndicated>>
    BY <1>4, AnsweringFrame
  <2>2. indicatedAgain' \in [Slaves -> Nat]
    <3>1. \/ indicatedAgain' = indicatedAgain
          \/ \E c \in {Head(down[s]).command} :
               indicatedAgain' = Counted(indicatedAgain, s, c = indicated[s])
      BY <1>4 DEF Answering, SlaveRun, ForeignAnswer, HandleRequestLinkStatus,
         HandleResetRemoteLink, HandleRequestUserData, HandleUserDataConfirmed,
         HandleReceivedData, HandleUserDataNoReply, HandleTestFunction, history
    <3> QED
      BY <1>0, <3>1 DEF Counted
  <2>3. resets' \in [Slaves -> Nat]
    <3>1. resets' = resets \/ resets' = Counted(resets, s, TRUE)
      BY <1>4 DEF Answering, SlaveRun, ForeignAnswer, HandleRequestLinkStatus,
         HandleResetRemoteLink, HandleRequestUserData, HandleUserDataConfirmed,
         HandleUserDataNoReply, HandleTestFunction, history
    <3> QED
      BY <1>0, <3>1 DEF Counted
  <2> QED
    BY <1>0, <2>1, <2>2, <2>3 DEF CountsOK
<1> QED
  BY <1>1, <1>2, <1>3, <1>4, Steps

(* While the master is in step, a step does one of these things to a slave. *)
LEMMA NextMoves ==
  ASSUME OInv, OInv', CountsOK, ~OutOfStep => RequestsNow, [Next]_vars, ~OutOfStep',
         NEW t \in Slaves
  PROVE  Moves(t)
<1>1. /\ IInv /\ IInv' /\ CommandsOK /\ DataOK /\ BoundsOK
  BY DEF OInv, IInv
<1>2. ~OutOfStep /\ ~Fault("late") /\ ~Fault("test") /\ ~Fault("foreign")
  BY <1>1, InStep
<1>3. WaitsInTurn /\ RequestFits /\ AnswerFits /\ RequestsNow
  BY <1>1, <1>2 DEF IInv, OneExchange
<1>4. ASSUME \/ UNCHANGED vars \/ SendBroadcast \/ RunBroadcast \/ Lose
             \/ \E s \in Slaves : RestartSlave(s)
      PROVE  Moves(t)
  BY <1>1, <1>3, <1>4, OtherMoves
<1>5. ASSUME NEW s \in Slaves, Handles(s)
      PROVE  Moves(t)
  BY <1>1, <1>3, <1>5, HandlesMoves
<1>6. ASSUME NEW s \in Slaves, Runs(s)
      PROVE  Moves(t)
  BY <1>1, <1>2, <1>3, <1>6, RunsMoves
<1>7. ASSUME NEW s \in Slaves, Answering(s)
      PROVE  Moves(t)
  BY <1>1, <1>2, <1>3, <1>7, AnsweringMoves
<1>8. ASSUME NEW s \in Slaves, User(s)
      PROVE  Moves(t)
  BY <1>1, <1>2, <1>8, UserMoves
<1> QED
  BY <1>4, <1>5, <1>6, <1>7, <1>8, Steps

(* At the beginning nothing is owed.                                       *)
LEMMA InitDInv ==
  ASSUME Init
  PROVE  DInv
<1>1. OInv
  BY InitOInv
<1>2. /\ \A s \in Slaves : primaryState[s] = "IDLE" /\ nextMessage[s] = NoCommand
      /\ \A s \in Slaves : notIndicated[s] = 0 /\ indicatedAgain[s] = 0 /\ receivedAgain[s] = 0
      /\ \A s \in Slaves : resets[s] = 0 /\ down[s] = <<>> /\ Len(down[s]) = 0
      /\ up = <<>> /\ faults["restart"] = 0
  BY DEF Init, NewConnection, Faults
<1>3. CountsOK
  BY DEF Init, CountsOK
<1>4. RequestsNow
  BY <1>2 DEF RequestsNow, RequestsOn
<1>5. ASSUME NEW s \in Slaves
      PROVE  Covers(s)
  <2>1. SkipDebt(s) = 0 /\ One(ToRepeat(s)) = 0 /\ StaleDebt(s) = 0
    BY <1>2, <1>5 DEF SkipDebt, ToRepeat, StaleDebt, ToSkip, Skipped, Concluded, One
  <2> QED
    BY <1>2, <2>1 DEF Covers, Covered
<1> QED
  BY <1>1, <1>3, <1>4, <1>5 DEF DInv

(* The inductive step. *)
LEMMA NextDInv ==
  ASSUME DInv, [Next]_vars
  PROVE  DInv'
<1>1. OInv /\ CountsOK /\ IInv /\ BoundsOK /\ PlainTypes
  BY DEF DInv, OInv, IInv
<1>2. OInv' /\ IInv' /\ BoundsOK' /\ PlainTypes'
  <2>1. OInv'
    BY <1>1, NextArrives
  <2> QED
    BY <2>1 DEF OInv, IInv
<1>3. CountsOK'
  BY <1>1, CountsKept
<1>4. ASSUME ~OutOfStep'
      PROVE  RequestsNow' /\ \A s \in Slaves : Covers(s)'
  <2>1. ~OutOfStep /\ RequestsNow /\ \A s \in Slaves : Covers(s)
    BY <1>1, <1>4, InStep DEF DInv
  <2>2. RequestsNow'
    BY <1>1, <1>4, <2>1, RequestsNowKept
  <2>3. ASSUME NEW s \in Slaves
        PROVE  Covers(s)'
    <3>1. Moves(s)
      BY <1>1, <1>2, <1>4, <2>1, NextMoves
    <3>2. faults["restart"] \in Nat /\ faults'["restart"] \in Nat /\ MaxCount \in Nat
      BY <1>1, <1>2, UnbalancedAssumption DEF BoundsOK, Faults
    <3>3. Values(s)
      BY <1>1, <3>2 DEF Values, PlainTypes, CountsOK
    <3>4. Values(s)'
      BY <1>2, <1>3, <3>2 DEF Values, PlainTypes, CountsOK
    <3>5. Covered(s, notIndicated, SkipDebt(s))'
      BY <2>1, <3>1, <3>2, <3>3, <3>4, SkipsCovered DEF Covers
    <3>6. Covered(s, indicatedAgain, One(ToRepeat(s)))'
      BY <2>1, <3>1, <3>2, <3>3, <3>4, RepeatsCovered DEF Covers
    <3>7. Covered(s, receivedAgain, StaleDebt(s))'
      BY <2>1, <3>1, <3>2, <3>3, <3>4, StaleCovered DEF Covers
    <3> QED
      BY <3>5, <3>6, <3>7 DEF Covers
  <2> QED
    BY <2>2, <2>3
<1> QED
  BY <1>2, <1>3, <1>4 DEF DInv

(* What is covered is not more than the disturbances.                      *)
LEMMA DInvOnce ==
  ASSUME DInv, ~OutOfStep
  PROVE  OnceUnlessDisturbed
<1>1. /\ faults \in [Faults -> Nat] /\ CountsOK /\ \A s \in Slaves : Covers(s)
  BY DEF DInv, OInv, IInv, BoundsOK
<1>2. /\ faults["restart"] \in Nat /\ faults["late"] \in Nat /\ faults["test"] \in Nat
      /\ faults["foreign"] \in Nat
  BY <1>1 DEF Faults
<1>3. ASSUME NEW s \in Slaves, resets[s] < MaxCount
      PROVE  /\ indicatedAgain[s] <= Disturbances(s) /\ receivedAgain[s] <= Disturbances(s)
             /\ notIndicated[s] <= Disturbances(s)
  <2>1. /\ notIndicated[s] \in Nat /\ indicatedAgain[s] \in Nat /\ receivedAgain[s] \in Nat
        /\ resets[s] \in Nat
    BY <1>1 DEF CountsOK
  <2>2. SkipDebt(s) \in Nat /\ One(ToRepeat(s)) \in Nat /\ StaleDebt(s) \in Nat
    BY DEF SkipDebt, StaleDebt, One
  <2>3. /\ notIndicated[s] + SkipDebt(s) <= resets[s] + faults["restart"]
        /\ indicatedAgain[s] + One(ToRepeat(s)) <= resets[s] + faults["restart"]
        /\ receivedAgain[s] + StaleDebt(s) <= resets[s] + faults["restart"]
    BY <1>1, <1>3 DEF Covers, Covered
  <2>4. Disturbances(s) >= resets[s] + faults["restart"] /\ Disturbances(s) \in Nat
    BY <1>2, <2>1 DEF Disturbances
  <2> QED
    BY <1>2, <2>1, <2>2, <2>3, <2>4
<1> QED
  BY <1>3 DEF OnceUnlessDisturbed, AtMostDisturbances

(* While the master is in step, however many frames are lost and slaves    *)
(* restart: a command is handed to an application twice or acknowledged    *)
(* and dropped, and an ASDU handed over twice, no more often than links    *)
(* were reset and slaves restarted (checkFCB, nextFcb, repetition).        *)
THEOREM OnceInStep == Spec => [](~OutOfStep => OnceUnlessDisturbed)
<1>1. Init => DInv
  BY InitDInv
<1>2. DInv /\ [Next]_vars => DInv'
  BY NextDInv
<1>3. DInv => (~OutOfStep => OnceUnlessDisturbed)
  BY DInvOnce
<1> QED
  BY <1>1, <1>2, <1>3, PTL DEF Spec
=============================================================================
