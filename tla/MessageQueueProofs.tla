------------------------- MODULE MessageQueueProofs -------------------------
(***************************************************************************)
(* Proofs about the event queue of the CS104 server, for every buffer with *)
(* room for two ASDUs of any sizes, as every queue of at least two slots   *)
(* has.  (With one slot the queue is corrupted: see the run                *)
(* messagequeue_one_slot.)                                                 *)
(***************************************************************************)
EXTENDS MessageQueue, FiniteSetTheorems, TLAPS

RoomForTwo == \A s, t \in AsduSizes : (HeaderSize + s) + (HeaderSize + t) <= Size

-----------------------------------------------------------------------------
(* Iterated functions: the loops that go from one entry of the buffer to   *)
(* the next                                                                *)

(* A set of natural numbers that has an element has a least one. *)
LEMMA LeastNatural ==
  ASSUME NEW T \in SUBSET Nat, T # {}
  PROVE  \E x \in T : \A y \in T : x <= y
<1> DEFINE R == StrictSubsetOrdering(Nat)
           S == FiniteSubsetsOf(Nat)
           U == {1..k : k \in T}
<1>1. IsWellFoundedOn(R, S)
  BY FS_StrictSubsetOrderingWellFounded
<1>2. U \subseteq S /\ U # {}
  <2>1. \A k \in T : 1..k \subseteq Nat /\ IsFiniteSet(1..k)
    BY FS_Interval
  <2> QED
    BY <2>1 DEF FiniteSubsetsOf
<1>3. PICK u \in U : \A v \in U : ~ (<<v, u>> \in R)
  <2> HIDE DEF R, S, U
  <2> QED
    BY <1>1, <1>2, WFMin
<1>4. PICK x \in T : u = 1..x
  OBVIOUS
<1>5. ASSUME NEW y \in T, ~ x <= y PROVE FALSE
  <2>1. 1..y \subseteq 1..x /\ 1..y # 1..x
    <3>1. x \in Nat /\ y \in Nat /\ x \in 1..x /\ x \notin 1..y
      BY <1>5
    <3> QED
      BY <3>1
  <2>2. <<1..y, 1..x>> \in R
    BY <2>1 DEF StrictSubsetOrdering
  <2> QED
    BY <2>2, <1>3, <1>4
<1> QED
  BY <1>5

(* f is x, g[x], g[g[x]] and so on. *)
IsIteration(f, M, x, g) == f = [i \in 1..M |-> IF i = 1 THEN x ELSE g[f[i - 1]]]

(* There is such a function, so what is recursively defined as one is one. *)
LEMMA Iteration ==
  ASSUME NEW M \in Nat, NEW x, NEW g
  PROVE  \E f : IsIteration(f, M, x, g)
<1> DEFINE Def(k, f) == IsIteration(f, k, x, g)
           T == {k \in Nat : ~\E f : Def(k, f)}
<1> SUFFICES ASSUME M \in T PROVE FALSE
  OBVIOUS
<1>1. PICK k \in T : \A j \in T : k <= j
  <2> HIDE DEF Def
  <2> QED BY LeastNatural
<1>2. k # 0
  <2> DEFINE e == [i \in 1..0 |-> x]
  <2>1. Def(0, e)
    BY DEF IsIteration
  <2> QED BY <2>1
<1>3. k - 1 \in Nat /\ k - 1 \notin T
  <2> HIDE DEF Def
  <2> QED  BY <1>1, <1>2
<1>4. PICK f : Def(k - 1, f)
  <2> HIDE DEF Def
  <2> QED  BY <1>3
<1> DEFINE h == [i \in 1..k |-> IF i = 1 THEN x ELSE g[f[i - 1]]]
<1>5. \A i \in 1..(k - 1) : h[i] = f[i]
  BY <1>4, <1>3 DEF IsIteration
<1>6. Def(k, h)
  <2>1. \A i \in 1..k : i # 1 => i - 1 \in 1..(k - 1)
    BY <1>3
  <2>2. \A i \in 1..k : h[i] = IF i = 1 THEN x ELSE g[h[i - 1]]
    BY <1>5, <2>1
  <2> QED BY <2>2 DEF IsIteration
<1> QED
  BY <1>6, <1>1

-----------------------------------------------------------------------------
(* How the entries lie in the buffer                                       *)

End(mm, p) == p + HeaderSize + mm[p].size

(* w is the sequence of the addresses of n entries, oldest first; the k-th *)
(* is the one at the end of the buffer, behind which the next is at offset *)
(* 0.  The entries do not overlap: the ones at the beginning of the buffer *)
(* lie before the older ones at its end.                                   *)
Layout(w, n, k, mm) ==
  /\ n \in Nat \ {0} /\ k \in 1..n
  /\ w \in [1..n -> Offsets]
  /\ \A i \in 1..n : mm[w[i]].size \in AsduSizes /\ End(mm, w[i]) <= Size
  /\ \A i \in 1..(n - 1) : w[i + 1] = IF i = k THEN 0 ELSE End(mm, w[i])
  /\ \A i, j \in 1..n : i < j =>
       IF i <= k /\ k < j THEN End(mm, w[j]) <= w[i] ELSE End(mm, w[i]) <= w[j]

(* The addresses of an entry are in range, and it has a byte at least.     *)
LEMMA EntryInBuffer ==
  ASSUME NEW w, NEW n, NEW k, NEW mm, Layout(w, n, k, mm), NEW i \in 1..n
  PROVE  /\ w[i] \in Offsets /\ w[i] \in Nat
         /\ mm[w[i]].size \in Nat /\ End(mm, w[i]) \in Nat
         /\ w[i] < End(mm, w[i]) /\ End(mm, w[i]) <= Size
         /\ Size \in Nat /\ HeaderSize \in Nat \ {0}
<1>1. w[i] \in Offsets /\ mm[w[i]].size \in AsduSizes /\ End(mm, w[i]) <= Size
  BY DEF Layout
<1>2. Size \in Nat /\ HeaderSize \in Nat \ {0} /\ mm[w[i]].size \in Nat
  BY <1>1, SizesAssumption
<1> QED
  BY <1>1, <1>2 DEF Offsets, End

(* Different entries are at different addresses.                           *)
LEMMA EntriesApart ==
  ASSUME NEW w, NEW n, NEW k, NEW mm, Layout(w, n, k, mm),
         NEW i \in 1..n, NEW j \in 1..n, w[i] = w[j]
  PROVE  i = j
<1>1. i \in Int /\ j \in Int
  BY DEF Layout
<1>2. ASSUME NEW a \in 1..n, NEW b \in 1..n, a < b PROVE w[a] # w[b]
  <2>1. /\ w[a] \in Nat /\ w[b] \in Nat /\ End(mm, w[a]) \in Nat /\ End(mm, w[b]) \in Nat
        /\ w[a] < End(mm, w[a]) /\ w[b] < End(mm, w[b])
    BY EntryInBuffer
  <2>2. End(mm, w[b]) <= w[a] \/ End(mm, w[a]) <= w[b]
    BY <1>2 DEF Layout
  <2> QED
    BY <2>1, <2>2
<1> QED
  BY <1>1, <1>2

(* The walk of the code through the buffer.                                *)
Successor(lib) == [p \in Offsets |-> IF p = lib THEN 0 ELSE EndOf(p) % Size]

LEMMA ChainIsWalk ==
  ASSUME NEW first, NEW lib
  PROVE  IsIteration(Chain(first, lib), MaxEntries, first, Successor(lib))
<1>1. \E f : IsIteration(f, MaxEntries, first, Successor(lib))
  BY BoundsAssumption, Iteration DEF MaxEntries
<1> QED
  BY <1>1 DEF Chain, IsIteration, Successor

(* It visits the entries in their order.                                   *)
LEMMA ChainFollows ==
  ASSUME NEW w, NEW n, NEW k, Layout(w, n, k, mem), n <= MaxEntries
  PROVE  \A i \in 1..n : Chain(w[1], w[k])[i] = w[i]
<1> DEFINE ch == Chain(w[1], w[k])
           T == {i \in 1..n : ch[i] # w[i]}
<1>0. n \in Nat \ {0} /\ MaxEntries \in Nat /\ k \in 1..n
  BY BoundsAssumption DEF Layout, MaxEntries
<1>1. \A i \in 1..n : ch[i] = IF i = 1 THEN w[1] ELSE Successor(w[k])[ch[i - 1]]
  <2>1. IsIteration(ch, MaxEntries, w[1], Successor(w[k]))
    BY ChainIsWalk
  <2> HIDE DEF ch
  <2>2. \A i \in 1..n : i \in 1..MaxEntries
    BY <1>0
  <2> QED
    BY <2>1, <2>2 DEF IsIteration
<1> HIDE DEF ch
<1> SUFFICES ASSUME T # {} PROVE FALSE
  BY DEF ch
<1>2. PICK i \in T : \A j \in T : i <= j
  <2>1. T \in SUBSET Nat
    BY <1>0
  <2> HIDE DEF T
  <2> QED
    BY <2>1, LeastNatural
<1>3. i \in 1..n /\ ch[i] # w[i] /\ i # 1
  BY <1>1
<1>4. i - 1 \in 1..n /\ i - 1 \in 1..(n - 1) /\ (i - 1) + 1 = i /\ i - 1 < i /\ i - 1 \in Int
  BY <1>0, <1>3
<1>5. ch[i - 1] = w[i - 1]
  BY <1>2, <1>3, <1>4
<1>6. w[i - 1] \in Offsets /\ (w[i - 1] = w[k] <=> i - 1 = k)
  BY <1>0, <1>4, EntryInBuffer, EntriesApart
<1>7. w[i] = IF i - 1 = k THEN 0 ELSE End(mem, w[i - 1])
  BY <1>4 DEF Layout
<1>8. w[i] \in Nat /\ w[i] < Size /\ Size \in Nat
  BY <1>3, EntryInBuffer DEF Offsets
<1>9. i - 1 # k => EndOf(w[i - 1]) % Size = w[i]
  <2>1. \A x \in Nat : x < Size => x % Size = x
    BY <1>8
  <2> QED
    BY <1>7, <1>8, <2>1 DEF End, EndOf
<1>10. ch[i] = w[i]
  BY <1>1, <1>3, <1>5, <1>6, <1>7, <1>9 DEF Successor
<1> QED
  BY <1>3, <1>10

(* How many entries a loop visits until it comes to the k-th.              *)
LEMMA LengthUntilEntry ==
  ASSUME NEW w, NEW n, NEW k, Layout(w, n, k, mem), n <= MaxEntries, NEW j \in 1..n
  PROVE  LengthUntil(Chain(w[1], w[k]), w[j]) = j
<1> DEFINE ch == Chain(w[1], w[k])
           S == {i \in DOMAIN ch : ch[i] = w[j]} \cup {MaxEntries}
<1>0. n \in Nat \ {0} /\ MaxEntries \in Nat /\ j \in Nat
  BY BoundsAssumption DEF Layout, MaxEntries
<1>1. DOMAIN ch = 1..MaxEntries
  BY ChainIsWalk DEF IsIteration
<1>2. \A i \in 1..n : ch[i] = w[i]
  BY ChainFollows
<1> HIDE DEF ch
<1>3. j \in S /\ j \in 1..MaxEntries
  BY <1>0, <1>1, <1>2
<1>4. ASSUME NEW i \in S PROVE i \in Nat /\ j <= i
  <2>1. CASE i \in 1..n /\ ch[i] = w[j]
    BY <1>0, <1>2, <2>1, EntriesApart
  <2>2. CASE ~(i \in 1..n /\ ch[i] = w[j])
    BY <1>0, <1>1, <2>2
  <2> QED
    BY <2>1, <2>2
<1>5. LengthUntil(ch, w[j]) = Min(S)
  BY DEF LengthUntil
<1>6. \A m \in S : (\A i \in S : m <= i) <=> m = j
  BY <1>0, <1>3, <1>4
<1> HIDE DEF S
<1>7. Min(S) = j
  BY <1>3, <1>4, <1>6 DEF Min
<1> QED
  BY <1>5, <1>7 DEF ch

-----------------------------------------------------------------------------
(* What enqueueing does to the layout                                      *)

Without(w, n, d) == [i \in 1..(n - d) |-> w[i + d]]

(* When the oldest entries leave, the layout of the others stays.          *)
LEMMA OldestLeave ==
  ASSUME NEW w, NEW n, NEW k, NEW mm, Layout(w, n, k, mm), NEW d \in 0..(k - 1)
  PROVE  Layout(Without(w, n, d), n - d, k - d, mm)
<1> DEFINE u == Without(w, n, d)
<1>0. n \in Nat \ {0} /\ k \in 1..n /\ d \in Nat /\ d < n /\ d < k
  BY DEF Layout
<1>1. n - d \in Nat \ {0} /\ k - d \in 1..(n - d)
  BY <1>0
<1>2. \A i \in 1..(n - d) : i + d \in 1..n /\ u[i] = w[i + d]
  BY <1>0 DEF Without
<1>3. u \in [1..(n - d) -> Offsets]
  BY <1>2 DEF Layout, Without
<1> HIDE DEF u
<1>4. \A i \in 1..(n - d) : mm[u[i]].size \in AsduSizes /\ End(mm, u[i]) <= Size
  BY <1>2 DEF Layout
<1>5. ASSUME NEW i \in 1..(n - d - 1)
      PROVE  u[i + 1] = IF i = k - d THEN 0 ELSE End(mm, u[i])
  <2>1. /\ i \in 1..(n - d) /\ i + 1 \in 1..(n - d) /\ i + d \in 1..(n - 1)
        /\ (i + 1) + d = (i + d) + 1 /\ (i + d = k <=> i = k - d)
    BY <1>0
  <2>2. u[i] = w[i + d] /\ u[i + 1] = w[(i + d) + 1]
    BY <1>2, <2>1
  <2> QED
    BY <2>1, <2>2 DEF Layout
<1>6. ASSUME NEW i \in 1..(n - d), NEW j \in 1..(n - d), i < j
      PROVE  IF i <= k - d /\ k - d < j THEN End(mm, u[j]) <= u[i] ELSE End(mm, u[i]) <= u[j]
  <2>1. /\ i + d \in 1..n /\ j + d \in 1..n /\ i + d < j + d
        /\ (i + d <= k <=> i <= k - d) /\ (k < j + d <=> k - d < j)
    BY <1>0, <1>6
  <2> QED
    BY <1>2, <2>1 DEF Layout
<1> QED
  BY <1>1, <1>3, <1>4, <1>5, <1>6 DEF Layout, u

(* When all entries at the end of the buffer leave, the others lie in one  *)
(* piece from offset 0 on.                                                 *)
LEMMA UpperLeave ==
  ASSUME NEW w, NEW n, NEW k, NEW mm, Layout(w, n, k, mm), k # n
  PROVE  /\ Layout(Without(w, n, k), n - k, n - k, mm)
         /\ Without(w, n, k)[1] = 0 /\ n - k \in 1..n
<1> DEFINE u == Without(w, n, k)
<1>0. n \in Nat \ {0} /\ k \in 1..n /\ k \in Nat /\ k < n /\ k \in 1..(n - 1)
  BY DEF Layout
<1>1. n - k \in Nat \ {0} /\ n - k \in 1..(n - k) /\ n - k \in 1..n
  BY <1>0
<1>2. \A i \in 1..(n - k) : i + k \in 1..n /\ u[i] = w[i + k]
  BY <1>0 DEF Without
<1>3. u \in [1..(n - k) -> Offsets]
  BY <1>2 DEF Layout, Without
<1> HIDE DEF u
<1>4. \A i \in 1..(n - k) : mm[u[i]].size \in AsduSizes /\ End(mm, u[i]) <= Size
  BY <1>2 DEF Layout
<1>5. ASSUME NEW i \in 1..(n - k - 1)
      PROVE  u[i + 1] = IF i = n - k THEN 0 ELSE End(mm, u[i])
  <2>1. /\ i \in 1..(n - k) /\ i + 1 \in 1..(n - k) /\ i + k \in 1..(n - 1)
        /\ (i + 1) + k = (i + k) + 1 /\ i + k # k /\ i # n - k
    BY <1>0
  <2>2. u[i] = w[i + k] /\ u[i + 1] = w[(i + k) + 1]
    BY <1>2, <2>1
  <2> QED
    BY <2>1, <2>2 DEF Layout
<1>6. ASSUME NEW i \in 1..(n - k), NEW j \in 1..(n - k), i < j
      PROVE  IF i <= n - k /\ n - k < j THEN End(mm, u[j]) <= u[i] ELSE End(mm, u[i]) <= u[j]
  <2>1. /\ i + k \in 1..n /\ j + k \in 1..n /\ i + k < j + k /\ ~(i + k <= k)
        /\ ~(n - k < j)
    BY <1>0, <1>6
  <2> QED
    BY <1>2, <2>1 DEF Layout
<1>7. u[1] = 0
  <2>1. w[k + 1] = 0
    BY <1>0 DEF Layout
  <2>2. 1 \in 1..(n - k) /\ 1 + k = k + 1
    BY <1>0
  <2> QED
    BY <1>2, <2>1, <2>2
<1> QED
  BY <1>1, <1>3, <1>4, <1>5, <1>6, <1>7 DEF Layout, u

(* The memory after an entry was written at next.                          *)
Written(mm, next, entry) ==
  [p \in Offsets |-> IF p = next THEN entry
                     ELSE IF p > next /\ p < next + HeaderSize + entry.size THEN Blank ELSE mm[p]]

With(u, n, next) == [i \in 1..(n + 1) |-> IF i = n + 1 THEN next ELSE u[i]]

(* What is written beside the entries leaves them alone.                   *)
LEMMA EntriesUntouched ==
  ASSUME NEW u, NEW n, NEW k, NEW mm, Layout(u, n, k, mm),
         NEW next \in Offsets, NEW entry, entry.size \in AsduSizes,
         \A i \in 1..n : End(mm, u[i]) <= next \/ next + HeaderSize + entry.size <= u[i]
  PROVE  /\ \A i \in 1..n : Written(mm, next, entry)[u[i]] = mm[u[i]]
         /\ Written(mm, next, entry)[next] = entry
<1>1. Written(mm, next, entry)[next] = entry
  BY DEF Written
<1>2. ASSUME NEW i \in 1..n
      PROVE  Written(mm, next, entry)[u[i]] = mm[u[i]]
  <2>1. /\ u[i] \in Offsets /\ u[i] \in Nat /\ End(mm, u[i]) \in Nat
        /\ u[i] < End(mm, u[i]) /\ HeaderSize \in Nat \ {0} /\ Size \in Nat
    BY EntryInBuffer
  <2>2. next \in Nat /\ entry.size \in Nat
    <3>1. next \in Nat
      BY <2>1 DEF Offsets
    <3>2. AsduSizes \subseteq Nat
      BY SizesAssumption
    <3> QED
      BY <3>1, <3>2
  <2>3. End(mm, u[i]) <= next \/ next + HeaderSize + entry.size <= u[i]
    OBVIOUS
  <2>4. u[i] # next /\ ~(u[i] > next /\ u[i] < next + HeaderSize + entry.size)
    BY <2>1, <2>2, <2>3
  <2> QED
    BY <2>1, <2>4 DEF Written
<1> QED
  BY <1>1, <1>2

(* The new entry is placed behind the last one, or at offset 0 before all  *)
(* others; in the first case it is the one at the end of the buffer when   *)
(* the last one was.                                                       *)
LEMMA NewestComes ==
  ASSUME NEW u, NEW n, NEW k, NEW mm, Layout(u, n, k, mm),
         NEW next \in Offsets, NEW entry, entry.size \in AsduSizes,
         next + HeaderSize + entry.size <= Size,
         NEW l, \/ l = n + 1 /\ k = n /\ next = End(mm, u[n])
                \/ l = k /\ k # n /\ next = End(mm, u[n])
                                  /\ next + HeaderSize + entry.size <= u[1]
                \/ l = k /\ k = n /\ next = 0 /\ HeaderSize + entry.size <= u[1]
  PROVE  /\ Layout(With(u, n, next), n + 1, l, Written(mm, next, entry))
         /\ \A i \in 1..n : Written(mm, next, entry)[u[i]] = mm[u[i]]
         /\ Written(mm, next, entry)[next] = entry
<1> DEFINE v == With(u, n, next)
           m2 == Written(mm, next, entry)
           end == next + HeaderSize + entry.size
<1>0. /\ n \in Nat \ {0} /\ k \in 1..n /\ Size \in Nat /\ HeaderSize \in Nat \ {0}
      /\ next \in Nat /\ entry.size \in Nat
  <2>1. n \in Nat \ {0} /\ k \in 1..n
    BY DEF Layout
  <2>2. Size \in Nat /\ HeaderSize \in Nat \ {0} /\ AsduSizes \subseteq Nat
    BY SizesAssumption
  <2>3. next \in Nat
    BY <2>2 DEF Offsets
  <2> QED
    BY <2>1, <2>2, <2>3
<1>1. \A i \in 1..n : /\ u[i] \in Offsets /\ u[i] \in Nat
                      /\ End(mm, u[i]) \in Nat /\ u[i] < End(mm, u[i]) /\ End(mm, u[i]) <= Size
  BY EntryInBuffer
<1>2. \A i \in 1..n : /\ i <= k => u[1] <= u[i]
                      /\ (k < i \/ k = n) => End(mm, u[i]) <= End(mm, u[n])
  <2> SUFFICES ASSUME NEW i \in 1..n
               PROVE  /\ i <= k => u[1] <= u[i]
                      /\ (k < i \/ k = n) => End(mm, u[i]) <= End(mm, u[n])
    OBVIOUS
  <2>1. 1 \in 1..n /\ n \in 1..n /\ (i = 1 \/ 1 < i) /\ (i = n \/ i < n)
    BY <1>0
  <2>2. 1 < i /\ i <= k => End(mm, u[1]) <= u[i]
    BY <1>0, <2>1 DEF Layout
  <2>3. i < n /\ (k < i \/ k = n) => End(mm, u[i]) <= u[n]
    BY <1>0, <2>1 DEF Layout
  <2> QED
    BY <1>1, <2>1, <2>2, <2>3
<1>3. \A i \in 1..n : IF i <= l /\ l < n + 1 THEN end <= u[i] ELSE End(mm, u[i]) <= next
  BY <1>0, <1>1, <1>2
<1>4. /\ \A i \in 1..n : m2[u[i]] = mm[u[i]]
      /\ m2[next] = entry
  BY <1>3, EntriesUntouched
<1>5. /\ \A i \in 1..n : i \in 1..(n + 1) /\ v[i] = u[i] /\ End(m2, v[i]) = End(mm, u[i])
      /\ n + 1 \in 1..(n + 1) /\ v[n + 1] = next /\ End(m2, v[n + 1]) = end
  BY <1>0, <1>4 DEF With, End
<1>6. n + 1 \in Nat \ {0} /\ l \in 1..(n + 1)
  BY <1>0
<1>7. v \in [1..(n + 1) -> Offsets]
  BY <1>0, <1>1 DEF With
<1>8. \A i \in 1..(n + 1) : i \in 1..n \/ i = n + 1
  BY <1>0
<1> HIDE DEF v, m2, end
<1>9. ASSUME NEW i \in 1..(n + 1)
      PROVE  m2[v[i]].size \in AsduSizes /\ End(m2, v[i]) <= Size
  <2>1. CASE i \in 1..n
    BY <1>1, <1>4, <1>5, <2>1 DEF Layout
  <2>2. CASE i = n + 1
    BY <1>4, <1>5, <2>2 DEF end
  <2> QED
    BY <1>8, <2>1, <2>2
<1>10. ASSUME NEW i \in 1..(n + 1 - 1)
       PROVE  v[i + 1] = IF i = l THEN 0 ELSE End(m2, v[i])
  <2>1. i \in 1..n /\ (i = n \/ i \in 1..(n - 1))
    BY <1>0
  <2>2. CASE i = n
    <3>1. next = IF n = l THEN 0 ELSE End(mm, u[n])
      BY <1>0
    <3> QED
      BY <1>5, <2>1, <2>2, <3>1
  <2>3. CASE i \in 1..(n - 1)
    <3>1. u[i + 1] = IF i = k THEN 0 ELSE End(mm, u[i])
      BY <2>3 DEF Layout
    <3>2. i + 1 \in 1..n /\ (i = l <=> i = k)
      BY <1>0, <2>3
    <3> QED
      BY <1>5, <2>1, <3>1, <3>2
  <2> QED
    BY <2>1, <2>2, <2>3
<1>11. ASSUME NEW i \in 1..(n + 1), NEW j \in 1..(n + 1), i < j
       PROVE  IF i <= l /\ l < j THEN End(m2, v[j]) <= v[i] ELSE End(m2, v[i]) <= v[j]
  <2>1. i \in 1..n
    BY <1>0, <1>11
  <2>2. CASE j \in 1..n
    <3>1. IF i <= k /\ k < j THEN End(mm, u[j]) <= u[i] ELSE End(mm, u[i]) <= u[j]
      BY <1>11, <2>1, <2>2 DEF Layout
    <3>2. (i <= l /\ l < j) <=> (i <= k /\ k < j)
      BY <1>0, <2>1, <2>2
    <3> QED
      BY <1>5, <2>1, <2>2, <3>1, <3>2
  <2>3. CASE j = n + 1
    BY <1>3, <1>5, <2>1, <2>3
  <2> QED
    BY <1>8, <2>2, <2>3
<1> QED
  BY <1>4, <1>6, <1>7, <1>9, <1>10, <1>11 DEF Layout, v, m2

(* An entry alone in the queue is at offset 0.                             *)
LEMMA AloneInQueue ==
  ASSUME NEW mm, 0 \in Offsets, NEW entry, entry.size \in AsduSizes, NEW w
  PROVE  /\ Layout(With(w, 0, 0), 1, 1, Written(mm, 0, entry))
         /\ With(w, 0, 0)[1] = 0 /\ Written(mm, 0, entry)[0] = entry
<1>1. With(w, 0, 0) = [i \in 1..1 |-> 0] /\ With(w, 0, 0)[1] = 0
  BY DEF With
<1>2. Written(mm, 0, entry)[0] = entry
  BY DEF Written
<1>3. HeaderSize \in Nat /\ HeaderSize + entry.size <= Size /\ entry.size \in Nat
  BY SizesAssumption
<1>4. End(Written(mm, 0, entry), 0) <= Size
  BY <1>2, <1>3 DEF End
<1> QED
  BY <1>1, <1>2, <1>4 DEF Layout

-----------------------------------------------------------------------------
(* MessageQueue_enqueueASDU                                                *)

(* RemoveOldEntries removes entries until what is left lies behind end, or *)
(* until the end of the buffer; there it goes on at offset 0.              *)
LEMMA OldEntriesRemoved ==
  ASSUME NEW w, NEW n, NEW k, Layout(w, n, k, mem), n <= MaxEntries,
         NEW next, NEW end \in Nat,
         NEW ix, ix = [counter |-> n, first |-> w[1], lib |-> w[k]]
  PROVE  \/ \E d \in 0..(k - 1) :
              /\ end <= w[d + 1]
              /\ RemoveOldEntries(ix, next, end)
                   = [counter |-> n - d, first |-> w[d + 1], lib |-> w[k]]
         \/ RemoveOldEntries(ix, next, end) = [counter |-> n - k, first |-> 0, lib |-> next]
<1> DEFINE ch == Chain(ix.first, ix.lib)
           goesOn(m) == /\ m < ix.counter
                        /\ end > ch[m + 1]
                        /\ \A i \in 1..m : ch[i] # ix.lib
           S == {m \in 0..ix.counter : ~goesOn(m)}
           d == Min(S)
<1>0. n \in Nat \ {0} /\ k \in 1..n /\ n \in Nat /\ k \in Nat
  BY DEF Layout
<1>1. RemoveOldEntries(ix, next, end) =
        IF d > 0 /\ ch[d] = ix.lib
        THEN [counter |-> ix.counter - d, first |-> 0, lib |-> next]
        ELSE [ix EXCEPT !.counter = @ - d, !.first = ch[d + 1]]
  BY DEF RemoveOldEntries
<1>2. ix.first = w[1] /\ ix.lib = w[k] /\ ix.counter = n
  OBVIOUS
<1>3. \A i \in 1..n : ch[i] = w[i]
  BY <1>2, ChainFollows
<1>4. \A i \in 1..n : ch[i] = ix.lib <=> i = k
  BY <1>0, <1>2, <1>3, EntriesApart
<1> HIDE DEF ch, d
<1>5. k \in S
  <2>1. k \in 0..n /\ k \in 1..k
    BY <1>0
  <2>2. ~goesOn(k)
    BY <1>0, <1>4, <2>1
  <2> QED
    BY <1>2, <2>1, <2>2
<1>6. d \in S /\ \A m \in S : d <= m
  <2>1. S \in SUBSET Nat /\ S # {}
    BY <1>0, <1>2, <1>5
  <2> HIDE DEF S
  <2>2. \E x \in S : \A y \in S : x <= y
    BY <2>1, LeastNatural
  <2> QED
    BY <2>2 DEF Min, d
<1>7. d \in 0..k /\ d \in 0..n /\ ~goesOn(d)
  BY <1>0, <1>2, <1>5, <1>6
<1>8. CASE d = k
  <2>1. RemoveOldEntries(ix, next, end) = [counter |-> n - k, first |-> 0, lib |-> next]
    BY <1>0, <1>1, <1>2, <1>4, <1>8
  <2> QED
    BY <2>1
<1>9. CASE d # k
  <2>1. d \in 0..(k - 1) /\ d + 1 \in 1..n /\ d < n /\ (d = 0 \/ d \in 1..n)
    BY <1>0, <1>7, <1>9
  <2>2. \A i \in 1..d : i \in 1..n /\ i # k
    BY <1>0, <2>1
  <2>3. ~(end > ch[d + 1])
    BY <1>2, <1>4, <1>7, <2>1, <2>2
  <2>4. end <= w[d + 1]
    <3>1. w[d + 1] \in Nat
      BY <2>1, EntryInBuffer
    <3> QED
      BY <1>3, <2>1, <2>3, <3>1
  <2>5. RemoveOldEntries(ix, next, end) = [ix EXCEPT !.counter = @ - d, !.first = ch[d + 1]]
    BY <1>1, <1>4, <1>9, <2>1
  <2>6. RemoveOldEntries(ix, next, end) = [counter |-> n - d, first |-> w[d + 1], lib |-> w[k]]
    BY <1>2, <1>3, <2>1, <2>5
  <2> QED
    BY <2>1, <2>4, <2>6
<1> QED
  BY <1>8, <1>9

NewEntry(s) == [entryId |-> entryId, state |-> "waiting", size |-> s]

After(w, n, d, next) == With(Without(w, n, d), n - d, next)

(* The d oldest entries have left, a new one came at next, and no other    *)
(* was touched.                                                            *)
Enqueued(w, n, s) ==
  \E d \in 0..n, next \in Offsets : \E l \in 1..(n - d + 1) :
    /\ entryCounter' = n - d + 1
    /\ Layout(After(w, n, d, next), n - d + 1, l, mem')
    /\ firstEntry' = After(w, n, d, next)[1]
    /\ lastEntry' = next
    /\ lastInBufferEntry' = After(w, n, d, next)[l]
    /\ mem'[next] = NewEntry(s)
    /\ \A i \in 1..(n - d) : mem'[w[i + d]] = mem[w[i + d]]

(* The entry joins those that stay.                                        *)
LEMMA Joins ==
  ASSUME NEW w, NEW n \in Nat \ {0}, NEW d \in 0..(n - 1), NEW u, u = Without(w, n, d),
         NEW k, Layout(u, n - d, k, mem), NEW s \in AsduSizes, NEW next \in Offsets,
         next + HeaderSize + s <= Size,
         NEW l, \/ l = n - d + 1 /\ k = n - d /\ next = End(mem, u[n - d])
                \/ l = k /\ k # n - d /\ next = End(mem, u[n - d]) /\ next + HeaderSize + s <= u[1]
                \/ l = k /\ k = n - d /\ next = 0 /\ HeaderSize + s <= u[1],
         mem' = Written(mem, next, NewEntry(s)), entryCounter' = n - d + 1,
         firstEntry' = u[1], lastEntry' = next,
         lastInBufferEntry' = IF l = n - d + 1 THEN next ELSE u[l]
  PROVE  Enqueued(w, n, s)
<1>1. PICK N \in Nat \ {0} : N = n - d /\ d \in 0..n /\ 1 \in 1..N /\ 1 # N + 1
  OBVIOUS
<1>2. PICK entry : entry = NewEntry(s) /\ entry.size = s
  BY DEF NewEntry
<1>3. /\ Layout(With(u, N, next), N + 1, l, Written(mem, next, entry))
      /\ \A i \in 1..N : Written(mem, next, entry)[u[i]] = mem[u[i]]
      /\ Written(mem, next, entry)[next] = entry
  BY <1>1, <1>2, NewestComes
<1>4. l \in 1..(N + 1) /\ (l # N + 1 => l \in 1..N)
  BY <1>3 DEF Layout
<1>5. With(u, N, next)[1] = u[1] /\ With(u, N, next)[l] = IF l = N + 1 THEN next ELSE u[l]
  BY <1>1, <1>4 DEF With
<1>6. With(u, N, next) = After(w, n, d, next)
  BY <1>1 DEF After
<1>7. \A i \in 1..N : u[i] = w[i + d]
  BY <1>1 DEF Without
<1> QED
  BY <1>1, <1>2, <1>3, <1>4, <1>5, <1>6, <1>7 DEF Enqueued

(* The entry takes the place of all others.                                *)
LEMMA ReplacesAll ==
  ASSUME NEW w, NEW n \in Nat, NEW s \in AsduSizes,
         mem' = Written(mem, 0, NewEntry(s)), entryCounter' = 1,
         firstEntry' = 0, lastEntry' = 0, lastInBufferEntry' = 0
  PROVE  Enqueued(w, n, s)
<1>1. PICK entry : entry = NewEntry(s) /\ entry.size = s
  BY DEF NewEntry
<1>2. 0 \in Offsets
  BY SizesAssumption DEF Offsets
<1>3. PICK u : u = Without(w, n, n)
  OBVIOUS
<1>4. /\ Layout(With(u, 0, 0), 1, 1, Written(mem, 0, entry))
      /\ With(u, 0, 0)[1] = 0 /\ Written(mem, 0, entry)[0] = entry
  BY <1>1, <1>2, AloneInQueue
<1>5. n - n = 0 /\ n - n + 1 = 1 /\ n \in 0..n /\ 1 \in 1..1 /\ 1..0 = {}
  OBVIOUS
<1>6. After(w, n, n, 0) = With(u, 0, 0)
  BY <1>3, <1>5 DEF After
<1> QED
  BY <1>1, <1>2, <1>4, <1>5, <1>6 DEF Enqueued

(* The indices tell where the entries lie.                                 *)
Indexed(w, k) ==
  /\ Layout(w, entryCounter, k, mem)
  /\ firstEntry = w[1] /\ lastEntry = w[entryCounter] /\ lastInBufferEntry = w[k]

(* The entry does not fit behind the last one, and the others lie in one   *)
(* piece: it goes to offset 0.                                             *)
LEMMA WrapsAround ==
  ASSUME NEW w, NEW n \in Nat \ {0}, n <= MaxEntries, NEW a \in 0..(n - 1),
         NEW u, u = Without(w, n, a), Layout(u, n - a, n - a, mem), NEW s \in AsduSizes,
         NEW ix, ix = [counter |-> n - a, first |-> u[1], lib |-> u[n - a]],
         NEW ix3, ix3 = RemoveOldEntries(ix, 0, HeaderSize + s),
         mem' = Written(mem, 0, NewEntry(s)), entryCounter' = ix3.counter + 1,
         firstEntry' = ix3.first, lastEntry' = 0,
         lastInBufferEntry' = IF 0 > ix3.lib THEN 0 ELSE ix3.lib
  PROVE  Enqueued(w, n, s)
<1>1. PICK N \in Nat \ {0} : N = n - a /\ N <= MaxEntries
  BY BoundsAssumption DEF MaxEntries
<1>2. PICK es \in Nat \ {0} : es = HeaderSize + s /\ es <= Size /\ 0 \in Offsets
  BY SizesAssumption DEF Offsets
<1>3. Layout(u, N, N, mem) /\ u[N] \in Nat /\ ~(0 > u[N])
  BY <1>1, EntryInBuffer
<1>4. \/ \E e \in 0..(N - 1) : /\ es <= u[e + 1]
                               /\ ix3 = [counter |-> N - e, first |-> u[e + 1], lib |-> u[N]]
      \/ ix3 = [counter |-> N - N, first |-> 0, lib |-> 0]
  BY <1>1, <1>2, <1>3, OldEntriesRemoved
<1>5. CASE ix3 = [counter |-> N - N, first |-> 0, lib |-> 0]
  <2>1. entryCounter' = 1 /\ firstEntry' = 0 /\ lastInBufferEntry' = 0
    BY <1>1, <1>5
  <2> QED
    BY <2>1, ReplacesAll
<1>6. CASE \E e \in 0..(N - 1) : /\ es <= u[e + 1]
                                 /\ ix3 = [counter |-> N - e, first |-> u[e + 1], lib |-> u[N]]
  <2>1. PICK e \in 0..(N - 1) :
          es <= u[e + 1] /\ ix3 = [counter |-> N - e, first |-> u[e + 1], lib |-> u[N]]
    BY <1>6
  <2>2. PICK d \in 0..(n - 1) : d = a + e
    BY <1>1
  <2>3. PICK M \in Nat \ {0} : M = N - e /\ M = n - d /\ 1 \in 1..M /\ M \in 1..M
    BY <1>1, <2>2
  <2>4. PICK v : v = Without(u, N, e)
    OBVIOUS
  <2>5. Layout(v, M, M, mem)
    BY <1>3, <2>3, <2>4, OldestLeave
  <2>6. v = Without(w, n, d)
    <3>1. \A i \in 1..M : i + e \in 1..N /\ (i + e) + a = i + d
      BY <1>1, <2>2, <2>3
    <3> QED
      BY <1>1, <2>3, <2>4, <3>1 DEF Without
  <2>7. v[1] = u[e + 1] /\ v[M] = u[N]
    <3>1. 1 + e = e + 1 /\ M + e = N
      BY <1>1, <2>3
    <3> QED
      BY <2>3, <2>4, <3>1 DEF Without
  <2>8. /\ entryCounter' = M + 1 /\ firstEntry' = v[1] /\ M # M + 1
        /\ lastInBufferEntry' = IF M = M + 1 THEN 0 ELSE v[M]
    BY <1>3, <2>1, <2>3, <2>7
  <2>9. 0 + HeaderSize + s <= Size /\ HeaderSize + s <= v[1]
    BY <1>2, <2>1, <2>7, SizesAssumption
  <2> QED
    BY <1>2, <2>3, <2>5, <2>6, <2>8, <2>9, Joins
<1> QED
  BY <1>4, <1>5, <1>6

(* The entry goes behind the last one: there, entries in its way leave.    *)
LEMMA GoesBehind ==
  ASSUME NEW w, NEW n, NEW k, Layout(w, n, k, mem), n <= MaxEntries, NEW s \in AsduSizes,
         NEW next \in Nat, next = End(mem, w[n]), next + HeaderSize + s <= Size,
         NEW ix, ix = [counter |-> n, first |-> w[1], lib |-> w[k]],
         NEW ix3, ix3 = IF next <= w[1]
                        THEN RemoveOldEntries(ix, next, next + (HeaderSize + s)) ELSE ix,
         mem' = Written(mem, next, NewEntry(s)), entryCounter' = ix3.counter + 1,
         firstEntry' = ix3.first, lastEntry' = next,
         lastInBufferEntry' = IF next > ix3.lib THEN next ELSE ix3.lib
  PROVE  Enqueued(w, n, s)
<1>0. n \in Nat \ {0} /\ k \in 1..n /\ 1 \in 1..n /\ n \in 1..n
  BY DEF Layout
<1>1. /\ w[1] \in Nat /\ w[k] \in Nat /\ w[n] \in Nat /\ End(mem, w[1]) \in Nat
      /\ w[1] < End(mem, w[1]) /\ w[n] < next
      /\ Size \in Nat /\ HeaderSize \in Nat \ {0} /\ s \in Nat
  BY <1>0, EntryInBuffer, SizesAssumption
<1>2. next \in Offsets /\ next + (HeaderSize + s) \in Nat
      /\ next + (HeaderSize + s) = next + HeaderSize + s
  BY <1>1 DEF Offsets
<1>3. w[1] <= w[k]
  <2>1. k # 1 => End(mem, w[1]) <= w[k]
    BY <1>0 DEF Layout
  <2> QED
    BY <1>0, <1>1, <2>1
<1>4. k = n <=> ~(next <= w[1])
  <2>1. k # n => next <= w[1]
    BY <1>0 DEF Layout
  <2> QED
    BY <1>1, <1>3, <2>1
<1>5. CASE k = n
  <2>1. ix3 = ix /\ next > w[k]
    BY <1>1, <1>4, <1>5
  <2>2. w = Without(w, n, 0)
    <3>1. \A i \in 1..n : i + 0 = i
      OBVIOUS
    <3> QED
      BY <1>0, <3>1 DEF Layout, Without
  <2>3. 0 \in 0..(n - 1) /\ n - 0 = n
    BY <1>0
  <2>4. /\ entryCounter' = n + 1 /\ firstEntry' = w[1]
        /\ lastInBufferEntry' = IF n + 1 = n + 1 THEN next ELSE w[n + 1]
    BY <2>1
  <2>5. PICK l : l = n + 1
    OBVIOUS
  <2> QED
    BY <1>0, <1>2, <1>5, <2>2, <2>3, <2>4, <2>5, Joins
<1>6. CASE k # n
  <2>1. ix3 = RemoveOldEntries(ix, next, next + (HeaderSize + s))
    BY <1>4, <1>6
  <2>2. \/ \E d \in 0..(k - 1) :
             /\ next + (HeaderSize + s) <= w[d + 1]
             /\ ix3 = [counter |-> n - d, first |-> w[d + 1], lib |-> w[k]]
        \/ ix3 = [counter |-> n - k, first |-> 0, lib |-> next]
    <3>1. PICK end \in Nat : end = next + (HeaderSize + s)
      BY <1>2
    <3> QED
      BY <2>1, <3>1, OldEntriesRemoved
  <2>3. CASE ix3 = [counter |-> n - k, first |-> 0, lib |-> next]
    <3>1. PICK u : u = Without(w, n, k)
      OBVIOUS
    <3>2. Layout(u, n - k, n - k, mem) /\ u[1] = 0
      BY <1>6, <3>1, UpperLeave
    <3>3. k \in 0..(n - 1) /\ n - k \in Nat \ {0} /\ n - k \in 1..(n - k) /\ (n - k) + k = n
      BY <1>0, <1>6
    <3>4. u[n - k] = w[n]
      BY <3>1, <3>3 DEF Without
    <3>5. PICK l : l = n - k + 1
      OBVIOUS
    <3>6. /\ entryCounter' = n - k + 1 /\ firstEntry' = u[1]
          /\ lastInBufferEntry' = IF l = n - k + 1 THEN next ELSE u[l]
      BY <2>3, <3>2, <3>5
    <3> QED
      BY <1>0, <1>2, <3>1, <3>2, <3>3, <3>4, <3>5, <3>6, Joins
  <2>4. CASE \E d \in 0..(k - 1) :
               /\ next + (HeaderSize + s) <= w[d + 1]
               /\ ix3 = [counter |-> n - d, first |-> w[d + 1], lib |-> w[k]]
    <3>1. PICK d \in 0..(k - 1) :
            /\ next + (HeaderSize + s) <= w[d + 1]
            /\ ix3 = [counter |-> n - d, first |-> w[d + 1], lib |-> w[k]]
      BY <2>4
    <3>2. PICK u : u = Without(w, n, d)
      OBVIOUS
    <3>3. PICK l \in Nat : l = k - d /\ l # n - d /\ l # n - d + 1
      BY <1>0, <1>6
    <3>4. Layout(u, n - d, l, mem)
      BY <3>2, <3>3, OldestLeave
    <3>5. /\ 1 \in 1..(n - d) /\ l \in 1..(n - d) /\ n - d \in 1..(n - d) /\ d \in 0..(n - 1)
          /\ 1 + d = d + 1 /\ l + d = k /\ (n - d) + d = n
      BY <1>0, <1>6, <3>3
    <3>6. u[1] = w[d + 1] /\ u[l] = w[k] /\ u[n - d] = w[n]
      BY <3>2, <3>5 DEF Without
    <3>7. /\ entryCounter' = n - d + 1 /\ firstEntry' = u[1]
          /\ lastInBufferEntry' = IF l = n - d + 1 THEN next ELSE u[l]
      <4>1. ~(next > w[k])
        BY <1>1, <1>3, <1>4, <1>6
      <4> QED
        BY <3>1, <3>3, <3>6, <4>1
    <3>8. next + HeaderSize + s <= u[1]
      BY <1>2, <3>1, <3>6
    <3> QED
      BY <1>0, <1>2, <3>2, <3>3, <3>4, <3>5, <3>6, <3>7, <3>8, Joins
  <2> QED
    BY <2>2, <2>3, <2>4
<1> QED
  BY <1>5, <1>6

(* Whatever lies in the buffer, only the oldest entries make room.         *)
LEMMA EnqueueInRing ==
  ASSUME RoomForTwo, NEW w, NEW k, Indexed(w, k), entryCounter <= MaxEntries,
         NEW s \in AsduSizes, MessageQueue_enqueueASDU(s)
  PROVE  Enqueued(w, entryCounter, s)
<1>1. PICK n \in Nat \ {0} : n = entryCounter
  BY DEF Indexed, Layout
<1>2. Layout(w, n, k, mem) /\ firstEntry = w[1] /\ lastEntry = w[n] /\ lastInBufferEntry = w[k]
  BY <1>1 DEF Indexed
<1>3. k \in 1..n /\ 1 \in 1..n /\ n \in 1..n
  BY <1>2 DEF Layout
<1>4. PICK es \in Nat \ {0} : es = HeaderSize + s
  BY SizesAssumption
<1>5. PICK behind \in Nat : behind = EndOf(lastEntry) /\ behind = End(mem, w[n])
                            /\ w[n] < behind /\ behind <= Size
  BY <1>2, <1>3, EntryInBuffer DEF End, EndOf
<1>6. /\ Size \in Nat /\ HeaderSize \in Nat \ {0} /\ s \in Nat
      /\ w[1] \in Nat /\ w[n] \in Nat /\ w[1] < Size
  BY <1>2, <1>3, EntryInBuffer, SizesAssumption
<1>7. PICK next \in Nat : next = IF behind + es > Size THEN 0 ELSE behind
  BY <1>5
<1>8. PICK ix1 : ix1 = IF behind + es > Size /\ behind <= firstEntry
                       THEN [counter |-> entryCounter - countEntriesUntilEndOfBuffer,
                             first   |-> 0, lib |-> lastInBufferEntry]
                       ELSE Indices
  OBVIOUS
<1>9. PICK ix2 : ix2 = IF behind + es > Size /\ lastEntry > ix1.first
                       THEN [ix1 EXCEPT !.lib = lastEntry] ELSE ix1
  OBVIOUS
<1>10. PICK ix3 : ix3 = IF next <= ix2.first
                        THEN RemoveOldEntries(ix2, next, next + es) ELSE ix2
  OBVIOUS
<1>11. /\ entryCounter' = ix3.counter + 1 /\ firstEntry' = ix3.first
       /\ lastEntry' = next /\ lastInBufferEntry' = IF next > ix3.lib THEN next ELSE ix3.lib
       /\ mem' = [p \in Offsets |->
                    IF p = next
                    THEN [entryId |-> entryId, state |-> "waiting", size |-> s]
                    ELSE IF p > next /\ p < next + es THEN Blank ELSE mem[p]]
  <2>1. (entryCounter = 0) = FALSE /\ HeaderSize + s = es /\ EndOf(lastEntry) = behind
    BY <1>1, <1>4, <1>5
  <2> QED
    BY <1>7, <1>8, <1>9, <1>10, <2>1 DEF MessageQueue_enqueueASDU
<1>12. mem' = Written(mem, next, NewEntry(s))
  <2>1. next + HeaderSize + NewEntry(s).size = next + es
    BY <1>4, <1>6 DEF NewEntry
  <2>2. NewEntry(s) = [entryId |-> entryId, state |-> "waiting", size |-> s]
    BY DEF NewEntry
  <2> QED
    BY <1>11, <2>1, <2>2 DEF Written
<1>13. Indices = [counter |-> n, first |-> w[1], lib |-> w[k]]
  BY <1>1, <1>2 DEF Indices
<1>14. CASE behind + es <= Size
  <2>1. ix2 = [counter |-> n, first |-> w[1], lib |-> w[k]] /\ next = behind
    BY <1>5, <1>6, <1>7, <1>8, <1>9, <1>13, <1>14
  <2>2. ix3 = IF next <= w[1] THEN RemoveOldEntries(ix2, next, next + (HeaderSize + s)) ELSE ix2
    BY <1>4, <1>10, <2>1
  <2>3. next = End(mem, w[n]) /\ next + HeaderSize + s <= Size
    BY <1>4, <1>5, <1>6, <1>14, <2>1
  <2>4. Enqueued(w, n, s)
    BY <1>1, <1>2, <1>11, <1>12, <2>1, <2>2, <2>3, GoesBehind
  <2> QED
    BY <1>1, <2>4
<1>15. CASE behind + es > Size
  <2>1. next = 0
    BY <1>7, <1>15
  <2>2. w[n] > 0
    <3>1. mem[w[n]].size \in AsduSizes
      BY <1>2, <1>3 DEF Layout
    <3>2. PICK x \in AsduSizes : x = mem[w[n]].size
      BY <3>1
    <3>3. (HeaderSize + x) + (HeaderSize + s) <= Size /\ x \in Nat
      BY SizesAssumption DEF RoomForTwo
    <3>4. behind = w[n] + HeaderSize + x
      BY <1>5, <3>2 DEF End
    <3> QED
      BY <1>4, <1>6, <1>15, <3>3, <3>4
  <2>3. \E a \in 0..(n - 1) :
          /\ Layout(Without(w, n, a), n - a, n - a, mem)
          /\ ix2 = [counter |-> n - a, first |-> Without(w, n, a)[1],
                    lib |-> Without(w, n, a)[n - a]]
          /\ 0 <= Without(w, n, a)[1]
    <3>1. CASE behind <= firstEntry
      <4>1. k # n
        <5>1. n # 1 /\ k = n => End(mem, w[1]) <= w[n]
          BY <1>2, <1>3 DEF Layout
        <5>2. End(mem, w[1]) \in Nat /\ w[1] < End(mem, w[1])
          BY <1>2, <1>3, EntryInBuffer
        <5> QED
          BY <1>2, <1>5, <1>6, <3>1, <5>1, <5>2
      <4>2. countEntriesUntilEndOfBuffer = k
        BY <1>1, <1>2, <1>3, LengthUntilEntry DEF countEntriesUntilEndOfBuffer
      <4>3. ix1 = [counter |-> n - k, first |-> 0, lib |-> w[k]]
        BY <1>1, <1>2, <1>8, <1>15, <3>1, <4>2
      <4>4. ix2 = [counter |-> n - k, first |-> 0, lib |-> w[n]]
        <5>1. behind + es > Size /\ lastEntry > ix1.first
          BY <1>2, <1>15, <2>2, <4>3
        <5> QED
          BY <1>2, <1>9, <4>3, <5>1
      <4>5. /\ Layout(Without(w, n, k), n - k, n - k, mem) /\ Without(w, n, k)[1] = 0
        BY <1>2, <4>1, UpperLeave
      <4>6. /\ k \in 0..(n - 1) /\ n - k \in 1..(n - k) /\ (n - k) + k = n
        BY <1>3, <4>1
      <4>7. Without(w, n, k)[n - k] = w[n]
        BY <4>6 DEF Without
      <4> QED
        BY <4>4, <4>5, <4>6, <4>7
    <3>2. CASE ~(behind <= firstEntry)
      <4>1. k = n
        <5>1. k # n => End(mem, w[n]) <= w[1]
          BY <1>2, <1>3 DEF Layout
        <5> QED
          BY <1>2, <1>5, <3>2, <5>1
      <4>2. ix1 = [counter |-> n, first |-> w[1], lib |-> w[n]]
        BY <1>8, <1>13, <3>2, <4>1
      <4>3. ix2 = [counter |-> n, first |-> w[1], lib |-> w[n]]
        BY <1>2, <1>9, <4>2
      <4>4. w = Without(w, n, 0)
        <5>1. \A i \in 1..n : i + 0 = i
          OBVIOUS
        <5> QED
          BY <1>2, <5>1 DEF Layout, Without
      <4>5. 0 \in 0..(n - 1) /\ n - 0 = n
        OBVIOUS
      <4> QED
        BY <1>2, <1>6, <4>1, <4>3, <4>4, <4>5
    <3> QED
      BY <3>1, <3>2
  <2>4. PICK a \in 0..(n - 1) :
          /\ Layout(Without(w, n, a), n - a, n - a, mem)
          /\ ix2 = [counter |-> n - a, first |-> Without(w, n, a)[1],
                    lib |-> Without(w, n, a)[n - a]]
          /\ 0 <= Without(w, n, a)[1]
    BY <2>3
  <2>5. PICK u : u = Without(w, n, a)
    OBVIOUS
  <2>6. ix3 = RemoveOldEntries(ix2, 0, HeaderSize + s)
    BY <1>4, <1>10, <2>1, <2>4
  <2>7. Enqueued(w, n, s)
    BY <1>1, <1>11, <1>12, <2>1, <2>4, <2>5, <2>6, WrapsAround
  <2> QED
    BY <1>1, <2>7
<1> QED
  BY <1>5, <1>4, <1>6, <1>14, <1>15

(* An entry enqueued in the empty queue is alone in it.                    *)
LEMMA EnqueueInEmpty ==
  ASSUME entryCounter = 0, NEW s \in AsduSizes, MessageQueue_enqueueASDU(s), NEW w
  PROVE  Enqueued(w, 0, s)
<1>1. /\ entryCounter' = 1 /\ firstEntry' = 0 /\ lastEntry' = 0 /\ lastInBufferEntry' = 0
      /\ mem' = [p \in Offsets |->
                   IF p = 0
                   THEN [entryId |-> entryId, state |-> "waiting", size |-> s]
                   ELSE IF p > 0 /\ p < 0 + (HeaderSize + s) THEN Blank ELSE mem[p]]
  BY DEF MessageQueue_enqueueASDU
<1>2. mem' = Written(mem, 0, NewEntry(s))
  <2>1. 0 + HeaderSize + NewEntry(s).size = 0 + (HeaderSize + s)
    BY SizesAssumption DEF NewEntry
  <2>2. NewEntry(s) = [entryId |-> entryId, state |-> "waiting", size |-> s]
    BY DEF NewEntry
  <2> QED
    BY <1>1, <2>1, <2>2 DEF Written
<1> QED
  BY <1>1, <1>2, ReplacesAll

-----------------------------------------------------------------------------
(* The inductive invariant                                                 *)

(* The entries are the youngest ones, in the order of their ids.           *)
Numbered(w) ==
  \A i \in 1..entryCounter : mem[w[i]].entryId = entryId - 1 - entryCounter + i

(* A reference with the id of an entry is one to that entry.               *)
Referenced(w) ==
  \A r \in refs, i \in 1..entryCounter :
    r.entryId = entryId - 1 - entryCounter + i => r.queueEntry = w[i]

Held(w, k) == Indexed(w, k) /\ Numbered(w) /\ Referenced(w)

RingOK == \E w \in [1..entryCounter -> Offsets], k \in 1..entryCounter : Held(w, k)

Headers == [entryId : 0..MaxEntryId, size : AsduSizes \cup {0},
            state : {"confirmed", "waiting", "sent"}]

References == [queueEntry : Offsets, entryId : 1..MaxEntryId]

Types ==
  /\ entryCounter \in Nat /\ entryId \in 1..(MaxEntryId + 1) /\ entryCounter < entryId
  /\ mem \in [Offsets -> Headers]
  /\ refs \subseteq References /\ \A r \in refs : r.entryId < entryId

IInv ==
  /\ Types
  /\ entryCounter = 0 => firstEntry = NULL /\ lastEntry = NULL /\ lastInBufferEntry = NULL
  /\ entryCounter # 0 => RingOK

(* A queue with entries is a ring of them.                                *)
LEMMA HeldIsRing ==
  ASSUME NEW w, NEW k, Held(w, k)
  PROVE  RingOK /\ entryCounter \in Nat \ {0} /\ Layout(w, entryCounter, k, mem)
BY DEF Held, Indexed, Layout, RingOK

(* No loop visits more entries than MaxEntries.                            *)
LEMMA FewEntries ==
  ASSUME Types
  PROVE  entryCounter <= MaxEntries
BY BoundsAssumption DEF Types, MaxEntries

(* What Visited visits.                                                    *)
LEMMA VisitedInRing ==
  ASSUME Types, NEW w, NEW k, Held(w, k)
  PROVE  Visited = w /\ DOMAIN w = 1..entryCounter
<1>1. PICK n \in Nat \ {0} : n = entryCounter
  BY HeldIsRing
<1>2. /\ Layout(w, n, k, mem) /\ n <= MaxEntries
      /\ firstEntry = w[1] /\ lastEntry = w[n] /\ lastInBufferEntry = w[k]
  BY <1>1, FewEntries DEF Held, Indexed
<1>3. PICK ch : ch = Chain(firstEntry, lastInBufferEntry)
  OBVIOUS
<1>4. LengthUntil(ch, lastEntry) = n /\ \A i \in 1..n : ch[i] = w[i]
  <2>1. n \in 1..n
    OBVIOUS
  <2> QED
    BY <1>2, <1>3, <2>1, LengthUntilEntry, ChainFollows
<1>5. Visited = SubSeq(ch, 1, n)
  BY <1>1, <1>3, <1>4 DEF Visited
<1>6. w = [i \in 1..n |-> w[i]]
  BY <1>2 DEF Layout
<1>7. SubSeq(ch, 1, n) = [i \in 1..n |-> ch[i]]
  OBVIOUS
<1> QED
  BY <1>1, <1>4, <1>5, <1>6, <1>7

(* Steps that change only states of entries, and references.               *)
SizesAndIdsKept ==
  /\ \A p \in Offsets : mem'[p].size = mem[p].size /\ mem'[p].entryId = mem[p].entryId
  /\ UNCHANGED <<entryCounter, firstEntry, lastEntry, lastInBufferEntry, entryId>>

(* The layout depends on the sizes alone.                                  *)
LEMMA LayoutKept ==
  ASSUME NEW w, NEW n, NEW k, Layout(w, n, k, mem),
         \A p \in Offsets : mem'[p].size = mem[p].size
  PROVE  Layout(w, n, k, mem')
<1>1. \A i \in 1..n : /\ w[i] \in Offsets /\ mem'[w[i]].size = mem[w[i]].size
                      /\ End(mem', w[i]) = End(mem, w[i])
  BY DEF Layout, End
<1>2. \A i \in 1..(n - 1) : i \in 1..n
  BY DEF Layout
<1> QED
  BY <1>1, <1>2 DEF Layout

(* Such steps leave the ring alone.                                        *)
LEMMA HeldKept ==
  ASSUME NEW w, NEW k, Held(w, k), SizesAndIdsKept,
         \A r \in refs' \ refs : \E m \in 1..entryCounter :
            r.queueEntry = w[m] /\ r.entryId = entryId - 1 - entryCounter + m,
         Types
  PROVE  Held(w, k)'
<1>1. entryCounter \in Nat /\ entryId \in Int
  BY DEF Types
<1>2. Indexed(w, k)'
  BY LayoutKept DEF Held, Indexed, SizesAndIdsKept
<1>3. Numbered(w)'
  <2>1. \A i \in 1..entryCounter : w[i] \in Offsets
    BY DEF Held, Indexed, Layout
  <2> QED
    BY <2>1 DEF Held, Numbered, SizesAndIdsKept
<1>4. Referenced(w)'
  BY <1>1 DEF Held, Referenced, SizesAndIdsKept
<1> QED
  BY <1>2, <1>3, <1>4 DEF Held

-----------------------------------------------------------------------------
(* Every operation preserves the invariant                                 *)

(* What is known of the memory after an entry was added.                   *)
LEMMA EnqueueTypes ==
  ASSUME Types, NEW s \in AsduSizes, MessageQueue_enqueueASDU(s)
  PROVE  /\ mem' \in [Offsets -> Headers] /\ refs' = refs
         /\ entryId' = entryId + 1 /\ entryId \in 1..MaxEntryId
<1>1. entryId \in 1..MaxEntryId /\ entryId' = entryId + 1 /\ refs' = refs
  BY BoundsAssumption DEF MessageQueue_enqueueASDU, Types
<1>2. \E next, es : mem' = [p \in Offsets |->
                              IF p = next
                              THEN [entryId |-> entryId, state |-> "waiting", size |-> s]
                              ELSE IF p > next /\ p < next + es THEN Blank ELSE mem[p]]
  BY DEF MessageQueue_enqueueASDU
<1>3. Blank \in Headers /\ [entryId |-> entryId, state |-> "waiting", size |-> s] \in Headers
  BY <1>1, BoundsAssumption DEF Blank, Headers
<1>4. \A p \in Offsets : mem[p] \in Headers
  BY DEF Types
<1> QED
  BY <1>1, <1>2, <1>3, <1>4

(* An entry was added: the ring begins d entries later and ends with it.   *)
LEMMA EnqueuedHeld ==
  ASSUME NEW w, NEW n \in Nat, n = entryCounter, NEW s,
         entryId \in Int, entryId' = entryId + 1, refs' = refs,
         \A r \in refs : r.entryId < entryId /\ r.entryId \in Int,
         n # 0 => Numbered(w) /\ Referenced(w),
         NEW d \in 0..n, NEW next \in Offsets, NEW l, NEW v, v = After(w, n, d, next),
         entryCounter' = n - d + 1,
         Layout(v, n - d + 1, l, mem'),
         firstEntry' = v[1], lastEntry' = next, lastInBufferEntry' = v[l],
         mem'[next] = NewEntry(s),
         \A i \in 1..(n - d) : mem'[w[i + d]] = mem[w[i + d]]
  PROVE  Held(v, l)'
<1>1. PICK N \in Nat : N = n - d
  OBVIOUS
<1>2. /\ \A i \in 1..N : v[i] = w[i + d] /\ i + d \in 1..n
      /\ v[N + 1] = next
      /\ \A i \in 1..(N + 1) : i \in 1..N \/ i = N + 1
  <2>1. \A i \in 1..N : i \in 1..(N + 1) /\ i # N + 1
    OBVIOUS
  <2>2. N + 1 \in 1..(N + 1)
    OBVIOUS
  <2>3. v = [i \in 1..(N + 1) |-> IF i = N + 1 THEN next ELSE Without(w, n, d)[i]]
    BY <1>1 DEF After, With
  <2>4. \A i \in 1..N : Without(w, n, d)[i] = w[i + d] /\ i + d \in 1..n
    BY <1>1 DEF Without
  <2> QED
    BY <2>1, <2>2, <2>3, <2>4
<1>3. Indexed(v, l)'
  BY <1>1, <1>2 DEF Indexed
<1>4. Numbered(v)'
  <2> SUFFICES ASSUME NEW i \in 1..(N + 1)
               PROVE  mem'[v[i]].entryId = entryId + 1 - 1 - (N + 1) + i
    BY <1>1 DEF Numbered
  <2>1. CASE i = N + 1
    BY <1>2, <2>1 DEF NewEntry
  <2>2. CASE i \in 1..N
    <3>1. mem[w[i + d]].entryId = entryId - 1 - n + (i + d)
      BY <1>1, <1>2, <2>2 DEF Numbered
    <3> QED
      BY <1>1, <1>2, <2>2, <3>1
  <2> QED
    BY <1>2, <2>1, <2>2
<1>5. Referenced(v)'
  <2> SUFFICES ASSUME NEW r \in refs, NEW i \in 1..(N + 1),
                      r.entryId = entryId + 1 - 1 - (N + 1) + i
               PROVE  r.queueEntry = v[i]
    BY <1>1 DEF Referenced
  <2>1. i # N + 1
    OBVIOUS
  <2>2. i \in 1..N /\ i + d \in 1..n /\ r.entryId = entryId - 1 - n + (i + d) /\ n # 0
    BY <1>1, <1>2, <2>1
  <2> QED
    BY <1>2, <2>2 DEF Referenced
<1> QED
  BY <1>3, <1>4, <1>5 DEF Held

(* What enqueueing does to the ring of the n entries at w, if n is not 0:  *)
(* the d oldest leave, and the new one at next comes behind the others.    *)
Added(n, w, d, next, v, l, s) ==
  /\ n = entryCounter
  /\ n # 0 => \E k : Held(w, k)
  /\ entryCounter' = n - d + 1
  /\ v = After(w, n, d, next) /\ v \in [1..(n - d + 1) -> Offsets]
  /\ l \in 1..(n - d + 1)
  /\ mem'[next] = NewEntry(s)
  /\ \A i \in 1..(n - d) : mem'[w[i + d]] = mem[w[i + d]]

(* This is what enqueueing does when the buffer has room for two.          *)
LEMMA EntryAdded ==
  ASSUME RoomForTwo, IInv, NEW s \in AsduSizes, MessageQueue_enqueueASDU(s)
  PROVE  \E n \in Nat, next \in Offsets : \E w, v, l : \E d \in 0..n :
           Added(n, w, d, next, v, l, s) /\ Held(v, l)'
<1>1. Types /\ refs' = refs /\ entryId' = entryId + 1
  BY EnqueueTypes DEF IInv
<1>2. PICK n \in Nat : n = entryCounter
  BY <1>1 DEF Types
<1>3. \E w : Enqueued(w, n, s) /\ (n # 0 => \E k : Held(w, k))
  <2>1. CASE n = 0
    BY <1>2, <2>1, EnqueueInEmpty
  <2>2. CASE n # 0
    <3>1. PICK w, k : Held(w, k)
      BY <1>2, <2>2 DEF IInv, RingOK
    <3>2. Indexed(w, k) /\ entryCounter <= MaxEntries
      BY <1>1, <3>1, FewEntries DEF Held
    <3> QED
      BY <1>2, <3>1, <3>2, EnqueueInRing
  <2> QED
    BY <2>1, <2>2
<1>4. PICK w : Enqueued(w, n, s) /\ (n # 0 => \E k : Held(w, k))
  BY <1>3
<1>5. PICK d \in 0..n, next \in Offsets : \E l \in 1..(n - d + 1) :
        /\ entryCounter' = n - d + 1
        /\ Layout(After(w, n, d, next), n - d + 1, l, mem')
        /\ firstEntry' = After(w, n, d, next)[1]
        /\ lastEntry' = next
        /\ lastInBufferEntry' = After(w, n, d, next)[l]
        /\ mem'[next] = NewEntry(s)
        /\ \A i \in 1..(n - d) : mem'[w[i + d]] = mem[w[i + d]]
  BY <1>4 DEF Enqueued
<1>6. PICK v : v = After(w, n, d, next)
  OBVIOUS
<1>7. PICK l \in 1..(n - d + 1) :
        /\ entryCounter' = n - d + 1
        /\ Layout(v, n - d + 1, l, mem')
        /\ firstEntry' = v[1]
        /\ lastEntry' = next
        /\ lastInBufferEntry' = v[l]
        /\ mem'[next] = NewEntry(s)
        /\ \A i \in 1..(n - d) : mem'[w[i + d]] = mem[w[i + d]]
  BY <1>5, <1>6
<1>8. entryId \in Int /\ \A r \in refs : r.entryId < entryId /\ r.entryId \in Int
  BY <1>1 DEF Types, References
<1>9. n # 0 => Numbered(w) /\ Referenced(w)
  BY <1>4 DEF Held
<1>10. Held(v, l)'
  BY <1>1, <1>2, <1>6, <1>7, <1>8, <1>9, EnqueuedHeld
<1>11. v \in [1..(n - d + 1) -> Offsets]
  BY <1>7 DEF Layout
<1>12. Added(n, w, d, next, v, l, s)
  BY <1>2, <1>4, <1>6, <1>7, <1>11 DEF Added
<1> QED
  BY <1>10, <1>12

(* Enqueueing preserves the invariant when the buffer has room for two.    *)
LEMMA EnqueueKeeps ==
  ASSUME RoomForTwo, IInv, NEW s \in AsduSizes, MessageQueue_enqueueASDU(s)
  PROVE  IInv'
<1>1. /\ Types /\ mem' \in [Offsets -> Headers] /\ refs' = refs
      /\ entryId' = entryId + 1 /\ entryId \in 1..MaxEntryId
  BY EnqueueTypes DEF IInv
<1>2. PICK n \in Nat, next \in Offsets :
        \E w, v, l : \E d \in 0..n : Added(n, w, d, next, v, l, s) /\ Held(v, l)'
  BY EntryAdded
<1>3. PICK v, l : \E d \in 0..n : /\ n = entryCounter
                                  /\ entryCounter' = n - d + 1
                                  /\ v \in [1..(n - d + 1) -> Offsets]
                                  /\ l \in 1..(n - d + 1) /\ Held(v, l)'
  BY <1>2 DEF Added
<1>4. RingOK'
  BY <1>3 DEF RingOK
<1>5. Types'
  <2>1. /\ entryCounter' \in Nat /\ entryId' \in 1..(MaxEntryId + 1) /\ entryCounter' < entryId'
        /\ entryCounter' # 0
    BY <1>1, <1>3, BoundsAssumption DEF Types
  <2>2. \A r \in refs' : r.entryId < entryId'
    BY <1>1 DEF Types, References
  <2> QED
    BY <1>1, <2>1, <2>2 DEF Types
<1>6. entryCounter' # 0
  BY <1>3
<1> QED
  BY <1>4, <1>5, <1>6 DEF IInv

(* Steps that change only states of entries, and references, preserve it.  *)
LEMMA StatesKeep ==
  ASSUME IInv, SizesAndIdsKept, mem' \in [Offsets -> Headers],
         \A r \in refs' : r \in refs \/ /\ entryCounter # 0
                                        /\ \E i \in DOMAIN Visited :
                                             r = [queueEntry |-> Visited[i],
                                                  entryId |-> mem[Visited[i]].entryId]
  PROVE  IInv'
<1>1. Types /\ UNCHANGED <<entryCounter, firstEntry, lastEntry, lastInBufferEntry, entryId>>
  BY DEF IInv, SizesAndIdsKept
<1>2. /\ entryCounter \in Nat /\ entryId \in 1..(MaxEntryId + 1) /\ entryCounter < entryId
      /\ entryId \in Int /\ MaxEntryId \in Nat
  BY <1>1, BoundsAssumption DEF Types
<1>3. ASSUME NEW w, NEW k, Held(w, k), NEW r \in refs' \ refs
      PROVE  \E m \in 1..entryCounter : /\ r.queueEntry = w[m] /\ w[m] \in Offsets
                                        /\ r.entryId = entryId - 1 - entryCounter + m
                                        /\ r = [queueEntry |-> r.queueEntry, entryId |-> r.entryId]
  <2>1. Visited = w /\ DOMAIN w = 1..entryCounter
    BY <1>1, <1>3, VisitedInRing
  <2>2. PICK m \in 1..entryCounter : r = [queueEntry |-> w[m], entryId |-> mem[w[m]].entryId]
    BY <1>3, <2>1
  <2>3. w[m] \in Offsets
    BY <1>3 DEF Held, Indexed, Layout
  <2>4. mem[w[m]].entryId = entryId - 1 - entryCounter + m
    BY <1>3 DEF Held, Numbered
  <2> QED
    BY <2>2, <2>3, <2>4
<1>4. entryCounter # 0 => RingOK'
  <2> SUFFICES ASSUME entryCounter # 0 PROVE RingOK'
    OBVIOUS
  <2>1. PICK w \in [1..entryCounter -> Offsets], k \in 1..entryCounter : Held(w, k)
    BY DEF IInv, RingOK
  <2>2. Held(w, k)'
    BY <1>1, <1>3, <2>1, HeldKept
  <2> QED
    BY <1>1, <2>2 DEF RingOK
<1>5. \A r \in refs' : r \in References /\ r.entryId < entryId
  <2> SUFFICES ASSUME NEW r \in refs' PROVE r \in References /\ r.entryId < entryId
    OBVIOUS
  <2>1. CASE r \in refs
    BY <1>1, <2>1 DEF Types
  <2>2. CASE r \notin refs
    <3>1. PICK w, k : Held(w, k)
      BY <2>2 DEF IInv, RingOK
    <3>2. PICK m \in 1..entryCounter :
            /\ r.queueEntry = w[m] /\ w[m] \in Offsets
            /\ r.entryId = entryId - 1 - entryCounter + m
            /\ r = [queueEntry |-> r.queueEntry, entryId |-> r.entryId]
      BY <1>3, <2>2, <3>1
    <3>3. r.entryId \in 1..MaxEntryId /\ r.entryId < entryId
      BY <1>2, <3>2
    <3> QED
      BY <3>2, <3>3 DEF References
  <2> QED
    BY <2>1, <2>2
<1>6. Types'
  BY <1>1, <1>2, <1>5 DEF Types
<1> QED
  BY <1>1, <1>4, <1>6 DEF IInv

(* An entry keeps its header when its state changes.                       *)
LEMMA StateChanged ==
  ASSUME Types, NEW P \in SUBSET Offsets, NEW st \in {"confirmed", "waiting", "sent"},
         mem' = [p \in Offsets |-> IF p \in P THEN [mem[p] EXCEPT !.state = st] ELSE mem[p]]
  PROVE  /\ mem' \in [Offsets -> Headers]
         /\ \A p \in Offsets : mem'[p].size = mem[p].size /\ mem'[p].entryId = mem[p].entryId
<1>1. ASSUME NEW p \in Offsets
      PROVE  mem'[p] \in Headers /\ mem'[p].size = mem[p].size /\ mem'[p].entryId = mem[p].entryId
  <2>1. PICK h \in Headers : h = mem[p]
    BY DEF Types
  <2>2. /\ [h EXCEPT !.state = st] \in Headers /\ [h EXCEPT !.state = st].size = h.size
        /\ [h EXCEPT !.state = st].entryId = h.entryId
    BY DEF Headers
  <2>3. mem'[p] = IF p \in P THEN [h EXCEPT !.state = st] ELSE h
    BY <2>1
  <2> QED
    BY <2>1, <2>2, <2>3
<1> QED
  BY <1>1

(* MessageQueue_getNextWaitingASDU with its local variables.               *)
LEMMA HandedOut ==
  ASSUME Types, NEW w, NEW k, Held(w, k), MessageQueue_getNextWaitingASDU
  PROVE  \E m \in 1..entryCounter :
           /\ mem[w[m]].state = "waiting"
           /\ \A i \in 1..entryCounter : mem[w[i]].state = "waiting" => m <= i
           /\ mem' = [mem EXCEPT ![w[m]].state = "sent"]
           /\ refs' = refs \cup {[queueEntry |-> w[m], entryId |-> mem[w[m]].entryId]}
           /\ UNCHANGED <<entryCounter, firstEntry, lastEntry, lastInBufferEntry, entryId>>
<1> DEFINE W == {i \in DOMAIN w : mem[w[i]].state = "waiting"}
           m == Min(W)
<1>1. Visited = w /\ DOMAIN w = 1..entryCounter /\ entryCounter \in Nat
  BY VisitedInRing DEF Types
<1>2. /\ W # {}
      /\ mem' = [mem EXCEPT ![w[m]].state = "sent"]
      /\ refs' = refs \cup {[queueEntry |-> w[m], entryId |-> mem[w[m]].entryId]}
      /\ UNCHANGED <<entryCounter, firstEntry, lastEntry, lastInBufferEntry, entryId>>
  BY <1>1 DEF MessageQueue_getNextWaitingASDU
<1>3. m \in W /\ \A i \in W : m <= i
  <2>1. W \in SUBSET Nat
    BY <1>1
  <2> HIDE DEF W
  <2>2. \E x \in W : \A y \in W : x <= y
    BY <1>2, <2>1, LeastNatural
  <2> QED
    BY <2>2 DEF Min
<1> HIDE DEF m
<1> QED
  BY <1>1, <1>2, <1>3

(* The next waiting entry is handed out.                                   *)
LEMMA HandOutKeeps ==
  ASSUME IInv, MessageQueue_getNextWaitingASDU
  PROVE  IInv'
<1>1. Types
  BY DEF IInv
<1>2. entryCounter # 0
  <2> SUFFICES ASSUME entryCounter = 0 PROVE FALSE
    OBVIOUS
  <2>1. Visited = <<>>
    BY DEF Visited
  <2>2. DOMAIN <<>> = {}
    OBVIOUS
  <2> QED
    BY <2>1, <2>2 DEF MessageQueue_getNextWaitingASDU
<1>3. PICK w, k : Held(w, k)
  BY <1>2 DEF IInv, RingOK
<1>4. PICK m \in 1..entryCounter :
        /\ mem' = [mem EXCEPT ![w[m]].state = "sent"]
        /\ refs' = refs \cup {[queueEntry |-> w[m], entryId |-> mem[w[m]].entryId]}
        /\ UNCHANGED <<entryCounter, firstEntry, lastEntry, lastInBufferEntry, entryId>>
  BY <1>1, <1>3, HandedOut
<1>5. w[m] \in Offsets
  BY <1>3 DEF Held, Indexed, Layout
<1>6. mem' = [p \in Offsets |-> IF p \in {w[m]} THEN [mem[p] EXCEPT !.state = "sent"] ELSE mem[p]]
  BY <1>1, <1>4, <1>5 DEF Types
<1>7. mem' \in [Offsets -> Headers] /\ SizesAndIdsKept
  <2>1. {w[m]} \in SUBSET Offsets
    BY <1>5
  <2>2. /\ mem' \in [Offsets -> Headers]
        /\ \A p \in Offsets : mem'[p].size = mem[p].size /\ mem'[p].entryId = mem[p].entryId
    BY <1>1, <1>6, <2>1, StateChanged
  <2> QED
    BY <1>4, <2>2 DEF SizesAndIdsKept
<1>8. Visited = w /\ DOMAIN w = 1..entryCounter
  BY <1>1, <1>3, VisitedInRing
<1> QED
  BY <1>2, <1>4, <1>7, <1>8, StatesKeep

(* Entries in state sent become waiting.                                   *)
LEMMA RequeueKeeps ==
  ASSUME IInv, MessageQueue_setWaitingForTransmissionWhenNotConfirmed
  PROVE  IInv'
<1>1. Types
  BY DEF IInv
<1> DEFINE P == {p \in Offsets : p \in Range(Visited) /\ mem[p].state = "sent"}
<1>2. /\ mem' = [p \in Offsets |-> IF p \in P THEN [mem[p] EXCEPT !.state = "waiting"] ELSE mem[p]]
      /\ UNCHANGED <<entryCounter, firstEntry, lastEntry, lastInBufferEntry, entryId, refs>>
  BY DEF MessageQueue_setWaitingForTransmissionWhenNotConfirmed
<1> HIDE DEF P
<1>3. P \in SUBSET Offsets
  BY DEF P
<1>4. mem' \in [Offsets -> Headers] /\ SizesAndIdsKept
  BY <1>1, <1>2, <1>3, StateChanged DEF SizesAndIdsKept
<1> QED
  BY <1>2, <1>4, StatesKeep

(* The oldest entry leaves: removeFirstEntry after its state was changed.  *)
LEMMA FirstLeaves ==
  ASSUME Types, NEW w, NEW k, Held(w, k), removeFirstEntry,
         \A p \in Offsets : mem'[p].size = mem[p].size /\ mem'[p].entryId = mem[p].entryId,
         refs' \subseteq refs, entryId' = entryId
  PROVE  /\ entryCounter' = entryCounter - 1
         /\ entryCounter = 1 =>
              firstEntry' = NULL /\ lastEntry' = NULL /\ lastInBufferEntry' = NULL
         /\ entryCounter # 1 =>
              \E u, l : u = Without(w, entryCounter, 1) /\ Held(u, l)'
<1>1. PICK n \in Nat \ {0} : n = entryCounter
  BY HeldIsRing
<1>2. /\ Layout(w, n, k, mem)
      /\ firstEntry = w[1] /\ lastEntry = w[n] /\ lastInBufferEntry = w[k]
  BY <1>1 DEF Held, Indexed
<1>3. k \in 1..n /\ 1 \in 1..n /\ n \in 1..n
  BY <1>2 DEF Layout
<1>4. (firstEntry = lastInBufferEntry <=> k = 1) /\ (firstEntry = lastEntry <=> n = 1)
  BY <1>2, <1>3, EntriesApart
<1>5. entryCounter' = n - 1
  BY <1>1 DEF removeFirstEntry
<1>6. CASE n = 1
  BY <1>1, <1>3, <1>4, <1>5, <1>6 DEF removeFirstEntry
<1>7. CASE n # 1
  <2>1. PICK u : u = Without(w, n, 1)
    OBVIOUS
  <2>2. /\ n - 1 \in Nat \ {0} /\ 1 \in 1..(n - 1) /\ n - 1 \in 1..(n - 1) /\ (n - 1) + 1 = n
        /\ \A i \in 1..(n - 1) : u[i] = w[i + 1] /\ i + 1 \in 1..n
    BY <1>7, <2>1 DEF Without
  <2>3. \E l \in 1..(n - 1) : /\ Layout(u, n - 1, l, mem)
                              /\ firstEntry' = u[1] /\ lastEntry' = u[n - 1]
                              /\ lastInBufferEntry' = u[l]
    <3>1. CASE k = 1
      <4>1. firstEntry' = 0 /\ lastInBufferEntry' = w[n] /\ lastEntry' = w[n]
        BY <1>2, <1>4, <1>7, <3>1 DEF removeFirstEntry
      <4>2. Layout(u, n - 1, n - 1, mem) /\ u[1] = 0
        BY <1>2, <1>7, <2>1, <3>1, UpperLeave
      <4> QED
        BY <2>2, <4>1, <4>2
    <3>2. CASE k # 1
      <4>1. /\ firstEntry' = EndOf(w[1]) /\ lastEntry' = w[n] /\ lastInBufferEntry' = w[k]
        BY <1>2, <1>4, <3>2 DEF removeFirstEntry
      <4>2. PICK l \in Nat : l = k - 1 /\ l \in 1..(n - 1) /\ l + 1 = k
        BY <1>3, <3>2
      <4>3. Layout(u, n - 1, l, mem)
        BY <1>2, <2>1, <3>2, <4>2, OldestLeave
      <4>4. w[2] = EndOf(w[1])
        <5>1. 1 \in 1..(n - 1) /\ 1 # k /\ 1 + 1 = 2
          BY <2>2, <3>2
        <5>2. w[1 + 1] = End(mem, w[1])
          BY <1>2, <5>1 DEF Layout
        <5> QED
          BY <5>1, <5>2 DEF End, EndOf
      <4>5. u[1] = w[2] /\ u[l] = w[k] /\ u[n - 1] = w[n]
        <5>1. 1 + 1 = 2
          OBVIOUS
        <5> QED
          BY <2>2, <4>2, <5>1
      <4> QED
        BY <4>1, <4>2, <4>3, <4>4, <4>5
    <3> QED
      BY <3>1, <3>2
  <2>4. PICK l \in 1..(n - 1) : /\ Layout(u, n - 1, l, mem)
                                /\ firstEntry' = u[1] /\ lastEntry' = u[n - 1]
                                /\ lastInBufferEntry' = u[l]
    BY <2>3
  <2>5. Indexed(u, l)'
    <3>1. Layout(u, n - 1, l, mem')
      BY <2>4, LayoutKept
    <3> QED
      BY <1>5, <2>4, <3>1 DEF Indexed
  <2>6. entryId \in Int /\ \A r \in refs : r.entryId \in Int
    BY DEF Types, References
  <2>7. Numbered(u)'
    <3> SUFFICES ASSUME NEW i \in 1..(n - 1)
                 PROVE  mem'[u[i]].entryId = entryId - 1 - (n - 1) + i
      BY <1>5 DEF Numbered
    <3>1. w[i + 1] \in Offsets /\ mem[w[i + 1]].entryId = entryId - 1 - n + (i + 1)
      BY <1>1, <1>2, <2>2 DEF Held, Numbered, Layout
    <3> QED
      BY <2>2, <2>6, <3>1
  <2>8. Referenced(u)'
    <3> SUFFICES ASSUME NEW r \in refs, NEW i \in 1..(n - 1),
                        r.entryId = entryId - 1 - (n - 1) + i
                 PROVE  r.queueEntry = u[i]
      BY <1>5 DEF Referenced
    <3>1. r.entryId = entryId - 1 - n + (i + 1)
      BY <2>6
    <3> QED
      BY <1>1, <2>2, <3>1 DEF Held, Referenced
  <2>9. Held(u, l)'
    BY <2>5, <2>7, <2>8 DEF Held
  <2> QED
    BY <1>1, <1>5, <1>7, <2>1, <2>9
<1> QED
  BY <1>6, <1>7

(* MessageQueue_markAsduAsConfirmed, in its three cases.                   *)
LEMMA Confirmed ==
  ASSUME Types, NEW r \in refs, MessageQueue_markAsduAsConfirmed(r)
  PROVE  /\ refs' = refs \ {r} /\ entryId' = entryId
         /\ \/ UNCHANGED <<mem, entryCounter, firstEntry, lastEntry, lastInBufferEntry>>
            \/ /\ plausible(r) /\ mem[r.queueEntry].entryId = r.entryId
               /\ mem' = [p \in Offsets |-> IF p \in {r.queueEntry}
                                            THEN [mem[p] EXCEPT !.state = "confirmed"] ELSE mem[p]]
               /\ \/ /\ r.queueEntry = firstEntry /\ removeFirstEntry
                  \/ /\ r.queueEntry # firstEntry
                     /\ UNCHANGED <<entryCounter, firstEntry, lastEntry, lastInBufferEntry>>
<1>1. mem \in [Offsets -> Headers] /\ r.queueEntry \in Offsets
  BY DEF Types, References
<1>2. [mem EXCEPT ![r.queueEntry].state = "confirmed"]
        = [p \in Offsets |-> IF p \in {r.queueEntry}
                             THEN [mem[p] EXCEPT !.state = "confirmed"] ELSE mem[p]]
  BY <1>1
<1> QED
  BY <1>2 DEF MessageQueue_markAsduAsConfirmed

(* A confirmation preserves the invariant.                                 *)
LEMMA ConfirmKeeps ==
  ASSUME IInv, NEW r \in refs, MessageQueue_markAsduAsConfirmed(r)
  PROVE  IInv'
<1>1. Types /\ refs' \subseteq refs /\ entryId' = entryId
  BY Confirmed DEF IInv
<1>2. CASE UNCHANGED <<mem, entryCounter, firstEntry, lastEntry, lastInBufferEntry>>
  <2>1. SizesAndIdsKept /\ mem' \in [Offsets -> Headers]
    BY <1>1, <1>2 DEF SizesAndIdsKept, Types
  <2> QED
    BY <1>1, <2>1, StatesKeep
<1>3. CASE /\ plausible(r)
           /\ mem' = [p \in Offsets |-> IF p \in {r.queueEntry}
                                        THEN [mem[p] EXCEPT !.state = "confirmed"] ELSE mem[p]]
  <2>1. /\ mem' \in [Offsets -> Headers]
        /\ \A p \in Offsets : mem'[p].size = mem[p].size /\ mem'[p].entryId = mem[p].entryId
    <3>1. {r.queueEntry} \in SUBSET Offsets
      BY <1>1 DEF Types, References
    <3> QED
      BY <1>1, <1>3, <3>1, StateChanged
  <2>2. CASE UNCHANGED <<entryCounter, firstEntry, lastEntry, lastInBufferEntry>>
    BY <1>1, <2>1, <2>2, StatesKeep DEF SizesAndIdsKept
  <2>3. CASE removeFirstEntry
    <3>1. entryCounter \in Nat /\ entryCounter # 0
      BY <1>1, <1>3 DEF plausible, Types
    <3>2. PICK w, k : Held(w, k)
      BY <3>1 DEF IInv, RingOK
    <3>3. /\ entryCounter' = entryCounter - 1
          /\ entryCounter = 1 =>
               firstEntry' = NULL /\ lastEntry' = NULL /\ lastInBufferEntry' = NULL
          /\ entryCounter # 1 =>
               \E u, l : u = Without(w, entryCounter, 1) /\ Held(u, l)'
      BY <1>1, <2>1, <2>3, <3>2, FirstLeaves
    <3>4. entryCounter' # 0 => RingOK'
      <4> SUFFICES ASSUME entryCounter' # 0 PROVE RingOK'
        OBVIOUS
      <4>1. PICK u, l : Held(u, l)'
        BY <3>1, <3>3
      <4>2. u \in [1..entryCounter' -> Offsets] /\ l \in 1..entryCounter'
        BY <4>1 DEF Held, Indexed, Layout
      <4> QED
        BY <4>1, <4>2 DEF RingOK
    <3>5. Types'
      BY <1>1, <2>1, <3>1, <3>3 DEF Types
    <3> QED
      BY <3>1, <3>3, <3>4, <3>5 DEF IInv
  <2> QED
    BY <1>1, <1>2, <1>3, <2>2, <2>3, Confirmed
<1> QED
  BY <1>1, <1>2, <1>3, Confirmed

(* When the queue is emptied, references to its entries remain.            *)
LEMMA ReleaseKeeps ==
  ASSUME IInv, MessageQueue_releaseAllQueuedASDUs
  PROVE  IInv'
BY DEF IInv, Types, MessageQueue_releaseAllQueuedASDUs

(* A connection forgets references.                                        *)
LEMMA InitKeeps ==
  ASSUME IInv, MasterConnection_init
  PROVE  IInv'
<1>1. /\ refs' \subseteq refs
      /\ UNCHANGED <<entryCounter, firstEntry, lastEntry, lastInBufferEntry, entryId, mem>>
  BY DEF MasterConnection_init
<1>2. SizesAndIdsKept /\ mem' \in [Offsets -> Headers]
  BY <1>1 DEF SizesAndIdsKept, IInv, Types
<1> QED
  BY <1>1, <1>2, StatesKeep

(* The invariant holds of every behaviour.                                 *)
THEOREM Invariance ==
  ASSUME RoomForTwo
  PROVE  Spec => []IInv
<1>1. Init => IInv
  BY SizesAssumption, BoundsAssumption DEF Init, IInv, Types, Headers, Blank
<1>2. IInv /\ [Next]_vars => IInv'
  <2> SUFFICES ASSUME IInv, [Next]_vars PROVE IInv'
    OBVIOUS
  <2>1. CASE UNCHANGED vars
    <3>1. SizesAndIdsKept /\ mem' \in [Offsets -> Headers] /\ refs' = refs
      BY <2>1 DEF vars, SizesAndIdsKept, IInv, Types
    <3> QED
      BY <3>1, StatesKeep
  <2> QED
    BY <2>1, EnqueueKeeps, HandOutKeeps, RequeueKeeps, ReleaseKeeps, ConfirmKeeps,
       InitKeeps DEF Next
<1> QED
  BY <1>1, <1>2, PTL DEF Spec

(* Every index is an address of the buffer or NULL, the memory holds       *)
(* headers, and references point into the buffer.                          *)
THEOREM TypeCorrect ==
  ASSUME RoomForTwo
  PROVE  Spec => []TypeOK
<1>1. IInv => TypeOK
  <2> SUFFICES ASSUME IInv PROVE TypeOK
    OBVIOUS
  <2>1. {firstEntry, lastEntry, lastInBufferEntry} \subseteq Offsets \cup {NULL}
    <3>1. entryCounter # 0 => {firstEntry, lastEntry, lastInBufferEntry} \subseteq Offsets
      <4> SUFFICES ASSUME entryCounter # 0
                   PROVE  {firstEntry, lastEntry, lastInBufferEntry} \subseteq Offsets
        OBVIOUS
      <4>1. PICK w, k : Held(w, k)
        BY DEF IInv, RingOK
      <4> QED
        BY <4>1 DEF Held, Indexed, Layout
    <3> QED
      BY <3>1 DEF IInv
  <2> QED
    BY <2>1 DEF IInv, Types, Headers, References, TypeOK
<1> QED
  BY <1>1, Invariance, PTL

(* The entries found between firstEntry and lastEntry are the entryCounter *)
(* youngest ones, in their order, inside the buffer and not overlapping.   *)
THEOREM Consistent ==
  ASSUME RoomForTwo
  PROVE  Spec => []QueueConsistent
<1>1. IInv => QueueConsistent
  <2> SUFFICES ASSUME IInv PROVE QueueConsistent
    OBVIOUS
  <2>0. Types /\ entryCounter \in Nat
    BY DEF IInv, Types
  <2>1. CASE entryCounter = 0
    <3>1. Visited = <<>> /\ Len(<<>>) = 0 /\ DOMAIN <<>> = {}
      BY <2>1 DEF Visited
    <3> QED
      BY <2>1, <3>1 DEF QueueConsistent
  <2>2. CASE entryCounter # 0
    <3>1. PICK w, k : Held(w, k)
      BY <2>2 DEF IInv, RingOK
    <3>2. Visited = w /\ DOMAIN w = 1..entryCounter
      BY <2>0, <3>1, VisitedInRing
    <3>3. w \in Seq(Offsets) /\ Len(w) = entryCounter
      BY <2>0, <3>1 DEF Held, Indexed, Layout
    <3>4. ASSUME NEW i \in 1..entryCounter
          PROVE  /\ EndOf(w[i]) <= Size
                 /\ mem[w[i]].entryId = entryId - 1 - entryCounter + i
                 /\ \A j \in 1..(i - 1) : EndOf(w[i]) <= w[j] \/ EndOf(w[j]) <= w[i]
      <4>1. EndOf(w[i]) <= Size
        BY <3>1 DEF Held, Indexed, Layout, End, EndOf
      <4>2. mem[w[i]].entryId = entryId - 1 - entryCounter + i
        BY <3>1 DEF Held, Numbered
      <4>3. ASSUME NEW j \in 1..(i - 1)
            PROVE  EndOf(w[i]) <= w[j] \/ EndOf(w[j]) <= w[i]
        <5>1. j \in 1..entryCounter /\ j < i
          BY <2>0
        <5> QED
          BY <3>1, <5>1 DEF Held, Indexed, Layout, End, EndOf
      <4> QED
        BY <4>1, <4>2, <4>3
    <3> QED
      BY <3>2, <3>3, <3>4 DEF QueueConsistent
  <2> QED
    BY <2>1, <2>2
<1> QED
  BY <1>1, Invariance, PTL

(* A reference that passes the plausibility test leads to its entry: no    *)
(* confirmation finds the queue corrupted.                                 *)
THEOREM NeverCorrupted ==
  ASSUME RoomForTwo
  PROVE  Spec => []NoCorruption
<1>1. IInv => NoCorruption
  <2> SUFFICES ASSUME IInv, NEW r \in refs, plausible(r)
               PROVE  mem[r.queueEntry].entryId = r.entryId
    BY DEF NoCorruption
  <2>1. /\ entryCounter \in Nat \ {0} /\ entryId \in Int /\ r.entryId \in Int
        /\ r.entryId < entryId /\ entryId - 1 - r.entryId < entryCounter
    BY DEF IInv, Types, References, plausible
  <2>2. PICK i \in 1..entryCounter : i = r.entryId - (entryId - 1 - entryCounter)
    BY <2>1
  <2>3. r.entryId = entryId - 1 - entryCounter + i
    BY <2>1, <2>2
  <2>4. PICK w, k : Held(w, k)
    BY <2>1 DEF IInv, RingOK
  <2> QED
    BY <2>3, <2>4 DEF Held, Numbered, Referenced
<1> QED
  BY <1>1, Invariance, PTL

-----------------------------------------------------------------------------
(* The refinement of the event FIFO                                        *)

(* What a FIFO shows of n entries at the addresses w.                      *)
Shown(w, n, mm) == [i \in 1..n |-> [id |-> mm[w[i]].entryId, state |-> mm[w[i]].state]]

(* The refinement mapping, for the ring at w.                              *)
LEMMA EventsShown ==
  \A w, k : Types /\ Held(w, k) => Events = Shown(w, entryCounter, mem)
BY VisitedInRing DEF Events, Shown

(* The refinement mapping, for an empty queue.                             *)
LEMMA NoEvents ==
  entryCounter = 0 => Events = <<>>
<1> SUFFICES ASSUME entryCounter = 0 PROVE Events = <<>>
  OBVIOUS
<1>1. Visited = <<>> /\ DOMAIN <<>> = {}
  BY DEF Visited
<1> QED
  BY <1>1 DEF Events

(* The same after a step.                                                  *)
LEMMA EventsAfter ==
  ASSUME Types'
  PROVE  /\ \A w, k : Held(w, k)' => Events' = Shown(w, entryCounter', mem')
         /\ entryCounter' = 0 => Events' = <<>>
<1>1. (\A w, k : Types /\ Held(w, k) => Events = Shown(w, entryCounter, mem))'
  BY EventsShown, PTL
<1>2. (entryCounter = 0 => Events = <<>>)'
  BY NoEvents, PTL
<1> QED
  BY <1>1, <1>2

(* A step that leaves the addresses alone changes events in place.         *)
LEMMA EventsInPlace ==
  ASSUME Types, Types', NEW w, NEW k, Held(w, k), Held(w, k)', UNCHANGED entryCounter
  PROVE  /\ entryCounter \in Nat \ {0} /\ w \in [1..entryCounter -> Offsets]
         /\ Events = Shown(w, entryCounter, mem)
         /\ Events' = Shown(w, entryCounter, mem')
         /\ \A i, j \in 1..entryCounter : w[i] = w[j] => i = j
<1>1. entryCounter \in Nat \ {0} /\ Layout(w, entryCounter, k, mem)
  BY HeldIsRing
<1>2. w \in [1..entryCounter -> Offsets]
  BY <1>1 DEF Layout
<1>3. \A i, j \in 1..entryCounter : w[i] = w[j] => i = j
  BY <1>1, EntriesApart
<1>4. Events = Shown(w, entryCounter, mem)
  BY EventsShown
<1>5. Events' = Shown(w, entryCounter', mem')
  BY EventsAfter
<1> QED
  BY <1>1, <1>2, <1>3, <1>4, <1>5

(* The sequence without its d first elements and with one more.            *)
LEMMA DroppedAndAppended ==
  ASSUME NEW n \in Nat, NEW f, f = [i \in 1..n |-> f[i]], NEW d \in 0..n, NEW e
  PROVE  Append(SubSeq(f, d + 1, Len(f)), e)
           = [i \in 1..(n - d + 1) |-> IF i = n - d + 1 THEN e ELSE f[i + d]]
<1>1. PICK m \in Nat : m = n - d
  OBVIOUS
<1>2. Len(f) = n
  OBVIOUS
<1>3. SubSeq(f, d + 1, n) = [i \in 1..m |-> f[i + d]]
  <2>1. SubSeq(f, d + 1, n) = [i \in 1..(n - d) |-> f[(d + 1) + i - 1]]
    OBVIOUS
  <2>2. \A i \in 1..m : (d + 1) + i - 1 = i + d
    OBVIOUS
  <2> QED
    BY <1>1, <2>1, <2>2
<1>4. PICK g : g = [i \in 1..m |-> f[i + d]]
  OBVIOUS
<1>5. Len(g) = m /\ Append(g, e) = [i \in 1..(m + 1) |-> IF i = m + 1 THEN e ELSE g[i]]
  BY <1>4
<1>6. Append(SubSeq(f, d + 1, Len(f)), e) = Append(g, e)
  BY <1>2, <1>3, <1>4
<1>7. \A i \in 1..(m + 1) : i # m + 1 => g[i] = f[i + d]
  BY <1>4
<1> QED
  BY <1>1, <1>5, <1>6, <1>7

(* Enqueueing adds an event; events that must make room are the oldest.    *)
LEMMA EnqueueRefined ==
  ASSUME RoomForTwo, IInv, IInv', NEW s \in AsduSizes, MessageQueue_enqueueASDU(s)
  PROVE  FIFO!Add
<1>1. Types /\ Types' /\ entryId' = entryId + 1
  BY EnqueueTypes DEF IInv
<1>2. PICK n \in Nat, next \in Offsets :
        \E w, v, l : \E d \in 0..n : Added(n, w, d, next, v, l, s) /\ Held(v, l)'
  BY EntryAdded
<1>3. PICK w, v, l : \E d \in 0..n : Added(n, w, d, next, v, l, s) /\ Held(v, l)'
  BY <1>2
<1>4. PICK d \in 0..n : Added(n, w, d, next, v, l, s) /\ Held(v, l)'
  BY <1>3
<1>5. Events = Shown(w, n, mem)
  <2>1. CASE n = 0
    BY <1>4, <2>1, NoEvents DEF Added, Shown
  <2>2. CASE n # 0
    <3>1. PICK k : Held(w, k)
      BY <1>4, <2>2 DEF Added
    <3> QED
      BY <1>1, <1>4, <3>1, EventsShown DEF Added
  <2> QED
    BY <2>1, <2>2
<1>6. Events' = Shown(v, n - d + 1, mem')
  BY <1>1, <1>4, EventsAfter DEF Added
<1> DEFINE new == [id |-> entryId, state |-> "waiting"]
<1>7. Append(SubSeq(Events, d + 1, Len(Events)), new)
        = [i \in 1..(n - d + 1) |-> IF i = n - d + 1 THEN new ELSE Events[i + d]]
  <2>1. Events = [i \in 1..n |-> Events[i]]
    BY <1>5 DEF Shown
  <2> HIDE DEF new
  <2> QED
    BY <2>1, DroppedAndAppended
<1>8. ASSUME NEW i \in 1..(n - d + 1)
      PROVE  [id |-> mem'[v[i]].entryId, state |-> mem'[v[i]].state]
               = IF i = n - d + 1 THEN new ELSE Events[i + d]
  <2>1. v[i] = IF i = n - d + 1 THEN next ELSE w[i + d]
    BY <1>4 DEF Added, After, With, Without
  <2>2. CASE i = n - d + 1
    BY <1>4, <2>1, <2>2 DEF Added, NewEntry
  <2>3. CASE i # n - d + 1
    <3>1. i \in 1..(n - d) /\ i + d \in 1..n
      BY <2>3
    <3>2. mem'[v[i]] = mem[w[i + d]]
      BY <1>4, <2>1, <2>3, <3>1 DEF Added
    <3> QED
      BY <1>5, <2>3, <3>1, <3>2 DEF Shown
  <2> QED
    BY <2>2, <2>3
<1>9. Events' = Append(SubSeq(Events, d + 1, Len(Events)), new)
  <2> HIDE DEF new
  <2> QED
    BY <1>6, <1>7, <1>8 DEF Shown
<1>10. Len(Events) = n
  BY <1>5 DEF Shown
<1> QED
  BY <1>1, <1>9, <1>10 DEF FIFO!Add

(* getNextWaitingASDU hands out the oldest waiting event.                  *)
LEMMA HandOutRefined ==
  ASSUME IInv, IInv', MessageQueue_getNextWaitingASDU
  PROVE  FIFO!HandOut
<1>1. Types /\ Types'
  BY DEF IInv
<1>2. entryCounter # 0
  <2> SUFFICES ASSUME entryCounter = 0 PROVE FALSE
    OBVIOUS
  <2>1. Visited = <<>>
    BY DEF Visited
  <2>2. DOMAIN <<>> = {}
    OBVIOUS
  <2> QED
    BY <2>1, <2>2 DEF MessageQueue_getNextWaitingASDU
<1>3. PICK w, k : Held(w, k)
  BY <1>2 DEF IInv, RingOK
<1>4. PICK m \in 1..entryCounter :
        /\ mem[w[m]].state = "waiting"
        /\ \A i \in 1..entryCounter : mem[w[i]].state = "waiting" => m <= i
        /\ mem' = [mem EXCEPT ![w[m]].state = "sent"]
        /\ refs' = refs \cup {[queueEntry |-> w[m], entryId |-> mem[w[m]].entryId]}
        /\ UNCHANGED <<entryCounter, firstEntry, lastEntry, lastInBufferEntry, entryId>>
  BY <1>1, <1>3, HandedOut
<1>5. w[m] \in Offsets /\ mem[w[m]].entryId = entryId - 1 - entryCounter + m
  BY <1>3 DEF Held, Indexed, Layout, Numbered
<1>6. \A p \in Offsets : mem'[p] = IF p = w[m] THEN [mem[p] EXCEPT !.state = "sent"] ELSE mem[p]
  BY <1>1, <1>4, <1>5 DEF Types
<1>7. \A p \in Offsets : /\ mem[p] \in Headers
                         /\ mem'[p].size = mem[p].size /\ mem'[p].entryId = mem[p].entryId
                         /\ mem'[p].state = IF p = w[m] THEN "sent" ELSE mem[p].state
  <2> SUFFICES ASSUME NEW p \in Offsets
               PROVE  /\ mem[p] \in Headers
                      /\ mem'[p].size = mem[p].size /\ mem'[p].entryId = mem[p].entryId
                      /\ mem'[p].state = IF p = w[m] THEN "sent" ELSE mem[p].state
    OBVIOUS
  <2>1. mem[p] \in Headers
    BY <1>1 DEF Types
  <2> QED
    BY <1>6, <2>1 DEF Headers
<1>8. Held(w, k)'
  <2>1. SizesAndIdsKept
    BY <1>4, <1>7 DEF SizesAndIdsKept
  <2>2. \A r \in refs' \ refs : r.queueEntry = w[m] /\ r.entryId = entryId - 1 - entryCounter + m
    BY <1>4, <1>5
  <2> QED
    BY <1>1, <1>3, <2>1, <2>2, HeldKept
<1>9. PICK n \in Nat \ {0} : n = entryCounter
  BY <1>3, HeldIsRing
<1>10. /\ w \in [1..n -> Offsets]
       /\ Events = Shown(w, n, mem) /\ Events' = Shown(w, n, mem')
       /\ \A i, j \in 1..n : w[i] = w[j] => i = j
  BY <1>1, <1>3, <1>4, <1>8, <1>9, EventsInPlace
<1>11. DOMAIN Events = 1..n /\ m \in 1..n /\ Events[m].state = "waiting"
       /\ \A i \in 1..n : Events[i].state = mem[w[i]].state
  BY <1>4, <1>9, <1>10 DEF Shown
<1>12. Events' = [Events EXCEPT ![m].state = "sent"]
  <2> DEFINE New(i) == IF i = m THEN [Events[i] EXCEPT !.state = "sent"] ELSE Events[i]
  <2>1. ASSUME NEW i \in 1..n
        PROVE  [id |-> mem'[w[i]].entryId, state |-> mem'[w[i]].state] = New(i)
    <3>1. Events[i] = [id |-> mem[w[i]].entryId, state |-> mem[w[i]].state]
      BY <1>10 DEF Shown
    <3>2. w[i] \in Offsets /\ (w[i] = w[m] <=> i = m)
      BY <1>10, <1>11
    <3> QED
      BY <1>7, <3>1, <3>2
  <2>2. [Events EXCEPT ![m].state = "sent"] = [i \in 1..n |-> New(i)]
    BY <1>11
  <2> HIDE DEF New
  <2> QED
    BY <1>10, <2>1, <2>2 DEF Shown
<1> QED
  BY <1>4, <1>9, <1>11, <1>12 DEF FIFO!HandOut

(* After a connection loss what was sent is waiting again.                 *)
LEMMA RequeueRefined ==
  ASSUME IInv, IInv', MessageQueue_setWaitingForTransmissionWhenNotConfirmed
  PROVE  FIFO!Requeue
<1>1. Types /\ Types'
  BY DEF IInv
<1>2. entryCounter # 0
  <2> SUFFICES ASSUME entryCounter = 0 PROVE FALSE
    OBVIOUS
  <2>1. Visited = <<>>
    BY DEF Visited
  <2>2. DOMAIN <<>> = {}
    OBVIOUS
  <2> QED
    BY <2>1, <2>2 DEF MessageQueue_setWaitingForTransmissionWhenNotConfirmed,
                      MessageQueue_hasUnconfirmedIMessages, Range
<1>3. PICK w, k : Held(w, k)
  BY <1>2 DEF IInv, RingOK
<1>4. \A i \in 1..entryCounter : w[i] \in Range(Visited)
  <2>1. Visited = w /\ DOMAIN w = 1..entryCounter
    BY <1>1, <1>3, VisitedInRing
  <2> QED
    BY <2>1 DEF Range
<1> DEFINE P == {p \in Offsets : p \in Range(Visited) /\ mem[p].state = "sent"}
<1>5. /\ mem' = [p \in Offsets |-> IF p \in P THEN [mem[p] EXCEPT !.state = "waiting"] ELSE mem[p]]
      /\ UNCHANGED <<entryCounter, firstEntry, lastEntry, lastInBufferEntry, entryId, refs>>
  BY DEF MessageQueue_setWaitingForTransmissionWhenNotConfirmed
<1>6. SizesAndIdsKept
  <2> HIDE DEF P
  <2>1. P \in SUBSET Offsets
    BY DEF P
  <2> QED
    BY <1>1, <1>5, <2>1, StateChanged DEF SizesAndIdsKept
<1>7. Held(w, k)'
  <2>1. \A r \in refs' \ refs : FALSE
    BY <1>5
  <2> QED
    BY <1>1, <1>3, <1>6, <2>1, HeldKept
<1>8. PICK n \in Nat \ {0} : n = entryCounter
  BY <1>3, HeldIsRing
<1>9. /\ w \in [1..n -> Offsets]
      /\ Events = Shown(w, n, mem) /\ Events' = Shown(w, n, mem')
  BY <1>1, <1>3, <1>5, <1>7, <1>8, EventsInPlace
<1> DEFINE New(i) == IF Events[i].state = "sent"
                     THEN [Events[i] EXCEPT !.state = "waiting"] ELSE Events[i]
<1>10. ASSUME NEW i \in 1..n
       PROVE  [id |-> mem'[w[i]].entryId, state |-> mem'[w[i]].state] = New(i)
  <2>1. Events[i] = [id |-> mem[w[i]].entryId, state |-> mem[w[i]].state]
    BY <1>9 DEF Shown
  <2>2. w[i] \in Offsets /\ (w[i] \in P <=> mem[w[i]].state = "sent")
    BY <1>4, <1>8, <1>9
  <2>3. PICK h \in Headers : h = mem[w[i]]
    BY <1>1, <2>2 DEF Types
  <2> HIDE DEF P
  <2>4. mem'[w[i]] = IF h.state = "sent" THEN [h EXCEPT !.state = "waiting"] ELSE h
    BY <1>5, <2>2, <2>3
  <2>5. mem'[w[i]].entryId = h.entryId
        /\ mem'[w[i]].state = IF h.state = "sent" THEN "waiting" ELSE h.state
    BY <2>4 DEF Headers
  <2> QED
    BY <2>1, <2>3, <2>5
<1>11. DOMAIN Events = 1..n
  BY <1>9 DEF Shown
<1>12. Events' = [i \in DOMAIN Events |-> New(i)]
  <2> HIDE DEF New
  <2> QED
    BY <1>9, <1>10, <1>11 DEF Shown
<1> QED
  BY <1>5, <1>12 DEF FIFO!Requeue

(* Emptying the queue leaves no event.                                     *)
LEMMA ReleaseRefined ==
  ASSUME IInv', MessageQueue_releaseAllQueuedASDUs
  PROVE  FIFO!Clear
<1>1. entryCounter' = 0 /\ entryId' = entryId /\ Types'
  BY DEF MessageQueue_releaseAllQueuedASDUs, IInv
<1>2. Events' = <<>>
  BY <1>1, EventsAfter
<1> QED
  BY <1>1, <1>2 DEF FIFO!Clear

(* A step that changes neither the ring nor a header shows nothing new.    *)
LEMMA NothingShown ==
  ASSUME UNCHANGED <<mem, entryCounter, firstEntry, lastEntry, lastInBufferEntry, entryId>>
  PROVE  UNCHANGED <<Events, entryId>>
BY DEF Events, Visited, Chain, LengthUntil, MaxEntries, EndOf

(* The event that is confirmed is the one with the id of the reference: it *)
(* leaves when it is the oldest one.                                       *)
LEMMA ConfirmRefined ==
  ASSUME IInv, IInv', NEW r \in refs, MessageQueue_markAsduAsConfirmed(r)
  PROVE  FIFO!Confirm \/ UNCHANGED <<Events, entryId>>
<1>1. Types /\ Types' /\ refs' \subseteq refs /\ entryId' = entryId
  BY Confirmed DEF IInv
<1>2. CASE UNCHANGED <<mem, entryCounter, firstEntry, lastEntry, lastInBufferEntry>>
  BY <1>1, <1>2, NothingShown
<1>3. CASE /\ plausible(r)
           /\ mem' = [p \in Offsets |-> IF p \in {r.queueEntry}
                                        THEN [mem[p] EXCEPT !.state = "confirmed"] ELSE mem[p]]
           /\ \/ /\ r.queueEntry = firstEntry /\ removeFirstEntry
              \/ /\ r.queueEntry # firstEntry
                 /\ UNCHANGED <<entryCounter, firstEntry, lastEntry, lastInBufferEntry>>
  <2>1. /\ entryCounter \in Nat \ {0} /\ entryId \in Int /\ r.entryId \in Int
        /\ r.entryId < entryId /\ entryId - 1 - r.entryId < entryCounter
    BY <1>1, <1>3 DEF Types, References, plausible
  <2>2. PICK w, k : Held(w, k)
    BY <2>1 DEF IInv, RingOK
  <2>3. PICK n \in Nat \ {0} : n = entryCounter
    BY <2>1
  <2>4. PICK i \in 1..n : i = r.entryId - (entryId - 1 - n)
    BY <2>1, <2>3
  <2>5. r.queueEntry = w[i]
    <3>1. r.entryId = entryId - 1 - n + i
      BY <2>1, <2>4
    <3> QED
      BY <2>2, <2>3, <3>1 DEF Held, Referenced
  <2>6. /\ w \in [1..n -> Offsets] /\ firstEntry = w[1] /\ 1 \in 1..n
        /\ \A a, b \in 1..n : w[a] = w[b] => a = b
        /\ Events = Shown(w, n, mem)
    <3>1. w \in [1..n -> Offsets] /\ firstEntry = w[1] /\ 1 \in 1..n
      BY <2>2, <2>3 DEF Held, Indexed, Layout
    <3>2. \A a, b \in 1..n : w[a] = w[b] => a = b
      BY <2>2, <2>3, HeldIsRing, EntriesApart
    <3> QED
      BY <1>1, <2>2, <2>3, <3>1, <3>2, EventsShown
  <2>7. \A p \in Offsets :
          /\ mem'[p].size = mem[p].size /\ mem'[p].entryId = mem[p].entryId
          /\ mem'[p].state = IF p = w[i] THEN "confirmed" ELSE mem[p].state
    <3> SUFFICES ASSUME NEW p \in Offsets
                 PROVE  /\ mem'[p].size = mem[p].size /\ mem'[p].entryId = mem[p].entryId
                        /\ mem'[p].state = IF p = w[i] THEN "confirmed" ELSE mem[p].state
      OBVIOUS
    <3>1. PICK h \in Headers : h = mem[p]
      BY <1>1 DEF Types
    <3>2. mem'[p] = IF p = w[i] THEN [h EXCEPT !.state = "confirmed"] ELSE h
      BY <1>3, <2>5, <3>1
    <3> QED
      BY <3>1, <3>2 DEF Headers
  <2>8. CASE i = 1
    <3>1. removeFirstEntry
      BY <1>3, <2>5, <2>6, <2>8
    <3>2. /\ entryCounter' = n - 1
          /\ n # 1 => \E u, l : u = Without(w, n, 1) /\ Held(u, l)'
      BY <1>1, <2>2, <2>3, <2>7, <3>1, FirstLeaves
    <3>3. Events' = Shown(Without(w, n, 1), n - 1, mem')
      <4>1. CASE n = 1
        BY <1>1, <3>2, <4>1, EventsAfter DEF Shown
      <4>2. CASE n # 1
        BY <1>1, <3>2, <4>2, EventsAfter
      <4> QED
        BY <4>1, <4>2
    <3>4. ASSUME NEW j \in 1..(n - 1)
          PROVE  [id |-> mem'[Without(w, n, 1)[j]].entryId,
                  state |-> mem'[Without(w, n, 1)[j]].state] = Events[j + 1]
      <4>1. j + 1 \in 1..n /\ Without(w, n, 1)[j] = w[j + 1] /\ w[j + 1] \in Offsets
            /\ w[j + 1] # w[i]
        BY <2>6, <2>8 DEF Without
      <4> QED
        BY <2>6, <2>7, <4>1 DEF Shown
    <3>5. Tail(Events) = [j \in 1..(n - 1) |-> Events[j + 1]]
      <4>1. Events = [j \in 1..n |-> Events[j]]
        BY <2>6 DEF Shown
      <4> QED
        BY <4>1
    <3>6. Events' = Tail(Events) /\ 1 \in DOMAIN Events
      <4> DEFINE u == Without(w, n, 1)
      <4>1. Events' = [j \in 1..(n - 1) |-> [id |-> mem'[u[j]].entryId,
                                             state |-> mem'[u[j]].state]]
        BY <3>3 DEF Shown
      <4>2. \A j \in 1..(n - 1) : [id |-> mem'[u[j]].entryId, state |-> mem'[u[j]].state]
                                    = Events[j + 1]
        BY <3>4
      <4>3. 1 \in DOMAIN Events
        BY <2>6 DEF Shown
      <4> HIDE DEF u
      <4> QED
        BY <3>5, <4>1, <4>2, <4>3
    <3> QED
      BY <1>1, <3>6 DEF FIFO!Confirm
  <2>9. CASE i # 1
    <3>1. UNCHANGED <<entryCounter, firstEntry, lastEntry, lastInBufferEntry>>
      BY <1>3, <2>5, <2>6, <2>9
    <3>2. Held(w, k)'
      <4>1. SizesAndIdsKept /\ \A q \in refs' \ refs : FALSE
        BY <1>1, <2>7, <3>1 DEF SizesAndIdsKept
      <4> QED
        BY <1>1, <2>2, <4>1, HeldKept
    <3>3. Events' = Shown(w, n, mem')
      BY <1>1, <2>3, <3>1, <3>2, EventsAfter
    <3> DEFINE New(j) == IF j = i THEN [Events[j] EXCEPT !.state = "confirmed"] ELSE Events[j]
    <3>4. ASSUME NEW j \in 1..n
          PROVE  [id |-> mem'[w[j]].entryId, state |-> mem'[w[j]].state] = New(j)
      <4>1. w[j] \in Offsets /\ (w[j] = w[i] <=> j = i)
        BY <2>6
      <4>2. Events[j] = [id |-> mem[w[j]].entryId, state |-> mem[w[j]].state]
        BY <2>6 DEF Shown
      <4> QED
        BY <2>7, <4>1, <4>2
    <3>5. DOMAIN Events = 1..n /\ Events = [j \in 1..n |-> Events[j]]
      BY <2>6 DEF Shown
    <3>6. [Events EXCEPT ![i].state = "confirmed"] = [j \in 1..n |-> New(j)]
      BY <3>5
    <3>7. Events' = [Events EXCEPT ![i].state = "confirmed"]
      <4> HIDE DEF New
      <4> QED
        BY <3>3, <3>4, <3>6 DEF Shown
    <3> QED
      BY <1>1, <2>9, <3>5, <3>7 DEF FIFO!Confirm
  <2> QED
    BY <2>8, <2>9
<1> QED
  BY <1>2, <1>3, Confirmed DEF IInv

(* The byte ring implements the event FIFO: only the oldest events are     *)
(* pushed out, the oldest waiting one is sent next, and a confirmation     *)
(* touches the confirmed event alone.                                      *)
THEOREM FIFORefined ==
  ASSUME RoomForTwo
  PROVE  Spec => ImplementsEventQueue
<1>1. Init => FIFO!QInit
  BY NoEvents DEF Init, FIFO!QInit
<1>2. IInv /\ IInv' /\ [Next]_vars => [FIFO!QNext]_(FIFO!qvars)
  <2> SUFFICES ASSUME IInv, IInv', [Next]_vars
               PROVE  FIFO!QNext \/ UNCHANGED <<Events, entryId>>
    BY DEF FIFO!qvars
  <2>1. CASE UNCHANGED vars
    BY <2>1, NothingShown DEF vars
  <2>2. CASE MasterConnection_init
    BY <2>2, NothingShown DEF MasterConnection_init
  <2>3. CASE \E s \in AsduSizes : MessageQueue_enqueueASDU(s)
    BY <2>3, EnqueueRefined DEF FIFO!QNext
  <2>4. CASE MessageQueue_getNextWaitingASDU
    BY <2>4, HandOutRefined DEF FIFO!QNext
  <2>5. CASE MessageQueue_setWaitingForTransmissionWhenNotConfirmed
    BY <2>5, RequeueRefined DEF FIFO!QNext
  <2>6. CASE MessageQueue_releaseAllQueuedASDUs
    BY <2>6, ReleaseRefined DEF FIFO!QNext
  <2>7. CASE \E r \in refs : MessageQueue_markAsduAsConfirmed(r)
    BY <2>7, ConfirmRefined DEF FIFO!QNext
  <2> QED
    BY <2>1, <2>2, <2>3, <2>4, <2>5, <2>6, <2>7 DEF Next
<1> QED
  BY <1>1, <1>2, Invariance, PTL DEF Spec, ImplementsEventQueue, FIFO!QSpec
=============================================================================
