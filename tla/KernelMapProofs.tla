--------------------------- MODULE KernelMapProofs --------------------------
(***************************************************************************)
(* Proofs about the kernel cache and its read-write lock (KernelMap) for   *)
(* any number of threads, keys and puts and any hashes: the lock excludes, *)
(* the probe chains survive every put and every growth, and the map is the *)
(* dictionary of KernelDict.                                               *)
(***************************************************************************)
EXTENDS KernelMapProps, FiniteSetTheorems, TLAPS

ASSUME NoSlotNew == NoSlot \notin [array : Nat, at : Nat]

-----------------------------------------------------------------------------
(* Arrays of slots *)

(* What a slot may show, and the arrays of cap slots. *)
Slot == [key : Keys, val : Kernels \union {NoKernel}]
Arrays(cap) == [0 .. cap - 1 -> Slot]

(* The live slots of an array. *)
LiveIn(s, cap) == {i \in 0 .. cap - 1 : Live(s[i])}

(* A probe for k gets to slot i, through live slots only. *)
Reaches(s, cap, k, i) ==
  \E n \in 0 .. cap - 1 : /\ Probe(hash[k], n, cap) = i
                          /\ \A m \in 0 .. n : Live(s[Probe(hash[k], m, cap)])

(* The probe of every record's key gets to it, and no key has two records. *)
Chained(s, cap) ==
  \A i \in LiveIn(s, cap) :
    /\ Reaches(s, cap, s[i].key, i)
    /\ \A j \in LiveIn(s, cap) : s[j].key = s[i].key => j = i

(* A set of naturals that has an element has a least one: probe loops stop *)
(* at the first slot that ends them.                                       *)
LEMMA LeastNumber ==
  ASSUME NEW S \in SUBSET Nat, S # {}
  PROVE  \E n \in S : \A m \in S : n <= m
  <1>1. PICK n \in S : \A m \in S : <<m, n>> \notin OpToRel(<, Nat)
    BY WFMin, NatLessThanWellFounded, Zenon
  <1>2. \A m \in S : ~(m < n)
    BY <1>1 DEF OpToRel
  <1> QED
    BY <1>2

(* What holds at 0 and from each number to the next holds up to N: for the *)
(* loop of P##_put over the old array.                                     *)
LEMMA UpTo ==
  ASSUME NEW N \in Nat, NEW S, 0 \in S, \A n \in 0 .. N - 1 : n \in S => n + 1 \in S
  PROVE  \A n \in 0 .. N : n \in S
  <1> DEFINE T == {n \in 0 .. N : n \notin S}
  <1>1. SUFFICES ASSUME T # {} PROVE FALSE
    OBVIOUS
  <1>2. T \in SUBSET Nat
    OBVIOUS
  <1>3. PICK n \in T : \A m \in T : n <= m
    BY <1>1, <1>2, LeastNumber
  <1>4. n # 0 /\ n - 1 \in 0 .. N - 1 /\ n - 1 \notin T
    BY <1>3
  <1> QED
    BY <1>3, <1>4

(* A probe stays inside the array. *)
LEMMA ProbeInside ==
  ASSUME NEW cap \in Nat \ {0}, NEW h \in Nat, NEW n \in Nat
  PROVE  Probe(h, n, cap) \in 0 .. cap - 1
  <1>1. h + n \in Nat
    OBVIOUS
  <1> QED
    BY <1>1 DEF Probe

(* The remainder of a division is the only one there is. *)
LEMMA Remainder ==
  ASSUME NEW cap \in Nat \ {0}, NEW q \in Nat, NEW r \in 0 .. cap - 1
  PROVE  (q * cap + r) % cap = r
  <1> DEFINE x == q * cap + r
             p == x \div cap
             z == x % cap
  <1>1. q * cap \in Nat
    OBVIOUS
  <1>2. x \in Nat
    BY <1>1
  <1>3. p \in Nat /\ z \in 0 .. cap - 1 /\ x = p * cap + z
    BY <1>2
  <1> HIDE DEF p, z
  <1>4. CASE p < q
    <2>1. PICK d \in Nat : q = p + 1 + d
      BY <1>3, <1>4
    <2>2. q * cap = p * cap + cap + d * cap /\ d * cap \in Nat /\ p * cap \in Nat
      BY <1>3, <2>1
    <2>3. QED
      BY <1>3, <2>2
  <1>5. CASE q < p
    <2>1. PICK d \in Nat : p = q + 1 + d
      BY <1>3, <1>5
    <2>2. p * cap = q * cap + cap + d * cap /\ d * cap \in Nat
      BY <1>3, <2>1
    <2>3. QED
      BY <1>1, <1>3, <2>2
  <1>6. CASE p = q
    <2>1. z = r
      BY <1>1, <1>3, <1>6
    <2> QED
      BY <2>1 DEF z
  <1> QED
    BY <1>3, <1>4, <1>5, <1>6

(* A probe comes by every slot of the array, whatever the hash. *)
LEMMA ProbeComesBy ==
  ASSUME NEW cap \in Nat \ {0}, NEW h \in Nat, NEW e \in 0 .. cap - 1
  PROVE  \E n \in 0 .. cap - 1 : Probe(h, n, cap) = e
  <1> DEFINE q == h \div cap
             r == h % cap
  <1>1. q \in Nat /\ r \in 0 .. cap - 1 /\ h = q * cap + r
    OBVIOUS
  <1> HIDE DEF q, r
  <1>2. q * cap \in Nat /\ (q + 1) * cap = q * cap + cap
    BY <1>1
  <1>3. CASE r <= e
    <2>1. e - r \in 0 .. cap - 1 /\ h + (e - r) = q * cap + e
      BY <1>1, <1>2, <1>3
    <2> QED
      BY <1>1, <2>1, Remainder DEF Probe
  <1>4. CASE e < r
    <2>1. e - r + cap \in 0 .. cap - 1 /\ h + (e - r + cap) = (q + 1) * cap + e /\ q + 1 \in Nat
      BY <1>1, <1>2, <1>4
    <2> QED
      BY <2>1, Remainder DEF Probe
  <1> QED
    BY <1>1, <1>3, <1>4

(* The loop that ends P##_put stops, at the first empty slot of the probe, *)
(* if the array has one.                                                   *)
LEMMA StoreFinds ==
  ASSUME NEW cap \in Nat \ {0}, hash \in [Keys -> Nat], NEW s \in Arrays(cap),
         NEW slot \in Slot, \E e \in 0 .. cap - 1 : ~Live(s[e])
  PROVE  \E n \in 0 .. cap - 1 :
           /\ Store(s, cap, slot) = [s EXCEPT ![Probe(hash[slot.key], n, cap)] = slot]
           /\ ~Live(s[Probe(hash[slot.key], n, cap)])
           /\ \A m \in 0 .. n - 1 : Live(s[Probe(hash[slot.key], m, cap)])
  <1> DEFINE h == hash[slot.key]
             to(n) == Probe(h, n, cap)
             Free(n) == ~Live(s[to(n)]) /\ \A m \in 0 .. n - 1 : Live(s[to(m)])
             S == {n \in 0 .. cap - 1 : ~Live(s[to(n)])}
  <1>1. h \in Nat
    BY DEF Slot
  <1>2. PICK e \in 0 .. cap - 1 : ~Live(s[e])
    OBVIOUS
  <1>3. PICK d \in 0 .. cap - 1 : to(d) = e
    BY <1>1, ProbeComesBy
  <1>4. d \in S /\ S \in SUBSET Nat
    BY <1>2, <1>3
  <1>5. PICK n \in S : \A m \in S : n <= m
    <2> HIDE DEF S
    <2> QED
      BY <1>4, LeastNumber
  <1>6. n \in 0 .. cap - 1 /\ Free(n)
    <2>1. n \in 0 .. cap - 1 /\ ~Live(s[to(n)])
      OBVIOUS
    <2>2. ASSUME NEW m \in 0 .. n - 1 PROVE Live(s[to(m)])
      <3>1. m \in 0 .. cap - 1 /\ ~(n <= m)
        BY <2>1
      <3>2. m \notin S
        BY <1>5, <3>1
      <3> QED
        BY <3>1, <3>2
    <2> QED
      BY <2>1, <2>2
  <1>7. PICK c : c = CHOOSE n_1 \in 0 .. cap - 1 : Free(n_1)
    OBVIOUS
  <1>8. c \in 0 .. cap - 1 /\ Free(c)
    <2> HIDE DEF Free
    <2> QED
      BY <1>6, <1>7
  <1>9. Store(s, cap, slot) = [s EXCEPT ![to(c)] = slot]
    BY <1>7 DEF Store
  <1> QED
    BY <1>8, <1>9

(* Storing a record under a key that has none fills one empty slot, and    *)
(* the chains stay chains.                                                 *)
LEMMA StoreKeeps ==
  ASSUME NEW cap \in Nat \ {0}, hash \in [Keys -> Nat], NEW s \in Arrays(cap),
         NEW slot \in Slot, Live(slot), \E e \in 0 .. cap - 1 : ~Live(s[e]),
         Chained(s, cap), \A j \in LiveIn(s, cap) : s[j].key # slot.key
  PROVE  /\ Store(s, cap, slot) \in Arrays(cap)
         /\ Chained(Store(s, cap, slot), cap)
         /\ \E i \in (0 .. cap - 1) \ LiveIn(s, cap) :
              /\ LiveIn(Store(s, cap, slot), cap) = LiveIn(s, cap) \union {i}
              /\ Store(s, cap, slot) = [s EXCEPT ![i] = slot]
  <1>1. PICK n \in 0 .. cap - 1 :
           /\ Store(s, cap, slot) = [s EXCEPT ![Probe(hash[slot.key], n, cap)] = slot]
           /\ ~Live(s[Probe(hash[slot.key], n, cap)])
           /\ \A m \in 0 .. n - 1 : Live(s[Probe(hash[slot.key], m, cap)])
    BY StoreFinds
  <1> DEFINE i == Probe(hash[slot.key], n, cap)
             g == Store(s, cap, slot)
  <1>2. i \in 0 .. cap - 1
    BY ProbeInside DEF Slot
  <1>3. i \notin LiveIn(s, cap)
    BY <1>1 DEF LiveIn
  <1>4. g \in Arrays(cap)
    BY <1>1 DEF Arrays
  <1>5. g[i] = slot /\ \A j \in 0 .. cap - 1 : j # i => g[j] = s[j]
    BY <1>1, <1>2 DEF Arrays
  <1>6. LiveIn(g, cap) = LiveIn(s, cap) \union {i}
    BY <1>2, <1>5 DEF LiveIn
  <1>7. ASSUME NEW j \in 0 .. cap - 1, Live(s[j]) PROVE Live(g[j])
    BY <1>1, <1>5, <1>7
  <1>8. \A k \in Keys, m \in Nat : Probe(hash[k], m, cap) \in 0 .. cap - 1
    BY ProbeInside
  <1> DEFINE to(m) == Probe(hash[slot.key], m, cap)
  <1>9. Reaches(g, cap, slot.key, i)
    <2>1. ASSUME NEW m \in 0 .. n PROVE Live(g[to(m)])
      <3>1. to(m) \in 0 .. cap - 1
        BY <1>8 DEF Slot
      <3>2. CASE m = n
        BY <1>5, <3>2
      <3>3. CASE m # n
        <4>1. m \in 0 .. n - 1
          BY <3>3
        <4>2. Live(s[to(m)])
          BY <1>1, <4>1
        <4> QED
          BY <1>7, <3>1, <4>2
      <3> QED
        BY <3>2, <3>3
    <2> QED
      BY <2>1 DEF Reaches
  <1> HIDE DEF i, g
  <1>10. ASSUME NEW j \in LiveIn(s, cap) PROVE Reaches(g, cap, s[j].key, j)
    <2>1. s[j].key \in Keys
      BY DEF Arrays, Slot, LiveIn
    <2>2. PICK p \in 0 .. cap - 1 :
            /\ Probe(hash[s[j].key], p, cap) = j
            /\ \A m \in 0 .. p : Live(s[Probe(hash[s[j].key], m, cap)])
      BY DEF Chained, Reaches
    <2>3. \A m \in 0 .. p : Live(g[Probe(hash[s[j].key], m, cap)])
      BY <1>7, <1>8, <2>1, <2>2
    <2> QED
      BY <2>2, <2>3 DEF Reaches
  <1>11. ASSUME NEW a \in LiveIn(g, cap), NEW b \in LiveIn(g, cap), g[a].key = g[b].key
         PROVE  a = b
    <2>1. \A j \in LiveIn(s, cap) : j \in 0 .. cap - 1 /\ j # i /\ g[j] = s[j]
      BY <1>3, <1>5 DEF LiveIn
    <2>2. CASE a \in LiveIn(s, cap) /\ b \in LiveIn(s, cap)
      BY <1>11, <2>1, <2>2 DEF Chained
    <2>3. CASE a = i /\ b \in LiveIn(s, cap)
      BY <1>5, <1>11, <2>1, <2>3
    <2>4. CASE b = i /\ a \in LiveIn(s, cap)
      BY <1>5, <1>11, <2>1, <2>4
    <2> QED
      BY <1>6, <2>2, <2>3, <2>4
  <1>12. Chained(g, cap)
    <2>1. ASSUME NEW j \in LiveIn(g, cap) PROVE Reaches(g, cap, g[j].key, j)
      <3>1. CASE j = i
        BY <1>5, <1>9, <3>1
      <3>2. CASE j \in LiveIn(s, cap) /\ j # i
        BY <1>5, <1>10, <3>2 DEF LiveIn
      <3> QED
        BY <1>3, <1>6, <3>1, <3>2
    <2> QED
      BY <1>11, <2>1 DEF Chained
  <1> QED
    BY <1>1, <1>2, <1>3, <1>4, <1>6, <1>12 DEF g, i

(* The records of g are those of the first n slots of s. *)
SameEntries(g, cap, s, n) ==
  /\ \A i \in LiveIn(g, cap) : \E j \in LiveIn(s, n) : s[j] = g[i]
  /\ \A j \in LiveIn(s, n) : \E i \in LiveIn(g, cap) : g[i] = s[j]

(* Fewer live slots than slots leave an empty one. *)
LEMMA LiveFinite ==
  ASSUME NEW n \in Nat, NEW s
  PROVE  /\ IsFiniteSet(LiveIn(s, n)) /\ Cardinality(LiveIn(s, n)) \in Nat
         /\ Cardinality(LiveIn(s, n)) <= n
         /\ Cardinality(LiveIn(s, n)) < n => \E e \in 0 .. n - 1 : ~Live(s[e])
  <1>1. IsFiniteSet(0 .. n - 1) /\ Cardinality(0 .. n - 1) = n
    BY FS_Interval
  <1>2. LiveIn(s, n) \in SUBSET (0 .. n - 1)
    BY DEF LiveIn
  <1>3. /\ IsFiniteSet(LiveIn(s, n))
        /\ Cardinality(LiveIn(s, n)) <= Cardinality(0 .. n - 1)
    BY <1>1, <1>2, FS_Subset
  <1>4. Cardinality(LiveIn(s, n)) \in Nat
    BY <1>3, FS_CardinalityType
  <1>5. ASSUME \A e \in 0 .. n - 1 : Live(s[e])
        PROVE  LiveIn(s, n) = 0 .. n - 1
    BY <1>5 DEF LiveIn
  <1> QED
    BY <1>1, <1>3, <1>4, <1>5

(* What one slot more adds to the live ones. *)
LEMMA LiveNext ==
  ASSUME NEW n \in Nat, NEW s
  PROVE  LiveIn(s, n + 1) = IF Live(s[n]) THEN LiveIn(s, n) \union {n} ELSE LiveIn(s, n)
  <1>1. 0 .. n + 1 - 1 = (0 .. n - 1) \union {n}
    OBVIOUS
  <1> QED
    BY <1>1 DEF LiveIn

(* What the grown array is after i slots, from what it is after i - 1. *)
GrowStep(f, s, cap, i) ==
  IF i = 0 THEN Fresh(cap)
  ELSE IF Live(s[i - 1]) THEN Store(f[i - 1], cap, s[i - 1])
  ELSE f[i - 1]

(* f has the grown arrays of s after 0 .. n slots. *)
GrownBy(f, s, cap, n) == f = [i \in 0 .. n |-> GrowStep(f, s, cap, i)]

(* There are such arrays, for any number of slots. *)
LEMMA GrownDefined ==
  ASSUME NEW N \in Nat, NEW s, NEW cap
  PROVE  \E f : GrownBy(f, s, cap, N)
  <1> DEFINE Step(f, i) == GrowStep(f, s, cap, i)
             S == {n \in 0 .. N : \E f : f = [i \in 0 .. n |-> Step(f, i)]}
  <1>1. 0 \in S
    <2> DEFINE f0 == [i \in 0 .. 0 |-> Fresh(cap)]
    <2>1. f0 = [i \in 0 .. 0 |-> Step(f0, i)]
      BY DEF GrowStep
    <2>2. 0 \in 0 .. N
      OBVIOUS
    <2> HIDE DEF f0, Step
    <2> QED
      BY <2>1, <2>2
  <1>2. ASSUME NEW n \in 0 .. N - 1, n \in S PROVE n + 1 \in S
    <2>1. PICK f : f = [i \in 0 .. n |-> Step(f, i)]
      BY <1>2
    <2>2. PICK x : x = Step(f, n + 1)
      OBVIOUS
    <2> DEFINE g == [i \in 0 .. n + 1 |-> IF i <= n THEN f[i] ELSE x]
    <2>3. \A i \in 0 .. n : g[i] = f[i] /\ i \in 0 .. n + 1
      OBVIOUS
    <2>4. g[n + 1] = x
      OBVIOUS
    <2>5. ASSUME NEW i \in 0 .. n + 1 PROVE g[i] = Step(g, i)
      <3>0. f[n + 1 - 1] = g[n + 1 - 1] /\ n + 1 # 0
        BY <2>3
      <3>1. CASE i = n + 1
        <4> HIDE DEF g
        <4> QED
          BY <2>2, <2>4, <3>0, <3>1 DEF GrowStep
      <3>2. CASE i = 0
        BY <2>1, <2>3, <3>2 DEF GrowStep
      <3>3. CASE i \in 1 .. n
        <4>1. f[i] = Step(f, i)
          BY <2>1, <3>3
        <4>2. f[i - 1] = g[i - 1] /\ f[i] = g[i] /\ i # 0
          BY <2>3, <3>3
        <4> HIDE DEF g
        <4> QED
          BY <4>1, <4>2 DEF GrowStep
      <3> QED
        BY <3>1, <3>2, <3>3
    <2>6. g = [i \in 0 .. n + 1 |-> Step(g, i)]
      <3>1. g = [i \in 0 .. n + 1 |-> g[i]]
        OBVIOUS
      <3> HIDE DEF g, Step
      <3> QED
        BY <2>5, <3>1
    <2>7. n + 1 \in 0 .. N
      OBVIOUS
    <2> HIDE DEF g
    <2> QED
      BY <2>6, <2>7
  <1>3. N \in S
    <2> HIDE DEF S
    <2> QED
      BY <1>1, <1>2, UpTo
  <1> QED
    BY <1>3 DEF GrownBy

(* Growing stores every record of the old array in the new one, once, on   *)
(* the chain of its key.                                                   *)
LEMMA RehashKeeps ==
  ASSUME mask \in Nat, hash \in [Keys -> Nat], NEW s \in Arrays(mask + 1),
         Chained(s, mask + 1), NEW cap \in Nat, mask + 1 < cap, ZeroKey \in Keys
  PROVE  /\ Rehashed(s, cap) \in Arrays(cap)
         /\ Chained(Rehashed(s, cap), cap)
         /\ Cardinality(LiveIn(Rehashed(s, cap), cap)) = Cardinality(LiveIn(s, mask + 1))
         /\ SameEntries(Rehashed(s, cap), cap, s, mask + 1)
  <1> DEFINE N == mask + 1
             Step(f, i) == GrowStep(f, s, cap, i)
             Good(g, n) == /\ g \in Arrays(cap) /\ Chained(g, cap)
                           /\ Cardinality(LiveIn(g, cap)) = Cardinality(LiveIn(s, n))
                           /\ SameEntries(g, cap, s, n)
  <1>1. PICK f : f = CHOOSE f_1 : f_1 = [i \in 0 .. N |-> Step(f_1, i)]
    OBVIOUS
  <1>2. f = [i \in 0 .. N |-> Step(f, i)]
    <2>1. N \in Nat
      OBVIOUS
    <2>2. \E f_1 : f_1 = [i \in 0 .. N |-> Step(f_1, i)]
      <3>1. \E f_1 : GrownBy(f_1, s, cap, N)
        BY <2>1, GrownDefined
      <3> QED
        BY <3>1 DEF GrownBy
    <2> QED
      BY <1>1, <2>2, Zenon
  <1>3. Rehashed(s, cap) = f[N]
    BY <1>1 DEF Rehashed, GrowStep
  <1> DEFINE S == {n \in 0 .. N : Good(f[n], n)}
  <1>4. 0 \in S
    <2>1. f[0] = Fresh(cap)
      BY <1>2 DEF GrowStep
    <2>2. Fresh(cap) \in Arrays(cap) /\ LiveIn(Fresh(cap), cap) = {}
      BY DEF Fresh, Arrays, Slot, LiveIn, Live, EmptySlot
    <2>3. LiveIn(s, 0) = {}
      BY DEF LiveIn
    <2>4. Good(Fresh(cap), 0)
      BY <2>2, <2>3 DEF Chained, SameEntries
    <2> QED
      BY <2>1, <2>4
  <1>5. ASSUME NEW n \in 0 .. N - 1, n \in S PROVE n + 1 \in S
    <2>0. n \in Nat /\ n + 1 \in 0 .. N /\ n + 1 # 0 /\ n + 1 - 1 = n
      OBVIOUS
    <2>1. PICK g : g = f[n]
      OBVIOUS
    <2>2. Good(g, n)
      BY <1>5, <2>1
    <2>3. f[n + 1] = IF Live(s[n]) THEN Store(g, cap, s[n]) ELSE g
      <3>1. f[n + 1] = Step(f, n + 1)
        <4> HIDE DEF Step
        <4> QED
          BY <1>2, <2>0
      <3> QED
        BY <2>0, <2>1, <3>1 DEF GrowStep
    <2>4. CASE ~Live(s[n])
      BY <2>0, <2>2, <2>3, <2>4, LiveNext DEF SameEntries
    <2>5. CASE Live(s[n])
      <3>1. LiveIn(s, n + 1) = LiveIn(s, n) \union {n} /\ n \notin LiveIn(s, n)
        BY <2>5, LiveNext DEF LiveIn
      <3>2. /\ IsFiniteSet(LiveIn(s, n)) /\ Cardinality(LiveIn(s, n)) <= n
            /\ Cardinality(LiveIn(s, n)) \in Nat
        BY <2>0, LiveFinite
      <3>3. Cardinality(LiveIn(s, n + 1)) = Cardinality(LiveIn(s, n)) + 1
        BY <3>1, <3>2, FS_AddElement
      <3>4. \E e \in 0 .. cap - 1 : ~Live(g[e])
        BY <2>2, <3>2, LiveFinite
      <3>5. s[n] \in Slot /\ cap \in Nat \ {0} /\ g \in Arrays(cap) /\ Chained(g, cap)
        BY <2>2 DEF Arrays
      <3>6. ASSUME NEW j \in LiveIn(g, cap) PROVE g[j].key # s[n].key
        <4>1. PICK i \in LiveIn(s, n) : s[i] = g[j]
          BY <2>2 DEF SameEntries
        <4>2. i \in LiveIn(s, N) /\ n \in LiveIn(s, N) /\ i # n
          BY <2>5 DEF LiveIn
        <4> QED
          BY <4>1, <4>2 DEF Chained
      <3>7. PICK h : h = Store(g, cap, s[n])
        OBVIOUS
      <3>8. /\ h \in Arrays(cap) /\ Chained(h, cap)
            /\ \E i \in (0 .. cap - 1) \ LiveIn(g, cap) :
                 /\ LiveIn(h, cap) = LiveIn(g, cap) \union {i}
                 /\ h = [g EXCEPT ![i] = s[n]]
        <4>1. /\ Store(g, cap, s[n]) \in Arrays(cap) /\ Chained(Store(g, cap, s[n]), cap)
              /\ \E i \in (0 .. cap - 1) \ LiveIn(g, cap) :
                   /\ LiveIn(Store(g, cap, s[n]), cap) = LiveIn(g, cap) \union {i}
                   /\ Store(g, cap, s[n]) = [g EXCEPT ![i] = s[n]]
          BY <2>5, <3>4, <3>5, <3>6, StoreKeeps
        <4> QED
          BY <3>7, <4>1
      <3>9. PICK i \in (0 .. cap - 1) \ LiveIn(g, cap) :
                 /\ LiveIn(h, cap) = LiveIn(g, cap) \union {i}
                 /\ h = [g EXCEPT ![i] = s[n]]
        BY <3>8
      <3>10. Cardinality(LiveIn(h, cap)) = Cardinality(LiveIn(g, cap)) + 1
        BY <3>9, FS_AddElement, LiveFinite
      <3>11. h[i] = s[n] /\ \A j \in LiveIn(g, cap) : h[j] = g[j]
        BY <2>2, <3>9 DEF Arrays, LiveIn
      <3>12. SameEntries(h, cap, s, n + 1)
        BY <2>2, <3>1, <3>9, <3>11 DEF SameEntries
      <3>13. Good(h, n + 1)
        BY <2>2, <3>3, <3>8, <3>10, <3>12
      <3> QED
        BY <2>0, <2>3, <2>5, <3>7, <3>13
    <2> QED
      BY <2>4, <2>5
  <1>6. N \in S
    <2> HIDE DEF S
    <2> QED
      BY <1>4, <1>5, UpTo
  <1> QED
    BY <1>3, <1>6

-----------------------------------------------------------------------------
(* The inductive invariant *)

(* A pointer to a slot that holds a record, in the array of now. *)
Good(p) == p.array = array /\ p.at \in Each

(* Nobody is inside a launcher whose map is freed. *)
InsideAlive == \A t \in Threads : pc[t] # "idle" => Alive

(* The slots are probe chains, each key's record is there once, and `used` *)
(* counts them and is at most half.                                        *)
Table == Alive => /\ mask + 1 >= 2
                  /\ Chained(slots, mask + 1)
                  /\ used = Cardinality(LiveIn(slots, mask + 1))
                  /\ 2 * used <= mask + 1

(* P##_free shows no slots while it releases them. *)
Detached == dying # {} => ~Alive

(* The lock excludes, the slots are a table, and the memo and the pointers *)
(* that readers launch from are good.                                      *)
IInv == /\ TypeOK /\ InsideAlive /\ WriterAlone /\ MemoGood /\ ReadersPinned
        /\ Table /\ Detached

(* A fresh map is an empty table, and nobody is inside. *)
LEMMA InitIInv == Init => IInv
  <1> SUFFICES ASSUME Init PROVE IInv
    OBVIOUS
  <1>0. Cap \in Nat \ {0, 1} /\ mask + 1 = Cap /\ array = 1 /\ 0 .. mask = 0 .. Cap - 1
    BY CapPowerOfTwo DEF Init
  <1>1. TypeOK
    <2>1. slots \in [0 .. mask -> [key : Keys, val : Kernels \union {NoKernel}]]
      BY <1>0, ZeroKeyIsKey DEF Init, Fresh, EmptySlot
    <2> QED
      BY <1>0, <2>1, ZeroKeyIsKey DEF Init, TypeOK, Pcs, Pointers
  <1>2. \A t \in Threads : pc[t] = "idle"
    BY DEF Init
  <1>3. InsideAlive /\ WriterAlone /\ ReadersPinned
    BY <1>2 DEF InsideAlive, WriterAlone, ReadersPinned, Reading, Writing
  <1>4. MemoGood /\ Detached
    BY DEF Init, MemoGood, Detached
  <1>5. Table
    <2>1. LiveIn(slots, mask + 1) = {}
      BY <1>0 DEF Init, LiveIn, Fresh, Live, EmptySlot
    <2>2. Cardinality(LiveIn(slots, mask + 1)) = 0
      BY <2>1, FS_EmptySet
    <2> QED
      BY <1>0, <2>1, <2>2 DEF Init, Table, Chained
  <1> QED
    BY <1>1, <1>3, <1>4, <1>5 DEF IInv

(* What the map shows is what is live in its array. *)
LEMMA EachIsLive ==
  ASSUME TypeOK, Alive
  PROVE  Each = LiveIn(slots, mask + 1) /\ slots \in Arrays(mask + 1)
  <1>1. 0 .. mask + 1 - 1 = 0 .. mask
    BY DEF TypeOK
  <1> QED
    BY <1>1 DEF TypeOK, Each, LiveIn, Arrays, Slot

(* Hashes are numbers. *)
LEMMA HashNat ==
  ASSUME TypeOK
  PROVE  hash \in [Keys -> Nat]
  BY HashesNat DEF TypeOK

(* What P##_find returns is the slot of a record with that key.            *)
LEMMA FoundGood ==
  ASSUME TypeOK, Alive, NEW k, NEW i \in Found(k)
  PROVE  /\ Good(Pointer(i)) /\ Pointer(i) \in Pointers
         /\ slots[i].key = k
  <1>1. i \in 0 .. mask /\ slots[i].key = k
    BY DEF Found
  <1>2. PICK n \in 0 .. mask :
          /\ Probe(hash[k], n, mask + 1) = i
          /\ \A m \in 0 .. n : Live(slots[Probe(hash[k], m, mask + 1)])
    BY DEF Found
  <1>3. n \in 0 .. n
    BY DEF TypeOK
  <1>4. Live(slots[i])
    BY <1>2, <1>3
  <1>5. i \in Each
    BY <1>1, <1>4 DEF Each
  <1> QED
    BY <1>1, <1>5 DEF Good, Pointer, Pointers, TypeOK

(* P##_find finds every record: its key's chain leads to it, and to no     *)
(* other slot.                                                             *)
LEMMA FindsEach ==
  ASSUME TypeOK, Alive, Chained(slots, mask + 1), NEW i \in Each
  PROVE  Found(slots[i].key) = {i}
  <1>1. i \in LiveIn(slots, mask + 1) /\ i \in 0 .. mask /\ mask \in Nat
    BY EachIsLive DEF Each, TypeOK
  <1>2. Reaches(slots, mask + 1, slots[i].key, i)
    BY <1>1 DEF Chained
  <1>3. mask + 1 - 1 = mask
    BY <1>1
  <1>4. i \in Found(slots[i].key)
    BY <1>1, <1>2, <1>3 DEF Found, Reaches
  <1>5. ASSUME NEW j \in Found(slots[i].key) PROVE j = i
    <2>1. j \in Each /\ slots[j].key = slots[i].key
      BY <1>5, FoundGood DEF Good, Pointer
    <2>2. j \in LiveIn(slots, mask + 1)
      BY <2>1, EachIsLive
    <2> QED
      BY <1>1, <2>1, <2>2 DEF Chained
  <1> QED
    BY <1>4, <1>5

(* A step that leaves the map alone leaves every good pointer good. *)
LEMMA MapUnchanged ==
  ASSUME UNCHANGED map
  PROVE  Each' = Each /\ Alive' = Alive /\ \A p : Good(p)' = Good(p)
  BY DEF map, Each, Alive, Live, Good

(* The slots and what counts them depend on nothing else. *)
LEMMA TableUnchanged ==
  ASSUME Table, UNCHANGED <<hash, array, slots, mask, used>>
  PROVE  Table'
  BY DEF Table, Alive, Chained, Reaches, LiveIn, Live, Probe

(* A step of one thread to a place that is neither inside the read nor the *)
(* write lock, which changes nothing of the map.                           *)
LEMMA StepsOut ==
  ASSUME IInv, NEW t \in Threads, pc[t] # "idle" \/ Alive,
         UNCHANGED <<hash, map, dying>>,
         NEW to \in {"idle", "memo", "find", "compile"},
         pc' = [pc EXCEPT ![t] = to],
         to \in {"memo", "find"} => Reading(t) \/ CanRead,
         want' \in [Threads -> Keys],
         \A u \in Threads \ {t} : want'[u] = want[u] /\ at'[u] = at[u],
         at' \in [Threads -> Pointers]
  PROVE  IInv'
  <1> USE DEF IInv
  <1>1. TypeOK'
    BY DEF TypeOK, Pcs, Pointers, map, Alive
  <1>2. \A u \in Threads \ {t} : pc'[u] = pc[u]
    BY DEF TypeOK
  <1>3. pc'[t] = to
    BY DEF TypeOK
  <1>4. InsideAlive'
    BY <1>2, <1>3, MapUnchanged DEF InsideAlive
  <1>5. WriterAlone'
    <2> SUFFICES ASSUME NEW u \in Threads, NEW w \in Threads, Writing(u)', u # w
                 PROVE  ~Reading(w)' /\ ~Writing(w)'
      BY DEF WriterAlone
    <2>1. u # t /\ Writing(u)
      BY <1>2, <1>3 DEF Writing
    <2>2. CASE w # t
      BY <2>1, <2>2, <1>2 DEF WriterAlone, Reading, Writing
    <2>3. CASE w = t
      BY <2>1, <2>3, <1>3 DEF WriterAlone, Reading, Writing, CanRead
    <2> QED
      BY <2>2, <2>3
  <1>6. MemoGood'
    BY MapUnchanged DEF MemoGood, map
  <1>7. ReadersPinned'
    <2> SUFFICES ASSUME NEW u \in Threads, pc'[u] = "launch"
                 PROVE  /\ at'[u].array = array' /\ at'[u].at \in Each'
                        /\ slots'[at'[u].at].key = want'[u]
      BY DEF ReadersPinned
    <2>1. u # t
      BY <1>3
    <2> QED
      BY <2>1, <1>2, MapUnchanged DEF ReadersPinned, map
  <1>8. Table' /\ Detached'
    BY TableUnchanged DEF map, Detached, Alive
  <1> QED
    BY <1>1, <1>4, <1>5, <1>6, <1>7, <1>8

(* A reader finds its slot, and may make it the memo. *)
LEMMA StepsToLaunch ==
  ASSUME IInv, NEW t \in Threads, Reading(t), NEW p \in Pointers,
         Good(p), slots[p.at].key = want[t],
         UNCHANGED <<hash, array, slots, mask, used, want, dying>>,
         last' = last \/ last' = p,
         pc' = [pc EXCEPT ![t] = "launch"], at' = [at EXCEPT ![t] = p]
  PROVE  IInv'
  <1> USE DEF IInv
  <1>0. Each' = Each /\ Alive' = Alive /\ pc[t] # "idle"
    BY DEF Each, Alive, Live, Reading
  <1>1. TypeOK'
    BY DEF TypeOK, Pcs, Pointers, Alive
  <1>2. \A u \in Threads \ {t} : pc'[u] = pc[u] /\ at'[u] = at[u]
    BY DEF TypeOK
  <1>3. pc'[t] = "launch" /\ at'[t] = p
    BY DEF TypeOK
  <1>4. InsideAlive'
    BY <1>0, <1>2, <1>3 DEF InsideAlive
  <1>5. WriterAlone'
    BY <1>2, <1>3 DEF WriterAlone, Reading, Writing
  <1>6. MemoGood'
    BY <1>0 DEF MemoGood, Good
  <1>7. ReadersPinned'
    <2> SUFFICES ASSUME NEW u \in Threads, pc'[u] = "launch"
                 PROVE  /\ at'[u].array = array' /\ at'[u].at \in Each'
                        /\ slots'[at'[u].at].key = want'[u]
      BY DEF ReadersPinned
    <2>1. CASE u = t
      BY <2>1, <1>0, <1>3 DEF Good
    <2>2. CASE u # t
      BY <2>2, <1>0, <1>2 DEF ReadersPinned
    <2> QED
      BY <2>1, <2>2
  <1>8. Table' /\ Detached'
    BY TableUnchanged DEF Detached, Alive
  <1> QED
    BY <1>1, <1>4, <1>5, <1>6, <1>7, <1>8

(* The writer leaves a map that is a table, whose memo is NULL or good:    *)
(* nobody else is at a slot.                                               *)
LEMMA WriterLeaves ==
  ASSUME IInv, NEW t \in Threads, Writing(t), TypeOK', Alive', Table', MemoGood',
         pc' = [pc EXCEPT ![t] = "idle"], UNCHANGED dying
  PROVE  IInv'
  <1> USE DEF IInv
  <1>2. \A u \in Threads : ~Reading(u)' /\ ~Writing(u)'
    BY DEF WriterAlone, Reading, Writing, TypeOK
  <1>3. InsideAlive'
    BY DEF InsideAlive, Alive
  <1>4. WriterAlone' /\ ReadersPinned'
    BY <1>2 DEF WriterAlone, ReadersPinned, Reading
  <1>5. Detached'
    BY DEF Detached, Alive, InsideAlive, Writing
  <1> QED
    BY <1>3, <1>4, <1>5

(* A new entry under a key that has none, after a growth when it would make *)
(* the map more than half full: the slots that are live then are those of  *)
(* before and the new one.                                                 *)
LEMMA PutStores ==
  ASSUME TypeOK, Alive, Table, NEW t \in Threads, NEW v \in Kernels, Put(t, v)
  PROVE  /\ mask' \in Nat /\ mask <= mask' /\ mask' + 1 >= 2 /\ hash' = hash
         /\ slots' \in Arrays(mask' + 1)
         /\ Chained(slots', mask' + 1)
         /\ used' = Cardinality(LiveIn(slots', mask' + 1)) /\ 2 * used' <= mask' + 1
         /\ used' \in Nat
         /\ \E i \in LiveIn(slots', mask' + 1) :
              /\ slots'[i] = [key |-> want[t], val |-> v]
              /\ \A j \in LiveIn(slots', mask' + 1) \ {i} :
                   \E l \in LiveIn(slots, mask + 1) : slots[l] = slots'[j]
              /\ \A l \in LiveIn(slots, mask + 1) :
                   \E j \in LiveIn(slots', mask' + 1) \ {i} : slots'[j] = slots[l]
  <1> DEFINE cap == NewCap
             s == Grown
             slot == [key |-> want[t], val |-> v]
  <1>1. hash' = hash /\ hash \in [Keys -> Nat]
    BY HashNat DEF Put
  <1>2. /\ mask \in Nat /\ mask + 1 \in Nat /\ mask + 1 >= 2 /\ used \in Nat
        /\ 2 * used <= mask + 1
    BY DEF TypeOK, Table
  <1>3. slots \in Arrays(mask + 1) /\ Chained(slots, mask + 1) /\ Each = LiveIn(slots, mask + 1)
    BY EachIsLive DEF Table
  <1>4. cap \in Nat \ {0} /\ mask + 1 <= cap /\ 2 * (used + 1) <= cap /\ mask' + 1 = cap
    BY <1>2 DEF NewCap, MustGrow, Put
  <1>5. /\ s \in Arrays(cap) /\ Chained(s, cap)
        /\ Cardinality(LiveIn(s, cap)) = used
        /\ SameEntries(s, cap, slots, mask + 1)
    <2>1. CASE MustGrow
      <3>1. mask + 1 < NewCap /\ NewCap \in Nat
        BY <1>2, <2>1 DEF NewCap
      <3> QED
        BY <1>1, <1>2, <1>3, <2>1, <3>1, ZeroKeyIsKey, RehashKeeps DEF Grown, Table
    <2>2. CASE ~MustGrow
      BY <1>3, <2>2 DEF Grown, NewCap, Table, SameEntries
    <2> QED
      BY <2>1, <2>2
  <1>6. slot \in Slot /\ Live(slot) /\ slot.key = want[t] /\ want[t] \in Keys
    BY NoKernelNew DEF TypeOK, Slot, Live
  <1>7. ASSUME NEW j \in LiveIn(s, cap) PROVE s[j].key # slot.key
    <2>1. PICK i \in LiveIn(slots, mask + 1) : slots[i] = s[j]
      BY <1>5 DEF SameEntries
    <2>2. Found(slots[i].key) = {i}
      BY <1>3, <2>1, FindsEach
    <2>3. Found(want[t]) = {}
      BY DEF Put
    <2> QED
      BY <1>6, <2>1, <2>2, <2>3
  <1>8. \E e \in 0 .. cap - 1 : ~Live(s[e])
    BY <1>2, <1>4, <1>5, LiveFinite
  <1>9. slots' = Store(s, cap, slot) /\ used' = used + 1
    BY DEF Put
  <1> HIDE DEF cap, s, slot
  <1>10. /\ slots' \in Arrays(cap) /\ Chained(slots', cap)
         /\ \E i \in (0 .. cap - 1) \ LiveIn(s, cap) :
              /\ LiveIn(slots', cap) = LiveIn(s, cap) \union {i}
              /\ slots' = [s EXCEPT ![i] = slot]
    <2>1. /\ Store(s, cap, slot) \in Arrays(cap) /\ Chained(Store(s, cap, slot), cap)
          /\ \E i \in (0 .. cap - 1) \ LiveIn(s, cap) :
               /\ LiveIn(Store(s, cap, slot), cap) = LiveIn(s, cap) \union {i}
               /\ Store(s, cap, slot) = [s EXCEPT ![i] = slot]
      BY <1>1, <1>4, <1>5, <1>6, <1>7, <1>8, StoreKeeps
    <2> QED
      BY <1>9, <2>1
  <1>11. PICK i \in (0 .. cap - 1) \ LiveIn(s, cap) :
              /\ LiveIn(slots', cap) = LiveIn(s, cap) \union {i}
              /\ slots' = [s EXCEPT ![i] = slot]
    BY <1>10
  <1>12. used' = Cardinality(LiveIn(slots', cap))
    <2>1. IsFiniteSet(LiveIn(s, cap))
      BY <1>4, LiveFinite
    <2>2. Cardinality(LiveIn(slots', cap)) = Cardinality(LiveIn(s, cap)) + 1
      BY <1>11, <2>1, FS_AddElement
    <2> QED
      BY <1>5, <1>9, <2>2
  <1>13. slots'[i] = slot /\ i \in LiveIn(slots', cap)
    BY <1>5, <1>11 DEF Arrays
  <1>14. \A j \in LiveIn(s, cap) : slots'[j] = s[j] /\ j # i
    BY <1>5, <1>11 DEF Arrays, LiveIn
  <1>15. /\ \A j \in LiveIn(slots', cap) \ {i} :
              \E l \in LiveIn(slots, mask + 1) : slots[l] = slots'[j]
         /\ \A l \in LiveIn(slots, mask + 1) :
              \E j \in LiveIn(slots', cap) \ {i} : slots'[j] = slots[l]
    BY <1>5, <1>11, <1>14 DEF SameEntries
  <1>16. mask' \in Nat
    BY <1>2 DEF Put, NewCap
  <1>17. mask <= mask' /\ mask' + 1 >= 2 /\ used' \in Nat /\ 2 * used' <= mask' + 1
    <2>1. PICK n \in Nat, u \in {used'} : n = mask' /\ u = used'
      BY <1>16, Zenon
    <2>2. n + 1 = cap /\ u = used + 1
      BY <1>4, <1>9, <2>1
    <2>3. mask <= n /\ n + 1 >= 2 /\ u \in Nat /\ 2 * u <= n + 1
      BY <1>2, <1>4, <2>2
    <2> QED
      BY <2>1, <2>3, Zenon
  <1>18. \E i_1 \in LiveIn(slots', cap) :
           /\ slots'[i_1] = [key |-> want[t], val |-> v]
           /\ \A j \in LiveIn(slots', cap) \ {i_1} :
                \E l \in LiveIn(slots, mask + 1) : slots[l] = slots'[j]
           /\ \A l \in LiveIn(slots, mask + 1) :
                \E j \in LiveIn(slots', cap) \ {i_1} : slots'[j] = slots[l]
    BY <1>13, <1>15 DEF slot
  <1> QED
    BY <1>1, <1>4, <1>10, <1>12, <1>16, <1>17, <1>18

(* A put keeps the invariant: the table by PutStores, and no reader looks. *)
LEMMA PutKeeps ==
  ASSUME IInv, NEW t \in Threads, NEW v \in Kernels, Put(t, v)
  PROVE  IInv'
  <1> USE DEF IInv
  <1>1. Writing(t) /\ Alive
    BY DEF Put, Writing, InsideAlive
  <1>2. /\ mask' \in Nat /\ mask <= mask' /\ mask' + 1 >= 2 /\ hash' = hash
        /\ slots' \in Arrays(mask' + 1)
        /\ Chained(slots', mask' + 1)
        /\ used' = Cardinality(LiveIn(slots', mask' + 1)) /\ 2 * used' <= mask' + 1
        /\ used' \in Nat
    BY <1>1, PutStores
  <1>3. Alive' /\ array' \in Nat
    BY <1>1 DEF Put, Alive, TypeOK
  <1>4. MemoGood'
    BY DEF Put, MemoGood
  <1>5. Table'
    BY <1>2 DEF Table, Chained, Reaches, Probe, LiveIn, Live
  <1>6. UNCHANGED <<want, at, dying>> /\ pc' = [pc EXCEPT ![t] = "idle"] /\ last' = NoSlot
    BY DEF Put
  <1>7. TypeOK'
    <2>1. 0 .. mask' + 1 - 1 = 0 .. mask' /\ 0 .. mask \subseteq 0 .. mask'
      BY <1>2 DEF TypeOK
    <2>2. slots' \in [0 .. mask' -> [key : Keys, val : Kernels \union {NoKernel}]]
      <3>1. PICK n \in Nat : n = mask' /\ slots' \in Arrays(n + 1)
        BY <1>2
      <3>2. 0 .. n + 1 - 1 = 0 .. n
        OBVIOUS
      <3>3. slots' \in [0 .. n -> [key : Keys, val : Kernels \union {NoKernel}]]
        <4>1. Arrays(n + 1) = [0 .. n -> Slot]
          BY <3>2 DEF Arrays
        <4> QED
          BY <3>1, <4>1 DEF Slot
      <3> QED
        BY <3>1, <3>3
    <2>3. at' \in [Threads -> Pointers'] /\ last' \in Pointers'
      BY <1>6, <2>1 DEF TypeOK, Pointers
    <2>4. dying' \subseteq 0 .. mask'
      BY <1>6, <2>1 DEF TypeOK
    <2> QED
      BY <1>2, <1>3, <1>6, <2>2, <2>3, <2>4 DEF TypeOK, Pcs
  <1> QED
    BY <1>1, <1>3, <1>4, <1>5, <1>6, <1>7, WriterLeaves

(* Every step of a call, a fill or the map's end keeps the invariant. *)
LEMMA StepIInv == IInv /\ [Next]_vars => IInv'
  <1> SUFFICES ASSUME IInv, [Next]_vars PROVE IInv'
    OBVIOUS
  <1> USE DEF IInv
  <1>1. ASSUME NEW t \in Threads, NEW k \in Keys, Call(t, k) PROVE IInv'
    <2>1. UNCHANGED <<hash, map, dying>> /\ CanRead /\ Alive /\ at' = at
      BY <1>1 DEF Call
    <2>2. pc' = [pc EXCEPT ![t] = "memo"] /\ want' = [want EXCEPT ![t] = k]
      BY <1>1 DEF Call
    <2>3. at' \in [Threads -> Pointers] /\ want' \in [Threads -> Keys]
      BY <2>1, <2>2 DEF TypeOK
    <2>4. \A u \in Threads \ {t} : want'[u] = want[u] /\ at'[u] = at[u]
      BY <2>1, <2>2 DEF TypeOK
    <2> QED
      BY <2>1, <2>2, <2>3, <2>4, StepsOut
  <1>2. ASSUME NEW t \in Threads, MemoHit(t) PROVE IInv'
    <2>1. Reading(t) /\ last # NoSlot /\ slots[last.at].key = want[t]
      BY <1>2 DEF MemoHit, Reading
    <2>2. Good(last) /\ last \in Pointers
      BY <2>1 DEF MemoGood, Good, TypeOK
    <2> QED
      BY <1>2, <2>1, <2>2, StepsToLaunch DEF MemoHit, map
  <1>3. ASSUME NEW t \in Threads, MemoMiss(t) PROVE IInv'
    BY <1>3, StepsOut DEF MemoMiss, TypeOK, Reading
  <1>4. ASSUME NEW t \in Threads, Hit(t) PROVE IInv'
    <2>1. Reading(t) /\ Alive
      BY <1>4 DEF Hit, Reading, InsideAlive
    <2>2. PICK i \in Found(want[t]) : /\ last' = Pointer(i)
                                      /\ at' = [at EXCEPT ![t] = Pointer(i)]
      BY <1>4 DEF Hit
    <2>3. Good(Pointer(i)) /\ Pointer(i) \in Pointers /\ slots[i].key = want[t]
      BY <2>1, FoundGood
    <2>4. Pointer(i).at = i
      BY DEF Pointer
    <2>5. /\ UNCHANGED <<hash, array, slots, mask, used, want, dying>>
          /\ pc' = [pc EXCEPT ![t] = "launch"]
      BY <1>4 DEF Hit
    <2> QED
      BY <2>1, <2>2, <2>3, <2>4, <2>5, StepsToLaunch
  <1>5. ASSUME NEW t \in Threads, Miss(t) PROVE IInv'
    BY <1>5, StepsOut DEF Miss, TypeOK
  <1>6. ASSUME NEW t \in Threads, Launched(t) PROVE IInv'
    BY <1>6, StepsOut DEF Launched, TypeOK, Pointers
  <1>7. ASSUME NEW t \in Threads, CompileFails(t) PROVE IInv'
    BY <1>7, StepsOut DEF CompileFails, TypeOK
  <1>8. ASSUME NEW t \in Threads, WriteLock(t) PROVE IInv'
    <2>1. TypeOK' /\ \A u \in Threads \ {t} : pc'[u] = pc[u]
      BY <1>8 DEF WriteLock, TypeOK, Pcs, Pointers, map, Alive
    <2>2. /\ pc'[t] = "write" /\ pc[t] = "compile"
          /\ UNCHANGED <<hash, map, want, at, dying>>
      BY <1>8 DEF WriteLock, TypeOK
    <2>3. InsideAlive'
      BY <2>1, <2>2, MapUnchanged DEF InsideAlive
    <2>4. \A u \in Threads \ {t} : ~Reading(u)' /\ ~Writing(u)'
      BY <1>8, <2>1 DEF WriteLock, CanWrite, Reading, Writing
    <2>5. WriterAlone' /\ ReadersPinned'
      BY <2>2, <2>4 DEF WriterAlone, ReadersPinned, Reading, Writing
    <2>6. MemoGood'
      BY <2>2, MapUnchanged DEF MemoGood, map
    <2>7. Table' /\ Detached'
      BY <2>2, TableUnchanged DEF map, Detached, Alive
    <2> QED
      BY <2>1, <2>3, <2>5, <2>6, <2>7
  <1>9. ASSUME NEW t \in Threads, PutNotNeeded(t) PROVE IInv'
    <2>1. Writing(t) /\ Alive
      BY <1>9 DEF PutNotNeeded, Writing, InsideAlive
    <2>2. PICK i \in Found(want[t]) : last' = Pointer(i)
      BY <1>9 DEF PutNotNeeded
    <2>3. Good(Pointer(i)) /\ Pointer(i) \in Pointers
      BY <2>1, FoundGood
    <2>4. /\ UNCHANGED <<hash, array, slots, mask, used, want, at, dying>>
          /\ pc' = [pc EXCEPT ![t] = "idle"]
      BY <1>9 DEF PutNotNeeded
    <2>5. Each' = Each /\ Alive' /\ Table'
      BY <2>1, <2>4, TableUnchanged DEF Each, Alive, Live
    <2>6. MemoGood'
      BY <2>2, <2>3, <2>4, <2>5 DEF MemoGood, Good
    <2>7. TypeOK'
      BY <2>2, <2>3, <2>4 DEF TypeOK, Pcs, Pointers, Alive
    <2> QED
      BY <2>1, <2>4, <2>5, <2>6, <2>7, WriterLeaves
  <1>10. ASSUME NEW t \in Threads, PutFails(t) PROVE IInv'
    BY <1>10, StepsOut DEF PutFails, TypeOK
  <1>11. ASSUME NEW t \in Threads, NEW v \in Kernels, Put(t, v) PROVE IInv'
    BY <1>11, PutKeeps
  <1>12. ASSUME FreeDetaches PROVE IInv'
    <2>1. ~Alive' /\ TypeOK'
      BY <1>12 DEF FreeDetaches, caller, TypeOK, Pointers, Alive
    <2>2. \A t \in Threads : pc'[t] = "idle"
      BY <1>12 DEF FreeDetaches, caller
    <2>3. InsideAlive' /\ WriterAlone' /\ ReadersPinned'
      BY <2>2 DEF InsideAlive, WriterAlone, ReadersPinned, Reading, Writing
    <2>4. MemoGood' /\ Table' /\ Detached'
      BY <1>12, <2>1 DEF FreeDetaches, MemoGood, Table, Detached
    <2> QED
      BY <2>1, <2>3, <2>4
  <1>13. ASSUME UNCHANGED <<hash, map, caller>>, dying' \subseteq dying PROVE IInv'
    <2>1. UNCHANGED <<hash, array, slots, mask, used, last, pc, want, at>>
      BY <1>13 DEF map, caller
    <2>2. TypeOK' /\ Detached'
      BY <1>13, <2>1 DEF TypeOK, Detached, Alive, Pointers
    <2>3. InsideAlive' /\ WriterAlone' /\ MemoGood' /\ ReadersPinned'
      BY <2>1 DEF InsideAlive, WriterAlone, MemoGood, ReadersPinned, Alive, Each,
                  Live, Reading, Writing
    <2> QED
      BY <2>1, <2>2, <2>3, TableUnchanged
  <1>14. CASE FreeReleases
    BY <1>13, <1>14 DEF FreeReleases
  <1>15. CASE UNCHANGED vars
    BY <1>13, <1>15 DEF vars
  <1> QED
    BY <1>1, <1>2, <1>3, <1>4, <1>5, <1>6, <1>7, <1>8, <1>9, <1>10, <1>11, <1>12,
       <1>14, <1>15 DEF Next

(* The inductive invariant is one. *)
THEOREM MapInvariance == Spec => []IInv
  BY InitIInv, StepIInv, PTL DEF Spec

(* For any number of threads and keys: while a thread reads or launches    *)
(* from the cache, nobody puts.                                            *)
THEOREM MapWriterAlone == Spec => []WriterAlone
  <1>1. IInv => WriterAlone
    BY DEF IInv
  <1> QED
    BY <1>1, MapInvariance, PTL

(* The memo never dangles and never shows an empty slot, whatever puts and *)
(* growths there were and whichever reader stored it last.                 *)
THEOREM MemoNeverDangles == Spec => []MemoGood
  <1>1. IInv => MemoGood
    BY DEF IInv
  <1> QED
    BY <1>1, MapInvariance, PTL

(* A launch reads a record of the key it was called with, where it found   *)
(* it, in the array the map has then.                                      *)
THEOREM LaunchesFromItsSlot == Spec => []ReadersPinned
  <1>1. IInv => ReadersPinned
    BY DEF IInv
  <1> QED
    BY <1>1, MapInvariance, PTL

(* However many puts, growths and failed growths there were, `used` counts *)
(* the records the map holds and at most half of its slots are taken: a    *)
(* probe always comes by an empty slot.                                    *)
THEOREM AtMostHalfFull == Spec => []HalfFull
  <1>1. IInv => HalfFull
    BY EachIsLive DEF IInv, Table, HalfFull
  <1> QED
    BY <1>1, MapInvariance, PTL

(* P##_find finds every record that was put, for any hashes, wherever the  *)
(* chain wraps around and whichever growths moved it, and finds it once.   *)
THEOREM EveryRecordIsFound == Spec => []ProbeChains
  <1>1. IInv => ProbeChains
    BY FindsEach DEF IInv, Table, ProbeChains
  <1> QED
    BY <1>1, MapInvariance, PTL

(* A visitor that comes while P##_free releases the records sees none.     *)
THEOREM FreedIsUnseen == Spec => []FreedUnseen
  <1>1. IInv => FreedUnseen
    BY DEF IInv, Detached, FreedUnseen, Each
  <1> QED
    BY <1>1, MapInvariance, PTL

-----------------------------------------------------------------------------
(* The refinement: each step of the map is a step of the dictionary or     *)
(* leaves it as it is.                                                     *)

(* The dictionary has a key's kernel when a slot has it, and only then.    *)
LEMMA DictReads ==
  IInv => \A k \in Keys :
            /\ \A i \in Each : slots[i].key = k => Dict[k] = slots[i].val
            /\ (\A i \in Each : slots[i].key # k) => Dict[k] = NoKernel
  <1> SUFFICES ASSUME IInv, NEW k \in Keys
               PROVE  /\ \A i \in Each : slots[i].key = k => Dict[k] = slots[i].val
                      /\ (\A i \in Each : slots[i].key # k) => Dict[k] = NoKernel
    OBVIOUS
  <1>1. ASSUME NEW i \in Each, slots[i].key = k PROVE Dict[k] = slots[i].val
    <2>1. ASSUME NEW j \in Each, slots[j].key = k PROVE j = i
      <3>1. Alive
        BY DEF Each
      <3>2. i \in LiveIn(slots, mask + 1) /\ j \in LiveIn(slots, mask + 1)
        BY <3>1, EachIsLive DEF IInv
      <3> QED
        BY <1>1, <2>1, <3>1, <3>2 DEF IInv, Table, Chained
    <2>2. PICK c : c = CHOOSE j \in Each : slots[j].key = k
      OBVIOUS
    <2>3. c \in Each /\ slots[c].key = k
      BY <1>1, <2>2
    <2>4. c = i
      BY <2>1, <2>3
    <2> QED
      BY <1>1, <2>2, <2>4 DEF Dict
  <1>2. ASSUME \A i \in Each : slots[i].key # k PROVE Dict[k] = NoKernel
    BY <1>2 DEF Dict
  <1> QED
    BY <1>1, <1>2

(* A live slot's record is a kernel and its key a key. *)
LEMMA EachTyped ==
  ASSUME TypeOK, NEW i \in Each
  PROVE  slots[i].key \in Keys /\ slots[i].val \in Kernels /\ slots[i].val # NoKernel
  BY DEF TypeOK, Each, Live

(* A fresh map is the empty dictionary, and nobody holds an entry. *)
LEMMA InitRefines == Init => Abstract!Init
  <1> SUFFICES ASSUME Init PROVE Abstract!Init
    OBVIOUS
  <1>1. Each = {}
    BY CapPowerOfTwo DEF Init, Each, Fresh, EmptySlot, Live
  <1>2. Dict = [k \in Keys |-> NoKernel]
    BY <1>1 DEF Dict
  <1>3. Holds = [t \in Threads |-> NoKernel]
    BY DEF Init, Holds
  <1> QED
    BY <1>2, <1>3 DEF Abstract!Init

(* A step that leaves the slots and what is launched from them alone. *)
LEMMA Stutters ==
  ASSUME UNCHANGED <<array, slots, mask>>,
         \A t \in Threads : pc'[t] = "launch" <=> pc[t] = "launch",
         \A t \in Threads : pc[t] = "launch" => at'[t] = at[t]
  PROVE  UNCHANGED <<Dict, Holds>>
  <1>1. Each' = Each
    BY DEF Each, Alive, Live
  <1>2. Dict' = Dict
    BY <1>1 DEF Dict
  <1>3. Holds' = Holds
    BY DEF Holds
  <1> QED
    BY <1>2, <1>3

(* A reader gets hold of its key's entry. *)
LEMMA LookupRefines ==
  ASSUME IInv, NEW t \in Threads, pc[t] # "launch", NEW p, Good(p), slots[p.at].key = want[t],
         UNCHANGED <<array, slots, mask>>,
         pc' = [pc EXCEPT ![t] = "launch"], at' = [at EXCEPT ![t] = p]
  PROVE  Abstract!Lookup(t, want[t])
  <1>1. Each' = Each
    BY DEF Each, Alive, Live
  <1>2. Dict' = Dict
    BY <1>1 DEF Dict
  <1>3. p.at \in Each /\ want[t] \in Keys
    BY DEF Good, IInv, TypeOK
  <1>4. Dict[want[t]] = slots[p.at].val /\ slots[p.at].val # NoKernel
    BY <1>3, DictReads, EachTyped DEF IInv
  <1>5. Holds[t] = NoKernel
    BY DEF Holds
  <1>6. Holds' = [Holds EXCEPT ![t] = slots[p.at].val]
    BY DEF Holds, IInv, TypeOK
  <1> QED
    BY <1>2, <1>4, <1>5, <1>6 DEF Abstract!Lookup

(* The first put of a key adds its entry, and nothing else changes. *)
LEMMA PutRefines ==
  ASSUME IInv, IInv', NEW t \in Threads, NEW v \in Kernels, Put(t, v)
  PROVE  Abstract!Put(want[t], v)
  <1>1. Writing(t) /\ Alive /\ want[t] \in Keys
    BY DEF Put, Writing, InsideAlive, IInv, TypeOK
  <1>2. \A u \in Threads : pc[u] # "launch" /\ pc'[u] # "launch"
    BY <1>1 DEF IInv, WriterAlone, Reading, Writing, Put, TypeOK
  <1>3. /\ Holds = [u \in Threads |-> NoKernel] /\ Holds' = Holds
    BY <1>2 DEF Holds
  <1>4. Each = LiveIn(slots, mask + 1)
    BY <1>1, EachIsLive DEF IInv
  <1>5. ASSUME NEW i \in Each PROVE slots[i].key # want[t]
    BY <1>1, FindsEach DEF Put, IInv, Table
  <1>6. Dict[want[t]] = NoKernel
    BY <1>1, <1>5, DictReads
  <1>7. (IInv => \A k \in Keys :
            /\ \A i \in Each : slots[i].key = k => Dict[k] = slots[i].val
            /\ (\A i \in Each : slots[i].key # k) => Dict[k] = NoKernel)'
    BY DictReads, PTL
  <1>8. Each' = LiveIn(slots', mask' + 1)
    <2>1. Alive' /\ mask' \in Nat
      BY <1>1 DEF Put, Alive, IInv, TypeOK
    <2>2. 0 .. mask' + 1 - 1 = 0 .. mask'
      BY <2>1
    <2> QED
      BY <2>1, <2>2 DEF Each, LiveIn, Live
  <1>9. PICK i \in LiveIn(slots', mask' + 1) :
              /\ slots'[i] = [key |-> want[t], val |-> v]
              /\ \A j \in LiveIn(slots', mask' + 1) \ {i} :
                   \E l \in LiveIn(slots, mask + 1) : slots[l] = slots'[j]
              /\ \A l \in LiveIn(slots, mask + 1) :
                   \E j \in LiveIn(slots', mask' + 1) \ {i} : slots'[j] = slots[l]
    BY <1>1, PutStores DEF IInv
  <1>10. Dict'[want[t]] = v
    BY <1>1, <1>7, <1>8, <1>9
  <1>11. ASSUME NEW k \in Keys, k # want[t] PROVE Dict'[k] = Dict[k]
    <2>1. CASE \E l \in Each : slots[l].key = k
      <3>1. PICK l \in Each : slots[l].key = k
        BY <2>1
      <3>2. PICK j \in Each' : slots'[j] = slots[l]
        BY <1>4, <1>8, <1>9
      <3>3. Dict[k] = slots[l].val
        BY <3>1, DictReads
      <3>4. Dict'[k] = slots'[j].val
        BY <1>7, <3>1, <3>2
      <3> QED
        BY <3>2, <3>3, <3>4
    <2>2. CASE \A l \in Each : slots[l].key # k
      <3>1. Dict[k] = NoKernel
        BY <2>2, DictReads
      <3>2. ASSUME NEW j \in Each' PROVE slots'[j].key # k
        BY <1>4, <1>8, <1>9, <1>11, <2>2
      <3>3. Dict'[k] = NoKernel
        BY <1>7, <3>2
      <3> QED
        BY <3>1, <3>3
    <2> QED
      BY <2>1, <2>2
  <1>12. Dict' = [Dict EXCEPT ![want[t]] = v]
    <2>1. Dict = [k \in Keys |-> Dict[k]] /\ Dict' = [k \in Keys |-> Dict'[k]]
      BY DEF Dict
    <2> HIDE DEF Dict
    <2> QED
      BY <1>1, <1>10, <1>11, <2>1
  <1> QED
    BY <1>3, <1>6, <1>12 DEF Abstract!Put

(* Every step of the map is one of the dictionary, or leaves it alone. *)
LEMMA StepRefines ==
  ASSUME IInv, IInv', [Next]_vars
  PROVE  [Abstract!Next]_<<Dict, Holds>>
  <1>0. TypeOK /\ \A t \in Threads : want[t] \in Keys
    BY DEF IInv, TypeOK
  <1>1. ASSUME NEW t \in Threads, NEW k \in Keys, Call(t, k) PROVE UNCHANGED <<Dict, Holds>>
    BY <1>0, <1>1, Stutters DEF Call, map, TypeOK
  <1>2. ASSUME NEW t \in Threads, MemoHit(t) PROVE Abstract!Next
    <2>1. Good(last)
      BY <1>2 DEF MemoHit, IInv, MemoGood, Good
    <2>2. Abstract!Lookup(t, want[t])
      BY <1>2, <2>1, LookupRefines DEF MemoHit, map
    <2> QED
      BY <1>0, <2>2 DEF Abstract!Next
  <1>3. ASSUME NEW t \in Threads, MemoMiss(t) PROVE UNCHANGED <<Dict, Holds>>
    BY <1>0, <1>3, Stutters DEF MemoMiss, map, TypeOK
  <1>4. ASSUME NEW t \in Threads, Hit(t) PROVE Abstract!Next
    <2>1. Alive
      BY <1>4 DEF Hit, IInv, InsideAlive
    <2>2. PICK i \in Found(want[t]) : at' = [at EXCEPT ![t] = Pointer(i)]
      BY <1>4 DEF Hit
    <2>3. Good(Pointer(i)) /\ Pointer(i).at = i /\ slots[i].key = want[t]
      BY <1>0, <2>1, FoundGood DEF Pointer
    <2>4. Abstract!Lookup(t, want[t])
      BY <1>4, <2>2, <2>3, LookupRefines DEF Hit
    <2> QED
      BY <1>0, <2>4 DEF Abstract!Next
  <1>5. ASSUME NEW t \in Threads, Miss(t) PROVE UNCHANGED <<Dict, Holds>>
    BY <1>0, <1>5, Stutters DEF Miss, map, TypeOK
  <1>6. ASSUME NEW t \in Threads, Launched(t) PROVE Abstract!Next
    <2>1. /\ pc[t] = "launch" /\ pc' = [pc EXCEPT ![t] = "idle"]
          /\ at' = [at EXCEPT ![t] = NoSlot] /\ UNCHANGED <<array, slots, mask>>
      BY <1>6 DEF Launched, map
    <2>2. Each' = Each
      BY <2>1 DEF Each, Alive, Live
    <2>3. Dict' = Dict
      BY <2>1, <2>2 DEF Dict
    <2>4. at[t].at \in Each
      BY <2>1 DEF IInv, ReadersPinned
    <2>5. Holds[t] # NoKernel
      BY <1>0, <2>1, <2>4, EachTyped DEF Holds
    <2>6. Holds' = [Holds EXCEPT ![t] = NoKernel]
      BY <1>0, <2>1 DEF Holds, TypeOK
    <2>7. Abstract!LetGo(t)
      BY <2>3, <2>5, <2>6 DEF Abstract!LetGo
    <2> QED
      BY <2>7 DEF Abstract!Next
  <1>7. ASSUME NEW t \in Threads, CompileFails(t) PROVE UNCHANGED <<Dict, Holds>>
    BY <1>0, <1>7, Stutters DEF CompileFails, map, TypeOK
  <1>8. ASSUME NEW t \in Threads, WriteLock(t) PROVE UNCHANGED <<Dict, Holds>>
    BY <1>0, <1>8, Stutters DEF WriteLock, map, TypeOK
  <1>9. ASSUME NEW t \in Threads, PutNotNeeded(t) PROVE UNCHANGED <<Dict, Holds>>
    BY <1>0, <1>9, Stutters DEF PutNotNeeded, TypeOK
  <1>10. ASSUME NEW t \in Threads, PutFails(t) PROVE UNCHANGED <<Dict, Holds>>
    BY <1>0, <1>10, Stutters DEF PutFails, map, TypeOK
  <1>11. ASSUME NEW t \in Threads, NEW v \in Kernels, Put(t, v) PROVE Abstract!Next
    BY <1>0, <1>11, PutRefines DEF Abstract!Next
  <1>12. ASSUME FreeDetaches PROVE Abstract!Next
    <2>1. /\ array' = 0 /\ pc' = pc
          /\ \A t \in Threads : pc[t] = "idle"
      BY <1>12 DEF FreeDetaches, caller
    <2>2. Each' = {}
      BY <2>1 DEF Each, Alive
    <2>3. Dict' = [k \in Keys |-> NoKernel]
      BY <2>2 DEF Dict
    <2>4. Holds = [t \in Threads |-> NoKernel] /\ Holds' = Holds
      BY <2>1 DEF Holds
    <2>5. Abstract!Free
      BY <2>3, <2>4 DEF Abstract!Free
    <2> QED
      BY <2>5 DEF Abstract!Next
  <1>13. CASE FreeReleases
    BY <1>13, Stutters DEF FreeReleases, map, caller
  <1>14. CASE UNCHANGED vars
    BY <1>14, Stutters DEF vars, map, caller
  <1> QED
    BY <1>1, <1>2, <1>3, <1>4, <1>5, <1>6, <1>7, <1>8, <1>9, <1>10, <1>11, <1>12,
       <1>13, <1>14 DEF Next

(* The map implements the dictionary for any number of threads, keys and   *)
(* puts, any hashes and any number of growths: a hit, by memo or by probe, *)
(* returns what the first put of that key stored.                          *)
THEOREM MapIsDictionary == Spec => IsDictionary
  <1>1. IInv /\ IInv' /\ [Next]_vars => [Abstract!Next]_<<Dict, Holds>>
    BY StepRefines
  <1> QED
    BY <1>1, InitRefines, MapInvariance, PTL DEF Spec, IsDictionary, Abstract!Spec
=============================================================================
