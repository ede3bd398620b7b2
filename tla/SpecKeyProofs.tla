---------------------------- MODULE SpecKeyProofs ----------------------------
(***************************************************************************)
(* Proofs that the placement of key fields keeps them apart, that all      *)
(* readers of a call agree, for launchers of any number of parameters,     *)
(* that a hit launches what its own call would have compiled, that it      *)
(* passes each value in the slot that the kernel reads it from, and that a *)
(* baked value compiles as it would if it were passed.                     *)
(*                                                                         *)
(* Widths are powers of two, and the widest field is placed first: all     *)
(* bytes given away are a multiple of every width still to come.  So each  *)
(* field starts at a multiple of its width, and lies within one word.      *)
(*                                                                         *)
(* A signature is a concatenation, and a reader's index the length of what *)
(* is before its part; within a part, a parameter's rank is the number of  *)
(* those before it.                                                        *)
(*                                                                         *)
(* For a hit: as fields lie apart, two calls with one key agree in each    *)
(* field's content.  A content tells what the compiler makes of its value: *)
(* a descriptor the type and the facts of an argument, a descriptor and a  *)
(* payload the value of a constexpr, for the payload has the bits that the *)
(* type has, or more.  So the two calls compile the same; and a record was *)
(* compiled for a call with its key.                                       *)
(*                                                                         *)
(* For the slots: vals holds, after each parameter packed, the slots of    *)
(* those that push one, in order, on either path; and a parameter pushes   *)
(* one just where its compile leaves an argument in.                       *)
(*                                                                         *)
(* For a baked value: the merge infers its type and decides each fact that *)
(* a call would find out, so the parameter without the value has the same  *)
(* type among its own, and C and Triton read the same facts of it.         *)
(***************************************************************************)
EXTENDS SpecKeyProps, LaunchPlan, FiniteSetTheorems, SequenceTheorems, TLAPS

Widths == {1, 2, 4, 8}

LayoutTypes ==
  /\ launcher \in Launchers
  /\ todo \subseteq Fields(launcher)
  /\ offset \in [Fields(launcher) -> Int]
  /\ end \in Nat /\ deviceAt \in Int

(* What is to come fits at the end, whichever is next.                     *)
EndFits == \A g \in todo : end % g.width = 0

PlacedFits ==
  \A f \in Fields(launcher) \ todo :
    offset[f] >= 0 /\ offset[f] + f.width <= end /\ offset[f] % f.width = 0

PlacedApart ==
  \A f, g \in Fields(launcher) \ todo :
    \/ f = g
    \/ offset[f] + f.width <= offset[g]
    \/ offset[g] + g.width <= offset[f]

DeviceApart ==
  \/ deviceAt = -1
  \/ /\ todo = {} /\ deviceAt + 1 = end
     /\ \A f \in Fields(launcher) : offset[f] + f.width <= deviceAt

LayoutInv == LayoutTypes /\ EndFits /\ PlacedFits /\ PlacedApart /\ DeviceApart

-----------------------------------------------------------------------------
(* Each byte count a type keys its value in is a width, or none. *)
LEMMA KeyBytesRange ==
  ASSUME NEW t, t.bits \in {0, 1, 8, 16, 32, 64}
  PROVE  KeyBytes(t) \in Widths \union {0}
  BY DEF KeyBytes, Widths

(* A nonempty set of such counts has a greatest. *)
LEMMA GreatestWidth ==
  ASSUME NEW S, S \subseteq Widths \union {0}, S # {}
  PROVE  \E n \in S : \A m \in S : m <= n
<1>1. \A m \in S : m \in {0, 1, 2, 4, 8}
  BY DEF Widths
<1>2. CASE 8 \in S
  <2>1. \A m \in S : m <= 8
    BY <1>1
  <2> QED BY <1>2, <2>1
<1>3. CASE 8 \notin S /\ 4 \in S
  <2>1. \A m \in S : m <= 4
    BY <1>1, <1>3
  <2> QED BY <1>3, <2>1
<1>4. CASE 8 \notin S /\ 4 \notin S /\ 2 \in S
  <2>1. \A m \in S : m <= 2
    BY <1>1, <1>4
  <2> QED BY <1>4, <2>1
<1>5. CASE S \subseteq {0, 1}
  <2>1. CASE 1 \in S
    BY <1>5, <2>1
  <2>2. CASE S = {0}
    BY <2>2
  <2> QED BY <1>5, <2>1, <2>2
<1> QED BY <1>1, <1>2, <1>3, <1>4, <1>5

(* The fields of a parameter have the widths 1, 2, 4 and 8. *)
LEMMA ParamWidths ==
  ASSUME NEW l \in Launchers, NEW i \in DOMAIN l.params, NEW f \in CacheKeyFields(l.params[i])
  PROVE  f.width \in Widths
<1> DEFINE a == l.params[i]
<1>2. \A t \in a.types : KeyBytes(t) \in Widths \union {0}
  BY LaunchersTyped, KeyBytesRange
<1>3. PayloadBytes(a) \in Widths \union {0}
  <2> DEFINE bytes == {KeyBytes(t) : t \in a.types}
  <2>1. CASE Inferred(a)
    BY <2>1 DEF PayloadBytes, Widths
  <2>2. CASE ~Inferred(a)
    <3>1. bytes # {} /\ bytes \subseteq Widths \union {0}
      BY <1>2, <2>2 DEF Inferred
    <3>2. \E n \in bytes : \A m \in bytes : m <= n
      BY <3>1, GreatestWidth
    <3>3. PayloadBytes(a) \in bytes
      BY <2>2, <3>2 DEF PayloadBytes
    <3> QED BY <3>1, <3>3
  <2> QED BY <2>1, <2>2
<1>4. \A g \in ExactFields : g.width \in Widths
  BY DEF ExactFields, Widths
<1>5. CASE f \in ExactFields
  BY <1>4, <1>5
<1>6. CASE f \in ConstexprFields(a)
  <2>1. \/ f = [kind |-> "payload", width |-> 1]
        \/ f = [kind |-> "descriptor", width |-> 1]
        \/ PayloadBytes(a) > 0 /\ f = [kind |-> "payload", width |-> PayloadBytes(a)]
    BY <1>6 DEF ConstexprFields
  <2> QED BY <2>1, <1>3 DEF Widths
<1>7. CASE f \in ArgumentFields(a)
  <2>1. f = [kind |-> "descriptor", width |-> 1] \/ f \in ExactFields
    BY <1>7 DEF ArgumentFields
  <2> QED BY <2>1, <1>4 DEF Widths
<1>8. f \in ExactFields \/ f \in ConstexprFields(a) \/ f \in ArgumentFields(a)
  BY DEF CacheKeyFields
<1> QED BY <1>5, <1>6, <1>7, <1>8

(* The fields are one to eight bytes wide. *)
LEMMA FieldWidths ==
  ASSUME NEW l \in Launchers, NEW f \in Fields(l)
  PROVE  f.width \in Widths
<1>1. PICK i \in DOMAIN l.params :
        f \in {[param |-> i, kind |-> g.kind, width |-> g.width] : g \in CacheKeyFields(l.params[i])}
  BY DEF Fields
<1>2. PICK g \in CacheKeyFields(l.params[i]) : f.width = g.width
  BY <1>1
<1> QED BY <1>2, ParamWidths

-----------------------------------------------------------------------------
(* Arithmetic of widths. *)
LEMMA StepKeepsMultiple ==
  ASSUME NEW e \in Nat, NEW w \in Widths, NEW v \in Widths, v <= w, e % w = 0
  PROVE  (e + w) % v = 0
  BY DEF Widths

(* A field that starts at a multiple of its width lies in one word of      *)
(* eight bytes.                                                            *)
LEMMA InOneWord ==
  ASSUME NEW o \in Nat, NEW w \in Widths, o % w = 0
  PROVE  o \div 8 = (o + w - 1) \div 8
  BY DEF Widths

-----------------------------------------------------------------------------
(* No field has a place before the first is placed. *)
LEMMA LayoutInitInv == Init => LayoutInv
<1> SUFFICES ASSUME Init PROVE LayoutInv
  OBVIOUS
<1>1. \A f \in Fields(launcher) : f.width \in Widths
  BY FieldWidths DEF Init, LayoutInit
<1>2. EndFits
  BY <1>1 DEF EndFits, Init, LayoutInit, Widths
<1> QED BY <1>2 DEF LayoutInv, LayoutTypes, PlacedFits, PlacedApart, DeviceApart, Init, LayoutInit

(* A step of the placement loop. *)
LEMMA PlaceInv ==
  ASSUME LayoutInv, NEW f \in todo, Place(f)
  PROVE  LayoutInv'
<1>1. \A g \in Fields(launcher) : g.width \in Widths
  BY FieldWidths DEF LayoutInv, LayoutTypes
<1>2. \A g \in todo : g.width <= f.width
  <2> SUFFICES ASSUME NEW g \in todo \ {f} PROVE g.width <= f.width
    BY <1>1 DEF LayoutInv, LayoutTypes, Widths
  <2>1. f.width \in Int /\ g.width \in Int
    BY <1>1 DEF LayoutInv, LayoutTypes, Widths
  <2>2. Before(f, g)
    BY DEF Place
  <2> QED BY <2>1, <2>2 DEF Before
<1>3. f \in Fields(launcher) /\ f.width \in Widths /\ end % f.width = 0 /\ end \in Nat
  BY <1>1 DEF LayoutInv, LayoutTypes, EndFits
<1>4. /\ launcher' = launcher /\ deviceAt' = deviceAt
      /\ todo' = todo \ {f} /\ end' = end + f.width
      /\ offset' = [offset EXCEPT ![f] = end]
  BY DEF Place
<1>5. LayoutTypes'
  BY <1>3, <1>4 DEF LayoutInv, LayoutTypes, Widths
<1>6. EndFits'
  <2> SUFFICES ASSUME NEW g \in todo' PROVE (end + f.width) % g.width = 0
    BY <1>4 DEF EndFits
  <2>1. g \in todo /\ g.width \in Widths /\ g.width <= f.width
    BY <1>1, <1>2, <1>4 DEF LayoutInv, LayoutTypes
  <2> QED BY <2>1, <1>3, StepKeepsMultiple
<1>7. /\ offset'[f] = end
      /\ \A g \in Fields(launcher) \ {f} : offset'[g] = offset[g]
      /\ \A g \in Fields(launcher) \ todo : g # f
      /\ Fields(launcher) \ todo' = (Fields(launcher) \ todo) \union {f}
  BY <1>3, <1>4 DEF LayoutInv, LayoutTypes
<1>8. \A g \in Fields(launcher) \ todo :
        /\ offset[g] \in Int /\ g.width \in Int
        /\ offset[g] >= 0 /\ offset[g] + g.width <= end /\ offset[g] % g.width = 0
  BY <1>1 DEF LayoutInv, LayoutTypes, PlacedFits, Widths
<1>9. PlacedFits'
  <2> SUFFICES ASSUME NEW g \in (Fields(launcher) \ todo) \union {f}
               PROVE  /\ offset'[g] >= 0 /\ offset'[g] + g.width <= end + f.width
                      /\ offset'[g] % g.width = 0
    BY <1>4, <1>7 DEF PlacedFits
  <2>1. CASE g = f
    BY <2>1, <1>3, <1>7 DEF Widths
  <2>2. CASE g \in Fields(launcher) \ todo
    <3>1. offset'[g] = offset[g]
      BY <2>2, <1>7
    <3> QED BY <3>1, <2>2, <1>3, <1>8 DEF Widths
  <2> QED BY <2>1, <2>2
<1>10. PlacedApart'
  <2> SUFFICES ASSUME NEW g \in (Fields(launcher) \ todo) \union {f},
                      NEW h \in (Fields(launcher) \ todo) \union {f}, g # h
               PROVE  \/ offset'[g] + g.width <= offset'[h]
                      \/ offset'[h] + h.width <= offset'[g]
    BY <1>4, <1>7 DEF PlacedApart
  <2>1. CASE g = f
    BY <2>1, <1>7, <1>8
  <2>2. CASE h = f
    BY <2>2, <1>7, <1>8
  <2>3. CASE g # f /\ h # f
    BY <2>3, <1>7 DEF LayoutInv, PlacedApart
  <2> QED BY <2>1, <2>2, <2>3
<1>11. DeviceApart'
  BY <1>4 DEF LayoutInv, DeviceApart
<1> QED BY <1>5, <1>6, <1>9, <1>10, <1>11 DEF LayoutInv

(* The device byte is placed after all fields (_place_fields). *)
LEMMA PlaceDeviceInv ==
  ASSUME LayoutInv, PlaceDevice
  PROVE  LayoutInv'
<1>1. /\ todo = {} /\ deviceAt' = end /\ end' = end + 1
      /\ UNCHANGED <<launcher, todo, offset>>
  BY DEF PlaceDevice
<1>2. LayoutTypes' /\ EndFits' /\ PlacedApart'
  BY <1>1 DEF LayoutInv, LayoutTypes, EndFits, PlacedApart
<1>3. \A f \in Fields(launcher) : f.width \in Int /\ offset[f] \in Int
  BY FieldWidths DEF LayoutInv, LayoutTypes, Widths
<1>4. PlacedFits' /\ DeviceApart'
  BY <1>1, <1>3 DEF LayoutInv, LayoutTypes, PlacedFits, DeviceApart
<1> QED BY <1>2, <1>4 DEF LayoutInv

(* Calls leave the layout alone. *)
LEMMA CallsKeepLayout ==
  ASSUME Next
  PROVE  PlaceStep \/ UNCHANGED layout
  BY DEF Next, Call, Pack, PackAuto, ReadFails, PackDevice, Hit, Miss, MissFails, Launch

(* The invariant of the layout is kept by every step. *)
LEMMA LayoutNextInv == LayoutInv /\ [Next]_vars => LayoutInv'
<1> SUFFICES ASSUME LayoutInv, [Next]_vars PROVE LayoutInv'
  OBVIOUS
<1>1. CASE PlaceStep
  BY <1>1, PlaceInv, PlaceDeviceInv DEF PlaceStep
<1>2. CASE UNCHANGED layout
  BY <1>2 DEF layout, LayoutInv, LayoutTypes, EndFits, PlacedFits, PlacedApart, DeviceApart
<1>3. Next => PlaceStep \/ UNCHANGED layout
  BY CallsKeepLayout
<1> QED BY <1>1, <1>2, <1>3 DEF vars

(* Fields that are placed overlap nowhere. *)
LEMMA LayoutInvApart == LayoutInv => FieldsApart
<1> SUFFICES ASSUME LayoutInv PROVE FieldsApart
  OBVIOUS
<1>1. \A f \in Fields(launcher) \ todo :
        /\ f.width \in Widths /\ offset[f] \in Nat /\ offset[f] % f.width = 0
        /\ offset[f] + f.width <= end
  BY FieldWidths DEF LayoutInv, LayoutTypes, PlacedFits
<1>2. DOMAIN offset = Fields(launcher) /\ end \in Nat /\ deviceAt \in Int
  BY DEF LayoutInv, LayoutTypes
<1>3. end <= 8 * Words /\ Words \in Nat
  BY <1>2 DEF Words
<1>4. deviceAt < 8 * Words
  BY <1>2, <1>3 DEF LayoutInv, DeviceApart
<1>5. ASSUME NEW f \in Fields(launcher) \ todo
      PROVE  /\ offset[f] \div 8 = (offset[f] + f.width - 1) \div 8
             /\ offset[f] % f.width = 0
             /\ offset[f] + f.width <= 8 * Words
             /\ deviceAt \notin offset[f] .. offset[f] + f.width - 1
  <2>1. offset[f] \div 8 = (offset[f] + f.width - 1) \div 8
    BY <1>1, InOneWord
  <2>2. offset[f] + f.width <= 8 * Words
    BY <1>1, <1>2, <1>3 DEF Widths
  <2>3. deviceAt = -1 \/ offset[f] + f.width <= deviceAt
    BY DEF LayoutInv, DeviceApart
  <2>4. deviceAt \notin offset[f] .. offset[f] + f.width - 1
    BY <2>3, <1>1, <1>2 DEF Widths
  <2> QED BY <1>1, <2>1, <2>2, <2>4
<1>6. PlacedApart
  BY DEF LayoutInv
<1> QED BY <1>2, <1>4, <1>5, <1>6 DEF FieldsApart, PlacedApart

(* The fields of every launcher's key, and its device slot, never overlap, *)
(* and each is written with one shift into one word (_layout_fields).      *)
THEOREM FieldsStayApart == Spec => []FieldsApart
<1>1. Init => LayoutInv
  BY LayoutInitInv
<1>2. LayoutInv /\ [Next]_vars => LayoutInv'
  BY LayoutNextInv
<1>3. LayoutInv => FieldsApart
  BY LayoutInvApart
<1> QED BY <1>1, <1>2, <1>3, PTL DEF Spec
-----------------------------------------------------------------------------
(* Readers of a call *)

(* A tuple of n. *)
Tuple(s, n) == n \in Nat /\ s = [k \in 1 .. n |-> s[k]]

(* A function on 1 .. n is a sequence of its values. *)
LEMMA TupleIsSeq ==
  ASSUME NEW s, NEW n, Tuple(s, n), NEW T, \A k \in 1 .. n : s[k] \in T
  PROVE  s \in Seq(T) /\ Len(s) = n /\ DOMAIN s = 1 .. n
<1> DEFINE f == [k \in 1 .. n |-> s[k]]
<1>1. f \in [1 .. n -> T] /\ n \in Nat
  BY DEF Tuple
<1>2. f = s
  BY DEF Tuple
<1>3. s \in [1 .. n -> T]
  BY <1>1, <1>2, Zenon
<1> QED BY <1>1, <1>3

(* Its length is n. *)
LEMMA TupleLen ==
  ASSUME NEW s, NEW n, Tuple(s, n)
  PROVE  Len(s) = n /\ DOMAIN s = 1 .. n
<1>1. \A k \in 1 .. n : s[k] \in {s[j] : j \in 1 .. n}
  OBVIOUS
<1> QED BY <1>1, TupleIsSeq

(* Parts of a signature follow one another: u is s, of m, and then t.      *)
Follow(u, s, m, t, n) ==
  /\ Tuple(u, m + n)
  /\ \A k \in 1 .. m : u[k] = s[k]
  /\ \A k \in 1 .. n : u[m + k] = t[k]

(* Of two sequences that are joined, the second follows the first. *)
LEMMA Joined ==
  ASSUME NEW s, NEW m, Tuple(s, m), NEW t, NEW n, Tuple(t, n)
  PROVE  Follow(s \o t, s, m, t, n)
<1> DEFINE T == {s[k] : k \in 1 .. m} \union {t[k] : k \in 1 .. n}
<1>1. s \in Seq(T) /\ Len(s) = m
  <2>1. \A k \in 1 .. m : s[k] \in T
    OBVIOUS
  <2> HIDE DEF T
  <2> QED BY <2>1, TupleIsSeq
<1>2. t \in Seq(T) /\ Len(t) = n
  <2>1. \A k \in 1 .. n : t[k] \in T
    OBVIOUS
  <2> HIDE DEF T
  <2> QED BY <2>1, TupleIsSeq
<1>3. m \in Nat /\ n \in Nat
  BY DEF Tuple
<1> HIDE DEF T
<1>4. /\ s \o t \in Seq(T) /\ Len(s \o t) = m + n
      /\ \A i \in 1 .. m + n : (s \o t)[i] = IF i <= m THEN s[i] ELSE t[i - m]
  BY <1>1, <1>2, ConcatProperties
<1>5. s \o t = [i \in 1 .. m + n |-> (s \o t)[i]]
  <2> DEFINE u == s \o t
  <2>1. u \in Seq(T) /\ Len(u) = m + n
    BY <1>4
  <2> HIDE DEF u
  <2>2. u \in [1 .. m + n -> T]
    BY <2>1
  <2>3. u = [i \in 1 .. m + n |-> u[i]]
    BY <2>2
  <2> QED BY <2>3 DEF u
<1>6. \A k \in 1 .. m : (s \o t)[k] = s[k]
  BY <1>3, <1>4
<1>7. ASSUME NEW k \in 1 .. n PROVE (s \o t)[m + k] = t[k]
  <2>1. m + k \in 1 .. m + n /\ ~(m + k <= m) /\ (m + k) - m = k
    BY <1>3
  <2> QED BY <2>1, <1>4
<1> QED BY <1>3, <1>5, <1>6, <1>7 DEF Tuple, Follow

(* The parameters of a set in their order: each stands where the number of *)
(* those before it says.                                                   *)
LEMMA RankSmaller ==
  ASSUME NEW n \in Nat, NEW S \in SUBSET (1 .. n), NEW i \in S, NEW j \in S, i < j
  PROVE  Cardinality({m \in S : m < i}) < Cardinality({m \in S : m < j})
<1> DEFINE I == {m \in S : m < i}
           J == {m \in S : m < j}
<1>1. IsFiniteSet(I) /\ IsFiniteSet(J)
  <2>1. IsFiniteSet(1 .. n)
    BY FS_Interval
  <2> QED BY <2>1, FS_Subset
<1>2. i \notin I
  OBVIOUS
<1>3. IsFiniteSet(I \union {i}) /\ Cardinality(I \union {i}) = Cardinality(I) + 1
  BY <1>1, <1>2, FS_AddElement
<1>4. I \union {i} \subseteq J
  <2>1. i \in Nat /\ j \in Nat /\ \A m \in S : m \in Nat
    OBVIOUS
  <2>2. \A m \in S : m < i => m < j
    BY <2>1
  <2> QED BY <2>2
<1>5. Cardinality(I \union {i}) <= Cardinality(J)
  BY <1>1, <1>4, FS_Subset
<1>6. Cardinality(I) \in Nat /\ Cardinality(J) \in Nat
  BY <1>1, FS_CardinalityType
<1> QED BY <1>3, <1>5, <1>6

(* In increasing order, each number of a set stands after those that are   *)
(* less.                                                                   *)
LEMMA InOrderRank ==
  ASSUME NEW n \in Nat, NEW S \in SUBSET (1 .. n)
  PROVE  /\ Tuple(InOrder(S), Cardinality(S))
         /\ \A i \in S : /\ Cardinality({j \in S : j < i}) \in 0 .. Cardinality(S) - 1
                         /\ InOrder(S)[Cardinality({j \in S : j < i}) + 1] = i
<1>1. IsFiniteSet(S) /\ Cardinality(S) \in Nat
  <2>1. IsFiniteSet(1 .. n)
    BY FS_Interval
  <2> QED BY <2>1, FS_Subset, FS_CardinalityType
<1>2. Tuple(InOrder(S), Cardinality(S))
  BY <1>1 DEF Tuple, InOrder
<1>3. ASSUME NEW i \in S
      PROVE  /\ Cardinality({j \in S : j < i}) \in 0 .. Cardinality(S) - 1
             /\ InOrder(S)[Cardinality({j \in S : j < i}) + 1] = i
  <2> DEFINE r(h) == Cardinality({j \in S : j < h})
             I == {j \in S : j < i}
  <2>1. IsFiniteSet(I) /\ Cardinality(I) \in Nat
    BY <1>1, FS_Subset, FS_CardinalityType
  <2>2. Cardinality(I) < Cardinality(S)
    <3>1. i \notin I
      OBVIOUS
    <3>2. IsFiniteSet(I \union {i}) /\ Cardinality(I \union {i}) = Cardinality(I) + 1
      BY <2>1, <3>1, FS_AddElement
    <3>3. I \union {i} \subseteq S
      OBVIOUS
    <3>4. Cardinality(I \union {i}) <= Cardinality(S)
      BY <1>1, <3>3, FS_Subset
    <3> QED BY <3>2, <3>4, <2>1, <1>1
  <2>3. ASSUME NEW h \in S, r(h) = r(i) PROVE h = i
    <3>1. h \in 1 .. n /\ i \in 1 .. n
      OBVIOUS
    <3>2. CASE h < i
      <4>1. r(h) < r(i)
        BY <3>2, RankSmaller
      <4>2. r(i) \in Nat
        BY <2>1
      <4> QED BY <4>1, <4>2, <2>3
    <3>3. CASE i < h
      <4>1. r(i) < r(h)
        BY <3>3, RankSmaller
      <4>2. r(i) \in Nat
        BY <2>1
      <4> QED BY <4>1, <4>2, <2>3
    <3> QED BY <3>1, <3>2, <3>3
  <2>4. r(i) \in Nat /\ r(i) + 1 \in 1 .. Cardinality(S) /\ (r(i) + 1) - 1 = r(i)
    BY <2>1, <2>2, <1>1
  <2> HIDE DEF r
  <2>5. (CHOOSE h \in S : r(h) = (r(i) + 1) - 1) = i
    BY <2>3, <2>4
  <2>6. InOrder(S)[r(i) + 1] = CHOOSE h \in S : r(h) = (r(i) + 1) - 1
    BY <2>4 DEF InOrder, r
  <2>7. InOrder(S)[r(i) + 1] = i
    BY <2>5, <2>6
  <2> QED BY <2>4, <2>7, <1>1 DEF r
<1> QED BY <1>2, <1>3

(* What the parameters of a launcher are.                                  *)
LEMMA ParamSets ==
  ASSUME NEW l \in Launchers
  PROVE  \E n \in Nat : /\ DOMAIN l.params = 1 .. n
                        /\ Publics(l) \in SUBSET (1 .. n) /\ Dynamics(l) \in SUBSET (1 .. n)
                        /\ Bounds(l) \in SUBSET (1 .. n) /\ Hidden(l) \in SUBSET (1 .. n)
<1>1. l.params \in Seq({l.params[i] : i \in DOMAIN l.params})
  BY CallsTyped
<1>2. Len(l.params) \in Nat /\ DOMAIN l.params = 1 .. Len(l.params)
  BY <1>1
<1> QED BY <1>2 DEF Publics, Dynamics, Bounds, Hidden

(* call_layout and from_key count the parameters before one; so does its   *)
(* place among those of its kind.                                          *)
LEMMA CountedIsRank ==
  ASSUME NEW l \in Launchers, NEW i \in DOMAIN l.params
  PROVE  /\ {j \in 1 .. i - 1 : IsPublic(l, j)} = {j \in Publics(l) : j < i}
         /\ {j \in 1 .. i - 1 : IsBoundParam(l, j)} = {j \in Bounds(l) : j < i}
         /\ {j \in 1 .. i - 1 : ~IsPublic(l, j) /\ ~IsDynamic(l, j)} = {j \in Hidden(l) : j < i}
<1>1. PICK n \in Nat : DOMAIN l.params = 1 .. n
  BY ParamSets
<1>2. i \in Nat /\ \A j : (j \in DOMAIN l.params /\ j < i) <=> j \in 1 .. i - 1
  BY <1>1
<1>3. \A j \in DOMAIN l.params :
        (~IsPublic(l, j) /\ ~IsDynamic(l, j)) <=> (IsBoundParam(l, j) \/ l.params[j].how = "baked")
  BY CallsTyped DEF IsPublic, IsDynamic, IsBoundParam
<1>4. {j \in 1 .. i - 1 : IsPublic(l, j)} = {j \in Publics(l) : j < i}
  BY <1>2 DEF Publics
<1>5. {j \in 1 .. i - 1 : IsBoundParam(l, j)} = {j \in Bounds(l) : j < i}
  BY <1>2 DEF Bounds
<1>6. {j \in 1 .. i - 1 : ~IsPublic(l, j) /\ ~IsDynamic(l, j)} = {j \in Hidden(l) : j < i}
  BY <1>2, <1>3 DEF Hidden
<1> QED BY <1>4, <1>5, <1>6

(* The user's signature: device and stream, the grid's arguments, the      *)
(* dynamic values and then the public parameters, each where C counts it.  *)
LEMMA SignatureIs ==
  ASSUME NEW l \in Launchers
  PROVE  /\ GridCount(l) \in Nat /\ NDYN(l) \in Nat /\ NPARAMS(l) \in Nat
         /\ Tuple(Signature(l), LeadArgs(l) + GridCount(l) + NDYN(l) + NPARAMS(l))
         /\ ~l.fixedDevice => Signature(l)[1] = Role("device", 1)
         /\ Signature(l)[LeadArgs(l)] = Role("stream", 1)
         /\ \A k \in 1 .. GridCount(l) :
              Signature(l)[LeadArgs(l) + k] = Role(IF l.grid.mode = "cpp" THEN "extra" ELSE "grid", k)
         /\ \A k \in 1 .. NDYN(l) :
              Signature(l)[LeadArgs(l) + GridCount(l) + k] = Role("param", Dynamic(l)[k])
         /\ \A k \in 1 .. NPARAMS(l) :
              Signature(l)[LeadArgs(l) + GridCount(l) + NDYN(l) + k] = Role("param", Public(l)[k])
<1> DEFINE dev == IF l.fixedDevice THEN <<>> ELSE Numbered("device", 1)
           d == IF l.fixedDevice THEN 0 ELSE 1
           stream == Numbered("stream", 1)
           what == IF l.grid.mode = "cpp" THEN "extra" ELSE "grid"
           grid == CASE l.grid.mode = "object" -> Numbered("grid", 1)
                     [] l.grid.mode = "dims"   -> Numbered("grid", l.grid.n)
                     [] l.grid.mode = "cpp"    -> Numbered("extra", l.grid.n)
                     [] l.grid.mode = "py"     -> <<>>
           dyn == Params(Dynamic(l))
           pub == Params(Public(l))
<1>1. \A w, n : n \in Nat => Tuple(Numbered(w, n), n) /\ \A k \in 1 .. n : Numbered(w, n)[k] = Role(w, k)
  BY DEF Tuple, Numbered
<1>2. Tuple(<<>>, 0)
  BY DEF Tuple
<1>3. d \in {0, 1} /\ Tuple(dev, d) /\ (~l.fixedDevice => dev[1] = Role("device", 1)) /\ LeadArgs(l) = d + 1
  <2>1. CASE l.fixedDevice
    BY <2>1, <1>2 DEF LeadArgs
  <2>2. CASE ~l.fixedDevice
    BY <2>2, <1>1 DEF LeadArgs
  <2> QED BY <2>1, <2>2
<1>4. Tuple(stream, 1) /\ stream[1] = Role("stream", 1)
  BY <1>1
<1>5. /\ GridCount(l) \in Nat /\ Tuple(grid, GridCount(l))
      /\ \A k \in 1 .. GridCount(l) : grid[k] = Role(what, k)
  <2>1. l.grid.n \in Nat /\ l.grid.mode \in {"object", "dims", "cpp", "py"}
    BY CallsTyped
  <2>2. CASE l.grid.mode = "object"
    BY <2>2, <1>1 DEF GridCount
  <2>3. CASE l.grid.mode = "dims"
    BY <2>1, <2>3, <1>1 DEF GridCount
  <2>4. CASE l.grid.mode = "cpp"
    BY <2>1, <2>4, <1>1 DEF GridCount
  <2>5. CASE l.grid.mode = "py"
    BY <2>5, <1>2 DEF GridCount
  <2> QED BY <2>1, <2>2, <2>3, <2>4, <2>5
<1>6. PICK n \in Nat : Publics(l) \in SUBSET (1 .. n) /\ Dynamics(l) \in SUBSET (1 .. n)
  BY ParamSets
<1>7. /\ NDYN(l) \in Nat /\ Tuple(dyn, NDYN(l))
      /\ \A k \in 1 .. NDYN(l) : dyn[k] = Role("param", Dynamic(l)[k])
  <2>1. Tuple(Dynamic(l), Cardinality(Dynamics(l)))
    BY <1>6, InOrderRank DEF Dynamic
  <2>2. NDYN(l) = Cardinality(Dynamics(l)) /\ DOMAIN Dynamic(l) = 1 .. NDYN(l) /\ NDYN(l) \in Nat
    BY <2>1, TupleLen DEF NDYN, Tuple
  <2> QED BY <2>2 DEF Tuple, Params
<1>8. /\ NPARAMS(l) \in Nat /\ Tuple(pub, NPARAMS(l))
      /\ \A k \in 1 .. NPARAMS(l) : pub[k] = Role("param", Public(l)[k])
  <2>1. Tuple(Public(l), Cardinality(Publics(l)))
    BY <1>6, InOrderRank DEF Public
  <2>2. NPARAMS(l) = Cardinality(Publics(l)) /\ DOMAIN Public(l) = 1 .. NPARAMS(l) /\ NPARAMS(l) \in Nat
    BY <2>1, TupleLen DEF NPARAMS, Tuple
  <2> QED BY <2>2 DEF Tuple, Params
<1>9. Signature(l) = (((dev \o stream) \o grid) \o dyn) \o pub
  BY DEF Signature
<1> HIDE DEF dev, d, stream, what, grid, dyn, pub
<1> DEFINE front == dev \o stream
           lead == d + 1
<1>10. /\ Tuple(front, lead) /\ (~l.fixedDevice => front[1] = Role("device", 1))
       /\ front[lead] = Role("stream", 1)
  <2>1. Follow(front, dev, d, stream, 1)
    <3>1. Tuple(dev, d) /\ Tuple(stream, 1)
      BY <1>3, <1>4
    <3> QED BY <3>1, Joined, Zenon
  <2>2. ~l.fixedDevice => 1 \in 1 .. d
    BY <1>3 DEF d
  <2>3. 1 \in 1 .. 1
    OBVIOUS
  <2> HIDE DEF front
  <2> QED BY <2>1, <2>2, <2>3, <1>3, <1>4 DEF Follow
<1> DEFINE withGrid == front \o grid
           G == GridCount(l)
<1> HIDE DEF front
<1>11. /\ Tuple(withGrid, lead + G)
       /\ \A k \in 1 .. lead : withGrid[k] = front[k]
       /\ \A k \in 1 .. G : withGrid[lead + k] = grid[k]
  <2>1. Tuple(front, lead) /\ Tuple(grid, G)
    BY <1>5, <1>10
  <2>2. Follow(withGrid, front, lead, grid, G)
    <3> HIDE DEF lead, G
    <3> QED BY <2>1, Joined, Zenon
  <2> HIDE DEF lead, G, withGrid
  <2> QED BY <2>2 DEF Follow
<1> DEFINE withDyn == withGrid \o dyn
           D == NDYN(l)
<1> HIDE DEF withGrid
<1>12. /\ Tuple(withDyn, lead + G + D)
       /\ \A k \in 1 .. lead + G : withDyn[k] = withGrid[k]
       /\ \A k \in 1 .. D : withDyn[lead + G + k] = dyn[k]
  <2>1. Tuple(withGrid, lead + G) /\ Tuple(dyn, D)
    BY <1>7, <1>11
  <2>2. Follow(withDyn, withGrid, lead + G, dyn, D)
    <3> HIDE DEF lead, G, D
    <3> QED BY <2>1, Joined, Zenon
  <2> HIDE DEF lead, G, D, withDyn
  <2> QED BY <2>2 DEF Follow
<1> DEFINE all == withDyn \o pub
           P == NPARAMS(l)
<1> HIDE DEF withDyn
<1>13. /\ Tuple(all, lead + G + D + P)
       /\ \A k \in 1 .. lead + G + D : all[k] = withDyn[k]
       /\ \A k \in 1 .. P : all[lead + G + D + k] = pub[k]
  <2>1. Tuple(withDyn, lead + G + D) /\ Tuple(pub, P)
    BY <1>8, <1>12
  <2>2. Follow(all, withDyn, lead + G + D, pub, P)
    <3> HIDE DEF lead, G, D, P
    <3> QED BY <2>1, Joined, Zenon
  <2> HIDE DEF lead, G, D, P, all
  <2> QED BY <2>2 DEF Follow
<1>14. Signature(l) = all /\ LeadArgs(l) = lead
  BY <1>3, <1>9 DEF front, withGrid, withDyn
<1> HIDE DEF all
<1>15. lead \in {1, 2} /\ G \in Nat /\ D \in Nat /\ P \in Nat
  BY <1>3, <1>5, <1>7, <1>8
<1> HIDE DEF lead, G, D, P
<1>16. \A k \in 1 .. lead : all[k] = front[k]
  <2> SUFFICES ASSUME NEW k \in 1 .. lead PROVE all[k] = front[k]
    OBVIOUS
  <2>1. k \in 1 .. lead + G /\ k \in 1 .. lead + G + D
    BY <1>15
  <2> QED BY <2>1, <1>11, <1>12, <1>13
<1>17. \A k \in 1 .. G : all[lead + k] = Role(what, k)
  <2> SUFFICES ASSUME NEW k \in 1 .. G PROVE all[lead + k] = Role(what, k)
    OBVIOUS
  <2>1. lead + k \in 1 .. lead + G /\ lead + k \in 1 .. lead + G + D
    BY <1>15
  <2>2. grid[k] = Role(what, k)
    BY <1>5 DEF G
  <2> QED BY <2>1, <2>2, <1>11, <1>12, <1>13
<1>18. \A k \in 1 .. D : all[lead + G + k] = Role("param", Dynamic(l)[k])
  <2> SUFFICES ASSUME NEW k \in 1 .. D PROVE all[lead + G + k] = Role("param", Dynamic(l)[k])
    OBVIOUS
  <2>1. lead + G + k \in 1 .. lead + G + D
    BY <1>15
  <2>2. dyn[k] = Role("param", Dynamic(l)[k])
    BY <1>7 DEF D
  <2> QED BY <2>1, <2>2, <1>12, <1>13
<1>19. \A k \in 1 .. P : all[lead + G + D + k] = Role("param", Public(l)[k])
  BY <1>8, <1>13 DEF P
<1>20. (~l.fixedDevice => all[1] = Role("device", 1)) /\ all[lead] = Role("stream", 1)
  <2>1. 1 \in 1 .. lead /\ lead \in 1 .. lead
    BY <1>15
  <2> QED BY <2>1, <1>10, <1>16
<1> QED BY <1>13, <1>14, <1>15, <1>17, <1>18, <1>19, <1>20 DEF G, D, P, what

(* A tuple is read at a place within it. *)
LEMMA ReadAt ==
  ASSUME NEW s, NEW n, Tuple(s, n), NEW place \in 0 .. n - 1
  PROVE  At0(s, place) = s[place + 1]
  BY TupleLen DEF At0

(* The part of a tuple from a place on. *)
LEMMA PartAt ==
  ASSUME NEW s, NEW n, Tuple(s, n), NEW from \in Nat, NEW m \in Nat, from + m <= n
  PROVE  /\ Tuple(SubSeq(s, from + 1, from + m), m)
         /\ \A k \in 1 .. m : SubSeq(s, from + 1, from + m)[k] = s[from + k]
<1> DEFINE T == {s[k] : k \in 1 .. n}
<1>1. s \in Seq(T) /\ Len(s) = n /\ n \in Nat
  <2>1. \A k \in 1 .. n : s[k] \in T
    OBVIOUS
  <2> HIDE DEF T
  <2> QED BY <2>1, TupleIsSeq DEF Tuple
<1> DEFINE u == SubSeq(s, from + 1, from + m)
<1> HIDE DEF T
<1>2. \A k \in from + 1 .. from + m : s[k] \in T
  <2>1. \A k \in from + 1 .. from + m : k \in 1 .. n
    BY <1>1
  <2> QED BY <2>1, <1>1
<1>3. u = [k \in 1 .. m |-> s[from + k]]
  BY <1>1
<1> QED BY <1>3 DEF Tuple

(* What C takes and where it reads the controls and dynamic values, and    *)
(* where a miss's Python splits those off.                                 *)
LEMMA ControlsAgree ==
  ASSUME NEW l \in Launchers
  PROVE  /\ TakesExactly(l) = Len(Signature(l))
         /\ StreamRead(l) = Role("stream", 1)
         /\ ~l.fixedDevice => DeviceRead(l) = Role("device", 1)
         /\ \A k \in 1 .. GridCount(l) :
              GridRead(l, k) = Role(IF l.grid.mode = "cpp" THEN "extra" ELSE "grid", k)
         /\ \A k \in 1 .. NDYN(l) : /\ DynamicRead(l, k) = Role("param", Dynamic(l)[k])
                                    /\ SplitOff(l)[k] = DynamicRead(l, k)
<1> DEFINE L == LeadArgs(l)
           G == GridCount(l)
           D == NDYN(l)
           P == NPARAMS(l)
           sig == Signature(l)
<1>1. /\ G \in Nat /\ D \in Nat /\ P \in Nat
      /\ Tuple(sig, L + G + D + P)
      /\ ~l.fixedDevice => sig[1] = Role("device", 1)
      /\ sig[L] = Role("stream", 1)
      /\ \A k \in 1 .. G : sig[L + k] = Role(IF l.grid.mode = "cpp" THEN "extra" ELSE "grid", k)
      /\ \A k \in 1 .. D : sig[L + G + k] = Role("param", Dynamic(l)[k])
  BY SignatureIs
<1>2. L \in {1, 2}
  BY DEF LeadArgs
<1>3. /\ NControls(l) = L + G /\ TakesExactly(l) = NControls(l) + D + P
      /\ StreamRead(l) = At0(sig, L - 1) /\ DeviceRead(l) = At0(sig, 0)
      /\ \A k : GridRead(l, k) = At0(sig, L + k - 1)
      /\ \A k : DynamicRead(l, k) = At0(sig, NControls(l) + k - 1)
  BY DEF NControls, TakesExactly, StreamRead, DeviceRead, GridRead, DynamicRead, Arg
<1>4. Filled(l) = [k \in 1 .. D + P |-> At0(sig, L + G + k - 1)]
  BY DEF Filled, Arg
<1>5. SplitOff(l) = SubSeq(Filled(l), 1, D)
  BY DEF SplitOff
<1> HIDE DEF L, G, D, P, sig
<1>6. \A place \in 0 .. L + G + D + P - 1 : At0(sig, place) = sig[place + 1]
  <2> DEFINE N == L + G + D + P
  <2>1. Tuple(sig, N)
    BY <1>1
  <2> HIDE DEF N
  <2>2. ASSUME NEW place \in 0 .. N - 1 PROVE At0(sig, place) = sig[place + 1]
    BY <2>1, ReadAt
  <2>3. 0 .. N - 1 = 0 .. L + G + D + P - 1
    BY <1>1, <1>2 DEF N
  <2> QED BY <2>2, <2>3
<1>7. TakesExactly(l) = Len(sig)
  <2>1. Len(sig) = L + G + D + P
    BY <1>1, TupleLen
  <2> QED BY <2>1, <1>3
<1>8. StreamRead(l) = Role("stream", 1) /\ (~l.fixedDevice => DeviceRead(l) = Role("device", 1))
  <2>1. L - 1 \in 0 .. L + G + D + P - 1 /\ 0 \in 0 .. L + G + D + P - 1 /\ (L - 1) + 1 = L
    BY <1>1, <1>2
  <2>2. At0(sig, L - 1) = sig[L] /\ At0(sig, 0) = sig[0 + 1]
    BY <2>1, <1>6
  <2> QED BY <2>2, <1>1, <1>3
<1>9. ASSUME NEW k \in 1 .. G
      PROVE  GridRead(l, k) = Role(IF l.grid.mode = "cpp" THEN "extra" ELSE "grid", k)
  <2>1. L + k - 1 \in 0 .. L + G + D + P - 1 /\ (L + k - 1) + 1 = L + k
    BY <1>1, <1>2
  <2>2. At0(sig, L + k - 1) = sig[L + k]
    BY <2>1, <1>6
  <2> QED BY <2>2, <1>1, <1>3
<1>10. ASSUME NEW k \in 1 .. D
       PROVE  DynamicRead(l, k) = Role("param", Dynamic(l)[k]) /\ SplitOff(l)[k] = DynamicRead(l, k)
  <2>1. L + G + k - 1 \in 0 .. L + G + D + P - 1 /\ (L + G + k - 1) + 1 = L + G + k
    BY <1>1, <1>2
  <2>2. At0(sig, L + G + k - 1) = sig[L + G + k]
    BY <2>1, <1>6
  <2>3. DynamicRead(l, k) = At0(sig, L + G + k - 1)
    BY <1>3
  <2>4. Tuple(Filled(l), D + P) /\ \A m \in 1 .. D + P : Filled(l)[m] = At0(sig, L + G + m - 1)
    BY <1>1, <1>4 DEF Tuple
  <2>5. SubSeq(Filled(l), 0 + 1, 0 + D)[k] = Filled(l)[0 + k]
    BY <2>4, <1>1, PartAt
  <2>6. SplitOff(l)[k] = Filled(l)[k]
    BY <2>5, <1>1, <1>5
  <2>7. k \in 1 .. D + P
    BY <1>1
  <2>8. SplitOff(l)[k] = At0(sig, L + G + k - 1)
    BY <2>4, <2>6, <2>7
  <2> QED BY <2>2, <2>3, <2>8, <1>1
<1> QED BY <1>7, <1>8, <1>9, <1>10 DEF G, D, sig

(* Where C's packing, the miss, and a C++ grid read a public parameter.    *)
LEMMA PublicAgrees ==
  ASSUME NEW l \in Launchers, NEW i \in DOMAIN l.params, IsPublic(l, i)
  PROVE  /\ PackRead(l, i) = Role("param", i)
         /\ MissRead(l, i) = Role("param", i)
         /\ l.grid.mode = "cpp" => CppGridRead(l, i) = Role("param", i)
<1> DEFINE L == LeadArgs(l)
           G == GridCount(l)
           D == NDYN(l)
           P == NPARAMS(l)
           c == CallIndex(l, i)
           sig == Signature(l)
<1>1. /\ G \in Nat /\ D \in Nat /\ P \in Nat
      /\ Tuple(sig, L + G + D + P)
      /\ \A k \in 1 .. P : sig[L + G + D + k] = Role("param", Public(l)[k])
  BY SignatureIs
<1>2. L \in {1, 2}
  BY DEF LeadArgs
<1>3. c \in 0 .. P - 1 /\ Public(l)[c + 1] = i
  <2>1. PICK n \in Nat : Publics(l) \in SUBSET (1 .. n)
    BY ParamSets
  <2>2. i \in Publics(l)
    BY DEF Publics
  <2>3. c = Cardinality({j \in Publics(l) : j < i})
    BY CountedIsRank DEF CallIndex
  <2>4. /\ Tuple(Public(l), Cardinality(Publics(l)))
        /\ c \in 0 .. Cardinality(Publics(l)) - 1 /\ Public(l)[c + 1] = i
    BY <2>1, <2>2, <2>3, InOrderRank DEF Public
  <2>5. P = Cardinality(Publics(l))
    BY <2>4, TupleLen DEF NPARAMS
  <2> QED BY <2>4, <2>5
<1>4. PackRead(l, i) = At0(sig, L + G + D + c)
  BY DEF PackRead, Arg, NControls
<1>5. l.grid.mode = "cpp" => CppGridRead(l, i) = At0(sig, L + G + D + c)
  BY DEF CppGridRead, Arg, GridCount
<1>6. MissRead(l, i) = At0(SubSeq(Filled(l), D + 1, D + P), c)
  BY DEF MissRead
<1>7. Filled(l) = [k \in 1 .. D + P |-> At0(sig, L + G + k - 1)]
  BY DEF Filled, Arg
<1> HIDE DEF L, G, D, P, c, sig
<1>8. At0(sig, L + G + D + c) = Role("param", i)
  <2>1. L + G + D + c \in 0 .. L + G + D + P - 1 /\ c + 1 \in 1 .. P
        /\ (L + G + D + c) + 1 = L + G + D + (c + 1)
    BY <1>1, <1>2, <1>3
  <2>2. At0(sig, L + G + D + c) = sig[L + G + D + (c + 1)]
    <3> DEFINE N == L + G + D + P
               at == L + G + D + c
    <3>1. Tuple(sig, N)
      BY <1>1
    <3>4. at \in 0 .. N - 1
      BY <1>1, <1>2, <1>3, <2>1
    <3>2. at + 1 = L + G + D + (c + 1)
      BY <2>1
    <3> HIDE DEF N, at
    <3>3. At0(sig, at) = sig[at + 1]
      BY <3>1, <3>4, ReadAt
    <3> QED BY <3>2, <3>3 DEF at
  <2> QED BY <2>1, <2>2, <1>1, <1>3
<1>9. MissRead(l, i) = Role("param", i)
  <2> DEFINE rest == SubSeq(Filled(l), D + 1, D + P)
  <2>1. Tuple(Filled(l), D + P) /\ \A m \in 1 .. D + P : Filled(l)[m] = At0(sig, L + G + m - 1)
    BY <1>1, <1>7 DEF Tuple
  <2>2. D \in Nat /\ P \in Nat /\ D + P <= D + P
    BY <1>1
  <2>3. Tuple(rest, P) /\ \A k \in 1 .. P : rest[k] = Filled(l)[D + k]
    BY <2>1, <2>2, PartAt
  <2> HIDE DEF rest
  <2>4. c + 1 \in 1 .. P /\ D + (c + 1) \in 1 .. D + P /\ L + G + (D + (c + 1)) - 1 = L + G + D + c
    BY <1>1, <1>2, <1>3
  <2>5. At0(rest, c) = rest[c + 1]
    BY <2>3, <1>3, ReadAt
  <2>6. At0(rest, c) = At0(sig, L + G + D + c)
    BY <2>1, <2>3, <2>4, <2>5
  <2> QED BY <2>6, <1>6, <1>8 DEF rest
<1> QED BY <1>4, <1>5, <1>8, <1>9

(* Where _init reads its device and a bound value, and the Python grid its *)
(* parameters.                                                             *)
LEMMA BoundAgrees ==
  ASSUME NEW l \in Launchers
  PROVE  /\ l.fixedDevice => InitDevice(l) = Role("device", 1)
         /\ \A i \in DOMAIN l.params : IsBoundParam(l, i) => BoundRead(l, i) = Role("param", i)
<1> DEFINE g == IF l.grid.mode = "py" THEN Numbered("grid", 2) ELSE <<>>
           dev == IF l.fixedDevice THEN Numbered("device", 1) ELSE <<>>
           d == IF l.fixedDevice THEN 1 ELSE 0
           o == GridPyOffset(l)
           b == Params(BoundParams(l))
           B == Cardinality(Bounds(l))
           front == g \o dev
           all == front \o b
<1>1. \A w, n : n \in Nat => Tuple(Numbered(w, n), n) /\ \A k \in 1 .. n : Numbered(w, n)[k] = Role(w, k)
  BY DEF Tuple, Numbered
<1>2. Tuple(<<>>, 0)
  BY DEF Tuple
<1>3. o \in {0, 2} /\ Tuple(g, o)
  <2>1. CASE l.grid.mode = "py"
    BY <2>1, <1>1 DEF GridPyOffset
  <2>2. CASE l.grid.mode # "py"
    BY <2>2, <1>2 DEF GridPyOffset
  <2> QED BY <2>1, <2>2
<1>4. d \in {0, 1} /\ Tuple(dev, d) /\ (l.fixedDevice => d = 1 /\ dev[1] = Role("device", 1))
  <2>1. CASE l.fixedDevice
    BY <2>1, <1>1
  <2>2. CASE ~l.fixedDevice
    BY <2>2, <1>2
  <2> QED BY <2>1, <2>2
<1>5. PICK n \in Nat : DOMAIN l.params = 1 .. n /\ Bounds(l) \in SUBSET (1 .. n)
  BY ParamSets
<1>6. /\ Tuple(BoundParams(l), B)
      /\ \A i \in Bounds(l) : /\ Cardinality({j \in Bounds(l) : j < i}) \in 0 .. B - 1
                              /\ BoundParams(l)[Cardinality({j \in Bounds(l) : j < i}) + 1] = i
  BY <1>5, InOrderRank DEF BoundParams
<1>7. /\ Tuple(b, B) /\ \A k \in 1 .. B : b[k] = Role("param", BoundParams(l)[k])
  <2>1. DOMAIN BoundParams(l) = 1 .. B /\ B \in Nat
    BY <1>6, TupleLen DEF Tuple
  <2> QED BY <2>1 DEF Tuple, Params
<1>8. InitArgs(l) = all /\ InitExtra(l) = d + o /\ InitDevice(l) = At0(all, o)
  BY DEF InitArgs, InitExtra, InitDevice
<1> HIDE DEF g, dev, d, o, b, B
<1>9. Follow(front, g, o, dev, d)
  BY <1>3, <1>4, Joined, Zenon
<1> HIDE DEF front
<1>10. Follow(all, front, o + d, b, B)
  <2>1. Tuple(front, o + d)
    BY <1>9 DEF Follow
  <2> QED BY <2>1, <1>7, Joined, Zenon
<1> HIDE DEF all
<1>11. /\ Tuple(all, o + d + B) /\ B \in Nat
       /\ \A k \in 1 .. d : all[o + k] = dev[k]
       /\ \A k \in 1 .. B : all[o + d + k] = b[k]
  <2>1. \A k \in 1 .. d : o + k \in 1 .. o + d
    BY <1>3, <1>4
  <2>2. B \in Nat
    BY <1>7 DEF Tuple
  <2> QED BY <2>1, <2>2, <1>9, <1>10 DEF Follow
<1>12. ASSUME l.fixedDevice PROVE InitDevice(l) = Role("device", 1)
  <2>1. o \in 0 .. o + d + B - 1 /\ 1 \in 1 .. d
    BY <1>3, <1>4, <1>11, <1>12
  <2>2. At0(all, o) = all[o + 1]
    <3> DEFINE N == o + d + B
    <3>1. Tuple(all, N)
      BY <1>11
    <3>2. o \in 0 .. N - 1
      BY <2>1, <1>3, <1>4, <1>11
    <3> HIDE DEF N
    <3> QED BY <3>1, <3>2, ReadAt
  <2>3. all[o + 1] = dev[1]
    BY <2>1, <1>11
  <2> QED BY <2>2, <2>3, <1>4, <1>8, <1>12
<1>13. ASSUME NEW i \in DOMAIN l.params, IsBoundParam(l, i)
       PROVE  BoundRead(l, i) = Role("param", i)
  <2> DEFINE c == BoundSlot(l, i)
  <2>1. i \in Bounds(l)
    BY <1>13 DEF Bounds
  <2>2. c \in 0 .. B - 1 /\ BoundParams(l)[c + 1] = i
    BY <2>1, <1>6, CountedIsRank DEF BoundSlot
  <2>3. BoundRead(l, i) = At0(all, c + (d + o))
    BY <1>8 DEF BoundRead
  <2> HIDE DEF c
  <2>4. c + (d + o) \in 0 .. o + d + B - 1 /\ (c + (d + o)) + 1 = o + d + (c + 1) /\ c + 1 \in 1 .. B
    BY <2>2, <1>3, <1>4, <1>11
  <2>5. At0(all, c + (d + o)) = all[(c + (d + o)) + 1]
    <3> DEFINE N == o + d + B
               at == c + (d + o)
    <3>1. Tuple(all, N)
      BY <1>11
    <3>3. at \in 0 .. N - 1
      BY <2>4, <2>2, <1>3, <1>4, <1>11
    <3> HIDE DEF N, at
    <3>2. At0(all, at) = all[at + 1]
      BY <3>1, <3>3, ReadAt
    <3> QED BY <3>2 DEF at
  <2>6. all[o + d + (c + 1)] = b[c + 1]
    BY <2>4, <1>11
  <2> QED BY <2>2, <2>3, <2>4, <2>5, <2>6, <1>7
<1> QED BY <1>12, <1>13

(* A Python grid gets every parameter: those that no call passes from the  *)
(* tuple made with the launcher.                                           *)
LEMMA MetaAgrees ==
  ASSUME NEW l \in Launchers, NEW i \in DOMAIN l.params, ~IsDynamic(l, i)
  PROVE  MetaRead(l, i) = Role("param", i)
<1>1. CASE IsPublic(l, i)
  BY <1>1, PublicAgrees DEF MetaRead
<1>2. CASE ~IsPublic(l, i)
  <2> DEFINE H == Cardinality(Hidden(l))
             c == HiddenSlot(l, i)
             t == HiddenTuple(l)
             q == InOrder(Hidden(l))
  <2>1. PICK n \in Nat : Hidden(l) \in SUBSET (1 .. n)
    BY ParamSets
  <2>2. i \in Hidden(l)
    BY <1>2, CallsTyped DEF Hidden, IsPublic, IsDynamic, IsBoundParam
  <2>3. c = Cardinality({j \in Hidden(l) : j < i})
    BY CountedIsRank DEF HiddenSlot
  <2>4. Tuple(q, H) /\ c \in 0 .. H - 1 /\ q[c + 1] = i
    BY <2>1, <2>2, <2>3, InOrderRank
  <2>5. Tuple(t, H) /\ \A k \in 1 .. H : t[k] = Role("param", q[k])
    <3>1. DOMAIN q = 1 .. H /\ H \in Nat
      BY <2>4, TupleLen DEF Tuple
    <3> QED BY <3>1 DEF Tuple, Params, HiddenTuple
  <2>6. MetaRead(l, i) = At0(t, c)
    BY <1>2 DEF MetaRead
  <2> HIDE DEF H, c, t, q
  <2>7. At0(t, c) = t[c + 1]
    BY <2>4, <2>5, ReadAt, Zenon
  <2>8. c + 1 \in 1 .. H
    BY <2>4, <2>5 DEF Tuple
  <2> QED BY <2>4, <2>5, <2>6, <2>7, <2>8
<1> QED BY <1>1, <1>2

(* For launchers of any number of parameters, public, baked, bound or      *)
(* dynamic in any order, and any grid: every one of the readers of a call, *)
(* in C and in Python, finds at its index what the signature that users    *)
(* see has there.                                                          *)
THEOREM EveryReaderAgrees == Spec => []ReadersAgree
<1>1. LayoutInv => ReadersAgree
  <2> SUFFICES ASSUME launcher \in Launchers PROVE ReadersAgree
    BY DEF LayoutInv, LayoutTypes
  <2> DEFINE l == launcher
  <2>1. /\ TakesExactly(l) = Len(Signature(l))
        /\ StreamRead(l) = Role("stream", 1)
        /\ ~l.fixedDevice => DeviceRead(l) = Role("device", 1)
        /\ \A k \in 1 .. GridCount(l) :
             GridRead(l, k) = Role(IF l.grid.mode = "cpp" THEN "extra" ELSE "grid", k)
        /\ \A k \in 1 .. NDYN(l) : /\ DynamicRead(l, k) = Role("param", Dynamic(l)[k])
                                   /\ SplitOff(l)[k] = DynamicRead(l, k)
    BY ControlsAgree
  <2>2. \A i \in DOMAIN l.params :
          IsPublic(l, i) => /\ PackRead(l, i) = Role("param", i)
                            /\ MissRead(l, i) = Role("param", i)
                            /\ l.grid.mode = "cpp" => CppGridRead(l, i) = Role("param", i)
    BY PublicAgrees
  <2>3. /\ l.fixedDevice => InitDevice(l) = Role("device", 1)
        /\ \A i \in DOMAIN l.params : IsBoundParam(l, i) => BoundRead(l, i) = Role("param", i)
    BY BoundAgrees
  <2>4. \A i \in DOMAIN l.params : ~IsDynamic(l, i) => MetaRead(l, i) = Role("param", i)
    BY MetaAgrees
  <2> QED BY <2>1, <2>2, <2>3, <2>4 DEF ReadersAgree
<1> QED BY <1>1, LayoutInitInv, LayoutNextInv, PTL DEF Spec

-----------------------------------------------------------------------------
(* Remainders *)

(* A multiple grows with its factor. *)
LEMMA MultipleGrows ==
  ASSUME NEW a \in Int, NEW b \in Int, a <= b, NEW y \in Nat
  PROVE  y * a <= y * b
<1>1. (b - a) \in Nat
  OBVIOUS
<1>2. \A m, n \in Nat : m * n \in Nat
  OBVIOUS
<1>3. y * (b - a) \in Nat
  BY <1>1, <1>2
<1>4. y * (b - a) = y * b - y * a
  OBVIOUS
<1> QED BY <1>3, <1>4

(* There is one remainder. *)
LEMMA OneRemainder ==
  ASSUME NEW n \in Int, NEW d \in Nat, d > 0, NEW q \in Int, NEW r \in 0 .. d - 1, n = d * q + r
  PROVE  n % d = r
<1> DEFINE p == n \div d
           s == n % d
<1>1. p \in Int /\ s \in 0 .. d - 1 /\ n = d * p + s
  OBVIOUS
<1> HIDE DEF p, s
<1>2. CASE p < q
  <2>1. d * (p + 1) <= d * q
    BY <1>1, <1>2, MultipleGrows
  <2>2. d * (p + 1) = d * p + d
    BY <1>1
  <2> QED BY <1>1, <2>1, <2>2
<1>3. CASE q < p
  <2>1. d * (q + 1) <= d * p
    BY <1>1, <1>3, MultipleGrows
  <2>2. d * (q + 1) = d * q + d
    OBVIOUS
  <2> QED BY <1>1, <2>1, <2>2
<1>4. CASE p = q
  <2> DEFINE m == d * q
  <2>1. m \in Int /\ n = m + s /\ n = m + r
    BY <1>1, <1>4
  <2> HIDE DEF m
  <2> QED BY <1>1, <2>1
<1>5. s = r
  BY <1>1, <1>2, <1>3, <1>4
<1> QED BY <1>5 DEF s

(* A number is a multiple and its remainder. *)
LEMMA RemainderIs ==
  ASSUME NEW n \in Int, NEW d \in Nat, d > 0
  PROVE  \E q \in Int, r \in 0 .. d - 1 : r = n % d /\ n = d * q + r
<1> DEFINE p == n \div d
           s == n % d
<1>1. p \in Int /\ s \in 0 .. d - 1 /\ n = p * d + s /\ s = n % d
  OBVIOUS
<1> HIDE DEF p, s
<1>2. p * d = d * p
  BY <1>1
<1> QED BY <1>1, <1>2

(* A remainder of a remainder, written out. *)
LEMMA RemainderComposes ==
  ASSUME NEW n \in Int, NEW w \in Int, NEW q \in Int, NEW u \in Int, NEW d \in Int,
         NEW p \in Int, NEW k \in Int, NEW r \in Int,
         n = w * q + u, w = d * p, u = d * k + r
  PROVE  n = d * (p * q + k) + r
<1>1. w * q = d * (p * q)
  OBVIOUS
<1>2. p * q \in Int
  OBVIOUS
<1>3. d * (p * q + k) = d * (p * q) + d * k
  BY <1>2
<1> QED BY <1>1, <1>2, <1>3

(* A divisor of the modulus sees the same remainder. *)
LEMMA RemainderOfRemainder ==
  ASSUME NEW n \in Int, NEW w \in Nat, w > 0, NEW d \in Nat, d > 0, w % d = 0
  PROVE  (n % w) % d = n % d
<1>1. PICK q \in Int, u \in 0 .. w - 1 : u = n % w /\ n = w * q + u
  BY RemainderIs
<1>2. PICK p \in Int : w = d * p
  <2>1. PICK p \in Int, z \in 0 .. d - 1 : z = w % d /\ w = d * p + z
    BY RemainderIs
  <2>2. w = d * p + 0
    BY <2>1, Zenon
  <2> QED BY <2>2
<1>3. PICK k \in Int, r \in 0 .. d - 1 : r = u % d /\ u = d * k + r
  <2>1. u \in Int
    BY <1>1
  <2> QED BY <2>1, RemainderIs
<1>4. n = d * (p * q + k) + r
  BY <1>1, <1>2, <1>3, RemainderComposes
<1>5. p * q + k \in Int
  OBVIOUS
<1>6. n % d = r
  BY <1>4, <1>5, OneRemainder
<1> QED BY <1>1, <1>3, <1>6

(* Multiples of multiples are multiples. *)
LEMMA DividesThrough ==
  ASSUME NEW a \in Nat, NEW b \in Nat, b > 0, NEW c \in Nat, c > 0, a % b = 0, b % c = 0
  PROVE  a % c = 0
<1>1. (a % b) % c = a % c
  BY RemainderOfRemainder
<1> QED BY <1>1

(* A number within a modulus, and one that is negative. *)
LEMMA SmallRemainder ==
  ASSUME NEW w \in Nat, w > 0, NEW n \in -w .. w - 1
  PROVE  n % w = IF n < 0 THEN n + w ELSE n
<1>1. CASE n >= 0
  <2>1. n = w * 0 + n /\ n \in 0 .. w - 1
    BY <1>1
  <2> QED BY <1>1, <2>1, OneRemainder
<1>2. CASE n < 0
  <2>1. n = w * (-1) + (n + w) /\ n + w \in 0 .. w - 1
    BY <1>2
  <2> QED BY <1>2, <2>1, OneRemainder
<1> QED BY <1>1, <1>2

(* Of the numbers of a window of a modulus, each has its own remainder.    *)
LEMMA WindowDistinct ==
  ASSUME NEW w \in Nat, w > 0, NEW low \in Int, NEW m \in low .. low + w - 1,
         NEW n \in low .. low + w - 1, m % w = n % w
  PROVE  m = n
<1>1. PICK p \in Int, r \in 0 .. w - 1 : r = m % w /\ m = w * p + r
  BY RemainderIs
<1>2. PICK q \in Int, s \in 0 .. w - 1 : s = n % w /\ n = w * q + s
  BY RemainderIs
<1>3. r = s
  BY <1>1, <1>2
<1>4. CASE p < q
  <2>1. w * (p + 1) <= w * q
    BY <1>4, MultipleGrows
  <2>2. w * (p + 1) = w * p + w
    OBVIOUS
  <2> QED BY <1>1, <1>2, <1>3, <2>1, <2>2
<1>5. CASE q < p
  <2>1. w * (q + 1) <= w * p
    BY <1>5, MultipleGrows
  <2>2. w * (q + 1) = w * q + w
    OBVIOUS
  <2> QED BY <1>1, <1>2, <1>3, <2>1, <2>2
<1>6. CASE p = q
  BY <1>1, <1>2, <1>3, <1>6
<1> QED BY <1>4, <1>5, <1>6

-----------------------------------------------------------------------------
(* Values and what they decode to *)

(* The sizes of integers. *)
LEMMA SizeFacts ==
  /\ \A bits \in {8, 16, 32, 64} :
       /\ Size(bits) \in Nat /\ Size(bits) >= 4 /\ Size(bits) % 2 = 0 /\ Two64 % Size(bits) = 0
       /\ \A more \in {8, 16, 32, 64} : bits <= more => Size(more) % Size(bits) = 0
  /\ Two64 = Size(64)
<1>1. \A bits \in {8, 16, 32, 64} : Size(bits) \in Nat /\ Size(bits) >= 4 /\ Size(bits) % 2 = 0
  BY SizesAssumption
<1>2. Size(16) % Size(8) = 0 /\ Size(32) % Size(16) = 0 /\ Size(64) % Size(32) = 0
  BY SizesAssumption
<1> DEFINE S8 == Size(8)
           S16 == Size(16)
           S32 == Size(32)
           S64 == Size(64)
<1>3. Size(32) % Size(8) = 0 /\ Size(64) % Size(16) = 0 /\ Size(64) % Size(8) = 0
  <2>1. /\ S8 \in Nat /\ S16 \in Nat /\ S32 \in Nat /\ S64 \in Nat
        /\ S8 > 0 /\ S16 > 0 /\ S32 > 0
        /\ S16 % S8 = 0 /\ S32 % S16 = 0 /\ S64 % S32 = 0
    BY <1>1, <1>2
  <2> HIDE DEF S8, S16, S32, S64
  <2>2. S32 % S8 = 0
    BY <2>1, DividesThrough
  <2>3. S64 % S16 = 0
    BY <2>1, DividesThrough
  <2>4. S64 % S8 = 0
    BY <2>1, <2>2, DividesThrough
  <2> QED BY <2>2, <2>3, <2>4 DEF S8, S16, S32, S64
<1> HIDE DEF S8, S16, S32, S64
<1>5. \A bits \in {8, 16, 32, 64} : Size(bits) % Size(bits) = 0
  BY <1>1
<1>6. Two64 = Size(64)
  BY DEF Two64
<1>7. ASSUME NEW bits \in {8, 16, 32, 64}, NEW more \in {8, 16, 32, 64}, bits <= more
      PROVE  Size(more) % Size(bits) = 0
  <2>1. \/ bits = more
        \/ bits = 8 /\ more \in {16, 32, 64}
        \/ bits = 16 /\ more \in {32, 64}
        \/ bits = 32 /\ more = 64
    BY <1>7
  <2> QED BY <2>1, <1>2, <1>3, <1>5
<1> QED BY <1>1, <1>6, <1>7

Half == Two64 \div 2

(* The bound between the signed integers and the ones that only fit        *)
(* unsigned.                                                               *)
LEMMA HalfFacts ==
  /\ Half \in Nat /\ Half >= 2 /\ Two64 = 2 * Half /\ Two64 \in Nat /\ Half = Two64 \div 2
  /\ \A bits : AsSigned(bits) = IF bits < Half THEN bits ELSE bits - Two64
<1>1. Two64 \in Nat /\ Two64 >= 4 /\ Two64 % 2 = 0
  BY SizeFacts
<1> QED BY <1>1 DEF Half, AsSigned

(* The bits of an integer that fits have 64 bits, and it is read back from *)
(* them, signed; the unsigned ones are their own bits.                     *)
LEMMA DecodedInt ==
  ASSUME NEW n \in Int, DecodeInt(n).kind # "refused"
  PROVE  LET d == DecodeInt(n) IN
         /\ d.bits \in 0 .. Two64 - 1 /\ d.bits = n % Two64
         /\ d.dtype = 0 /\ d.within = TRUE
         /\ \/ d.kind = "i64" /\ n \in -Half .. Half - 1 /\ AsSigned(d.bits) = n
            \/ d.kind = "u64" /\ n \in Half .. Two64 - 1 /\ d.bits = n
<1>1. CASE n \in -Half .. Half - 1
  <2>1. DecodeInt(n) = Decoded("i64", n % Two64)
    BY <1>1, HalfFacts DEF DecodeInt
  <2>2. n % Two64 = IF n < 0 THEN n + Two64 ELSE n
    <3>1. n \in -Two64 .. Two64 - 1 /\ Two64 > 0
      BY <1>1, HalfFacts
    <3> QED BY <3>1, HalfFacts, SmallRemainder
  <2> DEFINE b == n % Two64
  <2>3. b \in 0 .. Two64 - 1 /\ AsSigned(b) = n
    BY <2>2, <1>1, HalfFacts
  <2> HIDE DEF b
  <2>4. DecodeInt(n) = Decoded("i64", b) /\ b = n % Two64
    BY <2>1 DEF b
  <2> QED BY <2>3, <2>4, <1>1 DEF Decoded
<1>2. CASE n \in Half .. Two64 - 1
  <2>1. DecodeInt(n) = Decoded("u64", n)
    BY <1>2, HalfFacts DEF DecodeInt
  <2>2. n % Two64 = n
    <3>1. n \in -Two64 .. Two64 - 1 /\ Two64 > 0 /\ ~(n < 0)
      BY <1>2, HalfFacts
    <3> QED BY <3>1, HalfFacts, SmallRemainder
  <2>3. n \in 0 .. Two64 - 1
    BY <1>2, HalfFacts
  <2> QED BY <2>1, <2>2, <2>3, <1>2 DEF Decoded
<1>3. CASE ~(n \in -Half .. Half - 1) /\ ~(n \in Half .. Two64 - 1)
  <2>1. ~(-(Two64 \div 2) <= n /\ n < Two64 \div 2) /\ ~(Two64 \div 2 <= n /\ n < Two64)
    BY <1>3, HalfFacts
  <2>2. DecodeInt(n) = Refused
    BY <2>1 DEF DecodeInt
  <2> QED BY <2>2 DEF Refused, Decoded
<1> QED BY <1>1, <1>2, <1>3

(* What is decoded of anything but a tensor. *)
IsScalar(d) ==
  /\ d.kind \in {"i64", "u64", "bool", "fp64", "none", "object"}
  /\ d.bits \in 0 .. Two64 - 1 /\ d.dtype = 0 /\ d.within = TRUE
  /\ d.kind = "u64" => d.bits >= Half
  /\ d.kind = "bool" => d.bits \in {0, 1}
  /\ d.kind = "none" => d.bits = 0

(* The value that it was decoded from. *)
ValueOf(d) ==
  CASE d.kind = "i64" -> <<"int", AsSigned(d.bits)>> [] d.kind = "u64" -> <<"int", d.bits>>
    [] d.kind = "bool" -> <<"bool", d.bits>>         [] d.kind = "fp64" -> <<"float", d.bits>>
    [] d.kind = "none" -> <<"none", 0>>              [] OTHER -> <<"object", d.bits>>

SameDecoded(d, e) == d.kind = e.kind /\ d.bits = e.bits

(* A value that is not refused is known from what it decodes to. *)
LEMMA ScalarTells ==
  ASSUME NEW v, IsValue(v), DecodeScalar(v).kind # "refused"
  PROVE  /\ IsScalar(DecodeScalar(v)) /\ ValueOf(DecodeScalar(v)) = <<v.kind, v.n>>
         /\ DecodeScalar(v).kind # "object" /\ v.kind \in {"int", "bool", "float", "none"}
         /\ v.kind = "int" => DecodeScalar(v) = DecodeInt(v.n)
<1>1. v.n \in Int /\ Two64 \in Nat /\ Two64 >= 4
  BY HalfFacts DEF IsValue
<1>2. CASE v.kind = "int"
  <2>1. DecodeScalar(v) = DecodeInt(v.n)
    BY <1>2 DEF DecodeScalar
  <2> DEFINE d == DecodeInt(v.n)
  <2>2. /\ d.bits \in 0 .. Two64 - 1 /\ d.bits = v.n % Two64
        /\ d.dtype = 0 /\ d.within = TRUE
        /\ \/ d.kind = "i64" /\ v.n \in -Half .. Half - 1 /\ AsSigned(d.bits) = v.n
           \/ d.kind = "u64" /\ v.n \in Half .. Two64 - 1 /\ d.bits = v.n
    BY <2>1, <1>1, DecodedInt
  <2>3. DecodeScalar(v) = d
    BY <2>1
  <2> HIDE DEF d
  <2>4. d.kind = "u64" => d.bits >= Half
    BY <2>2, HalfFacts
  <2>5. IsScalar(d) /\ d.kind # "object"
    BY <2>2, <2>4 DEF IsScalar
  <2>6. ValueOf(d) = <<"int", v.n>>
    BY <2>2 DEF ValueOf
  <2> QED BY <2>1, <2>3, <2>5, <2>6, <1>2
<1>3. CASE v.kind \in {"bool", "float", "none"}
  <2>1. v.n \in 0 .. Two64 - 1 /\ (v.kind = "bool" => v.n \in {0, 1}) /\ (v.kind = "none" => v.n = 0)
    BY <1>1, <1>3 DEF IsValue
  <2> QED BY <2>1, <1>3 DEF DecodeScalar, IsScalar, ValueOf, Decoded
<1>4. CASE v.kind \notin {"int", "bool", "float", "none"}
  BY <1>4 DEF DecodeScalar, Refused, Decoded
<1> QED BY <1>2, <1>3, <1>4

(* So are the values of constexprs and dynamic values. *)
LEMMA UntypedTells ==
  ASSUME NEW a, NEW v, IsValue(v), NEW within, a.kind # "argument",
         Decode(a, v, within).kind # "refused"
  PROVE  /\ IsScalar(Decode(a, v, within))
         /\ ValueOf(Decode(a, v, within)) = <<v.kind, v.n>>
<1>1. CASE v.kind = "object" /\ TakesObjects(a)
  <2>1. Decode(a, v, within) = Decoded("object", v.n)
    BY <1>1 DEF Decode
  <2>2. v.n \in 0 .. Two64 - 1
    BY <1>1 DEF IsValue
  <2> QED BY <2>1, <2>2, <1>1 DEF IsScalar, ValueOf, Decoded
<1>2. CASE ~(v.kind = "object" /\ TakesObjects(a))
  <2>1. Decode(a, v, within) = DecodeScalar(v)
    BY <1>2 DEF Decode
  <2> QED BY <2>1, ScalarTells
<1> QED BY <1>1, <1>2

-----------------------------------------------------------------------------
(* The payload of a constexpr *)

(* Reading bits as a signed integer is the reverse of taking its           *)
(* remainder.                                                              *)
LEMMA SignedBits ==
  ASSUME NEW b \in 0 .. Two64 - 1
  PROVE  AsSigned(b) \in -Half .. Half - 1 /\ AsSigned(b) % Two64 = b
<1>1. AsSigned(b) = IF b < Half THEN b ELSE b - Two64
  BY HalfFacts
<1>2. AsSigned(b) \in -Half .. Half - 1 /\ b = (IF AsSigned(b) < 0 THEN AsSigned(b) + Two64 ELSE AsSigned(b))
  BY <1>1, HalfFacts
<1>3. AsSigned(b) \in -Two64 .. Two64 - 1 /\ Two64 \in Nat /\ Two64 > 0
  BY <1>2, HalfFacts
<1> QED BY <1>2, <1>3, SmallRemainder

(* The bits of a value of a type are known from as many as the type has,   *)
(* or more.                                                                *)
LEMMA PayloadTells ==
  ASSUME NEW t \in ConstexprTypes, NEW d, IsScalar(d), TypeValid(t, d),
         NEW e, IsScalar(e), TypeValid(t, e), NEW m \in {8, 16, 32, 64}, 8 * KeyBytes(t) <= m,
         KeyBytes(t) > 0 => d.bits % Size(m) = e.bits % Size(m)
  PROVE  SameDecoded(d, e)
<1> DEFINE x == d.bits
           y == e.bits
<1>1. x \in 0 .. Two64 - 1 /\ y \in 0 .. Two64 - 1 /\ Two64 \in Nat /\ Two64 >= 4
  BY HalfFacts DEF IsScalar
<1>2. Size(m) \in Nat /\ Size(m) >= 4
  BY SizeFacts
<1>3. CASE t = NoneType
  BY <1>3 DEF NoneType, Type, TypeValid, IsScalar, SameDecoded
<1>4. CASE t = BoolType
  <2>1. d.kind = "bool" /\ e.kind = "bool" /\ x \in {0, 1} /\ y \in {0, 1}
    BY <1>4 DEF BoolType, Type, TypeValid, IsScalar
  <2>2. KeyBytes(t) > 0
    BY <1>4 DEF BoolType, Type, KeyBytes
  <2>3. x % Size(m) = y % Size(m)
    BY <2>2
  <2>4. x \in 0 .. 0 + Size(m) - 1 /\ y \in 0 .. 0 + Size(m) - 1 /\ Size(m) > 0
    BY <2>1, <1>2
  <2> HIDE DEF x, y
  <2>5. x = y
    BY <2>3, <2>4, <1>2, WindowDistinct
  <2> QED BY <2>1, <2>5 DEF SameDecoded, x, y
<1>5. CASE t = Float(64)
  <2>1. d.kind = "fp64" /\ e.kind = "fp64"
    BY <1>5 DEF Float, Type, TypeValid
  <2>2. KeyBytes(t) = 8
    BY <1>5 DEF Float, Type, KeyBytes
  <2>3. m = 64
    BY <2>2
  <2>4. x % Two64 = y % Two64
    BY <2>2, <2>3 DEF Two64
  <2>5. x \in 0 .. 0 + Two64 - 1 /\ y \in 0 .. 0 + Two64 - 1 /\ Two64 > 0
    BY <1>1
  <2> HIDE DEF x, y
  <2>6. x = y
    BY <2>4, <2>5, <1>1, WindowDistinct
  <2> QED BY <2>1, <2>6 DEF SameDecoded, x, y
<1>6. ASSUME NEW bits \in {8, 16, 32, 64}, t = Signed(bits) \/ t = Unsigned(bits)
      PROVE  x % Size(bits) = y % Size(bits)
  <2>1. KeyBytes(t) > 0 /\ bits <= m
    BY <1>6 DEF Signed, Unsigned, Type, KeyBytes
  <2>2. x % Size(m) = y % Size(m)
    BY <2>1
  <2>3. Size(m) % Size(bits) = 0 /\ Size(bits) \in Nat /\ Size(bits) > 0
    BY <2>1, SizeFacts
  <2>4. Size(m) > 0
    BY <1>2
  <2> DEFINE W == Size(m)
             S == Size(bits)
  <2>5. /\ x \in Int /\ y \in Int /\ W \in Nat /\ S \in Nat /\ W > 0 /\ S > 0 /\ W % S = 0
        /\ x % W = y % W
    BY <1>1, <1>2, <2>2, <2>3, <2>4
  <2> HIDE DEF x, y, W, S
  <2>6. (x % W) % S = x % S
    BY <2>5, RemainderOfRemainder
  <2>7. (y % W) % S = y % S
    BY <2>5, RemainderOfRemainder
  <2>8. x % S = y % S
    BY <2>5, <2>6, <2>7
  <2> QED BY <2>8 DEF S
<1>7. ASSUME NEW bits \in {8, 16, 32, 64}, t = Signed(bits) PROVE SameDecoded(d, e)
  <2> DEFINE S == Size(bits)
             p == AsSigned(x)
             q == AsSigned(y)
  <2>1. /\ d.kind = "i64" /\ e.kind = "i64"
        /\ p \in -(S \div 2) .. S \div 2 - 1 /\ q \in -(S \div 2) .. S \div 2 - 1
    BY <1>7 DEF Signed, Type, TypeValid
  <2>2. S \in Nat /\ S >= 4 /\ S % 2 = 0 /\ Two64 % S = 0 /\ S > 0
    BY SizeFacts
  <2>3. p \in Int /\ q \in Int /\ p % Two64 = x /\ q % Two64 = y
    BY <1>1, SignedBits
  <2>4. x % S = y % S
    BY <1>6, <1>7
  <2>5. Two64 > 0
    BY <1>1
  <2> HIDE DEF S, p, q, x, y
  <2>6. (p % Two64) % S = p % S /\ (q % Two64) % S = q % S
    BY <1>1, <2>2, <2>3, <2>5, RemainderOfRemainder
  <2>7. p % S = q % S
    BY <2>3, <2>4, <2>6
  <2> DEFINE low == -(S \div 2)
  <2>8. low \in Int /\ p \in low .. low + S - 1 /\ q \in low .. low + S - 1
    BY <2>1, <2>2
  <2> HIDE DEF low
  <2>9. p = q
    BY <2>2, <2>7, <2>8, WindowDistinct
  <2> QED BY <2>1, <2>3, <2>9 DEF SameDecoded, x, y
<1>8. ASSUME NEW bits \in {8, 16, 32, 64}, t = Unsigned(bits) PROVE SameDecoded(d, e)
  <2> DEFINE S == Size(bits)
  <2>1. /\ d.kind = "u64" \/ (d.kind = "i64" /\ AsSigned(x) >= 0)
        /\ e.kind = "u64" \/ (e.kind = "i64" /\ AsSigned(y) >= 0)
        /\ x < S /\ y < S
    BY <1>8 DEF Unsigned, Type, TypeValid
  <2>2. S \in Nat /\ S > 0
    BY SizeFacts
  <2>3. x % S = y % S
    BY <1>6, <1>8
  <2>4. AsSigned(x) = (IF x < Half THEN x ELSE x - Two64) /\ AsSigned(y) = (IF y < Half THEN y ELSE y - Two64)
    BY HalfFacts
  <2>5. (d.kind = "u64" => x >= Half) /\ (e.kind = "u64" => y >= Half)
    BY DEF IsScalar
  <2> HIDE DEF S, x, y
  <2>6. x \in 0 .. 0 + S - 1 /\ y \in 0 .. 0 + S - 1
    BY <1>1, <2>1, <2>2
  <2>7. x = y
    BY <2>2, <2>3, <2>6, WindowDistinct
  <2>8. d.kind = "u64" \/ (d.kind = "i64" /\ x < Half)
    BY <2>1, <2>4, <1>1, HalfFacts
  <2>9. e.kind = "u64" \/ (e.kind = "i64" /\ y < Half)
    BY <2>1, <2>4, <1>1, HalfFacts
  <2>10. d.kind = e.kind
    BY <2>5, <2>7, <2>8, <2>9, <1>1, HalfFacts
  <2> QED BY <2>7, <2>10 DEF SameDecoded, x, y
<1>9. \/ t \in {NoneType, BoolType, Float(64)}
      \/ \E bits \in {8, 16, 32, 64} : t = Signed(bits) \/ t = Unsigned(bits)
  BY DEF ConstexprTypes
<1> QED BY <1>3, <1>4, <1>5, <1>7, <1>8, <1>9

(* A power of two is known from its exponent and its sign. *)
LEMMA PowerTells ==
  ASSUME NEW d, IsScalar(d), d.kind \in {"i64", "u64"}, Magnitude(d) \in Powers \union {0},
         NEW e, IsScalar(e), e.kind \in {"i64", "u64"}, Magnitude(e) \in Powers \union {0},
         PowerCode(d) = PowerCode(e)
  PROVE  SameDecoded(d, e)
<1> DEFINE Neg(c) == c.kind = "i64" /\ AsSigned(c.bits) < 0
           Shift(c) == IF Neg(c) THEN 128 ELSE 0
           K == 0 .. Bits[64] - 1
           Exp(c) == CHOOSE k \in K : 2 ^ k = Magnitude(c)
<1>1. ASSUME NEW c, IsScalar(c), c.kind \in {"i64", "u64"}
      PROVE  /\ c.bits \in 0 .. Two64 - 1
             /\ AsSigned(c.bits) = IF c.bits < Half THEN c.bits ELSE c.bits - Two64
             /\ c.kind = "i64" \/ (c.kind = "u64" /\ c.bits >= Half)
             /\ Neg(c) = (c.kind = "i64" /\ c.bits >= Half)
             /\ Magnitude(c) = IF Neg(c) THEN Two64 - c.bits ELSE c.bits
  <2>1. AsSigned(c.bits) = IF c.bits < Half THEN c.bits ELSE c.bits - Two64
    BY HalfFacts
  <2>2. c.bits \in 0 .. Two64 - 1 /\ (c.kind = "i64" \/ (c.kind = "u64" /\ c.bits >= Half))
    BY <1>1 DEF IsScalar
  <2>3. AsSigned(c.bits) < 0 <=> c.bits >= Half
    BY <2>1, <2>2, HalfFacts
  <2> QED BY <2>1, <2>2, <2>3 DEF Magnitude
<1>2. K \subseteq 0 .. 127 /\ \A k \in K : k \in Int
  BY SizesAssumption
<1>3. ASSUME NEW c, IsScalar(c), c.kind \in {"i64", "u64"}, Magnitude(c) \in Powers \union {0},
             c.bits # 0
      PROVE  /\ Exp(c) \in K /\ 2 ^ Exp(c) = Magnitude(c)
             /\ PowerCode(c) = Exp(c) + 1 + Shift(c)
  <2>1. Magnitude(c) # 0
    BY <1>1, <1>3, HalfFacts
  <2>2. \E k \in K : 2 ^ k = Magnitude(c)
    BY <2>1, <1>3 DEF Powers
  <2>3. Exp(c) \in K /\ 2 ^ Exp(c) = Magnitude(c)
    BY <2>2
  <2> QED BY <2>3, <1>3 DEF PowerCode
<1>4. ASSUME NEW c, c.bits = 0 PROVE PowerCode(c) = 0
  BY <1>4 DEF PowerCode
<1> DEFINE x == d.bits
           y == e.bits
<1>5. /\ x \in 0 .. Two64 - 1 /\ y \in 0 .. Two64 - 1
      /\ d.kind = "i64" \/ (d.kind = "u64" /\ x >= Half)
      /\ e.kind = "i64" \/ (e.kind = "u64" /\ y >= Half)
  BY <1>1
<1>6. CASE x = 0 /\ y = 0
  <2>1. d.kind = "i64" /\ e.kind = "i64"
    BY <1>5, <1>6, HalfFacts
  <2> QED BY <2>1, <1>6 DEF SameDecoded
<1>7. CASE x # 0 /\ y # 0
  <2>1. /\ Exp(d) \in K /\ 2 ^ Exp(d) = Magnitude(d) /\ PowerCode(d) = Exp(d) + 1 + Shift(d)
        /\ Exp(e) \in K /\ 2 ^ Exp(e) = Magnitude(e) /\ PowerCode(e) = Exp(e) + 1 + Shift(e)
    BY <1>3, <1>7
  <2>2. Neg(d) \in BOOLEAN /\ Neg(e) \in BOOLEAN /\ Shift(d) = (IF Neg(d) THEN 128 ELSE 0)
        /\ Shift(e) = (IF Neg(e) THEN 128 ELSE 0)
    OBVIOUS
  <2> DEFINE i == Exp(d)
             j == Exp(e)
  <2>3. i \in 0 .. 127 /\ j \in 0 .. 127 /\ i + 1 + Shift(d) = j + 1 + Shift(e)
    BY <2>1, <1>2
  <2>4. 2 ^ i = Magnitude(d) /\ 2 ^ j = Magnitude(e)
    BY <2>1
  <2>5. Magnitude(d) = (IF Neg(d) THEN Two64 - x ELSE x) /\ Magnitude(e) = (IF Neg(e) THEN Two64 - y ELSE y)
        /\ Neg(d) = (d.kind = "i64" /\ x >= Half) /\ Neg(e) = (e.kind = "i64" /\ y >= Half)
    BY <1>1
  <2> HIDE DEF i, j, Exp, Neg, Shift, x, y
  <2>6. Neg(d) = Neg(e)
    BY <2>2, <2>3
  <2>7. i = j
    BY <2>2, <2>3, <2>6
  <2>8. Magnitude(d) = Magnitude(e)
    BY <2>4, <2>7
  <2>9. x = y
    BY <2>5, <2>6, <2>8, <1>5, <2>2, HalfFacts
  <2>10. d.kind = e.kind
    BY <2>5, <2>6, <2>9, <2>2, <1>5
  <2> QED BY <2>9, <2>10 DEF SameDecoded, x, y
<1>8. CASE (x = 0 /\ y # 0) \/ (x # 0 /\ y = 0)
  <2>1. ASSUME NEW c, IsScalar(c), c.kind \in {"i64", "u64"}, Magnitude(c) \in Powers \union {0},
               c.bits # 0
        PROVE  PowerCode(c) # 0
    <3> DEFINE k == Exp(c)
    <3>1. k \in 0 .. 127 /\ PowerCode(c) = k + 1 + Shift(c)
      BY <2>1, <1>2, <1>3
    <3>2. Shift(c) \in {0, 128}
      OBVIOUS
    <3> HIDE DEF k, Exp, Shift
    <3> QED BY <3>1, <3>2
  <2> QED BY <2>1, <1>4, <1>8
<1> QED BY <1>6, <1>7, <1>8

-----------------------------------------------------------------------------
(* The narrowest of a constexpr's types *)

(* The type of a constexpr that a scalar fits is one of its own kind. *)
LEMMA FittingScalar ==
  ASSUME NEW a, a.types \subseteq ConstexprTypes, NEW d, IsScalar(d), NEW t \in Fitting(a, d)
  PROVE  \/ t = NoneType /\ d.kind = "none"
         \/ t = BoolType /\ d.kind = "bool"
         \/ t = Float(64) /\ d.kind = "fp64"
         \/ d.kind \in {"i64", "u64"} /\ \E bits \in {8, 16, 32, 64} : t = Signed(bits) \/ t = Unsigned(bits)
<1>1. t \in ConstexprTypes /\ TypeValid(t, d)
  BY DEF Fitting
<1>2. ASSUME t = NoneType PROVE d.kind = "none"
  BY <1>1, <1>2 DEF TypeValid, NoneType, Type
<1>3. ASSUME t = BoolType PROVE d.kind = "bool"
  BY <1>1, <1>3 DEF TypeValid, BoolType, Type
<1>4. ASSUME t = Float(64) PROVE d.kind = "fp64"
  BY <1>1, <1>4 DEF TypeValid, Float, Type
<1>5. ASSUME NEW bits \in {8, 16, 32, 64}, t = Signed(bits) PROVE d.kind \in {"i64", "u64"}
  BY <1>1, <1>5 DEF TypeValid, Signed, Type
<1>6. ASSUME NEW bits \in {8, 16, 32, 64}, t = Unsigned(bits) PROVE d.kind \in {"i64", "u64"}
  BY <1>1, <1>6 DEF TypeValid, Unsigned, Type
<1>7. \/ t \in {NoneType, BoolType, Float(64)}
      \/ \E bits \in {8, 16, 32, 64} : t = Signed(bits) \/ t = Unsigned(bits)
  BY <1>1 DEF ConstexprTypes
<1> QED BY <1>2, <1>3, <1>4, <1>5, <1>6, <1>7

(* Of the types that a constexpr's value fits there is a narrowest. *)
LEMMA NarrowestExists ==
  ASSUME NEW a, a.types \subseteq ConstexprTypes, NEW d, IsScalar(d), Fitting(a, d) # {}
  PROVE  \E t \in Fitting(a, d) : \A u \in Fitting(a, d) \ {t} : Narrower(t, u)
<1> DEFINE F == Fitting(a, d)
           Ints == {Signed(8), Unsigned(8), Signed(16), Unsigned(16),
                    Signed(32), Unsigned(32), Signed(64), Unsigned(64)}
           N(S, t) == \A u \in S \ {t} : Narrower(t, u)
<1>1. CASE d.kind \notin {"i64", "u64"}
  <2>1. \A t, u \in F : t = u
    BY <1>1, FittingScalar
  <2> QED BY <2>1
<1>2. CASE d.kind \in {"i64", "u64"}
  <2>1. F \subseteq Ints
    BY <1>2, FittingScalar
  <2> HIDE DEF F
  <2>2. \A b \in {8, 16, 32, 64}, c \in {8, 16, 32, 64} :
          /\ Narrower(Signed(b), Unsigned(b))
          /\ b < c => /\ Narrower(Signed(b), Signed(c)) /\ Narrower(Signed(b), Unsigned(c))
                      /\ Narrower(Unsigned(b), Signed(c)) /\ Narrower(Unsigned(b), Unsigned(c))
    BY DEF Narrower, Signed, Unsigned, Type
  <2>3. \A u \in Ints : \E b \in {8, 16, 32, 64} : u = Signed(b) \/ u = Unsigned(b)
    OBVIOUS
  <2> DEFINE Least(t, S) == S \subseteq Ints /\ \A u \in S \ {t} : Narrower(t, u)
  <2>4. CASE Signed(8) \in F
    <3>1. N(F, Signed(8))
      BY <2>1, <2>2
    <3> QED BY <3>1, <2>4 DEF F
  <2>5. CASE Signed(8) \notin F /\ Unsigned(8) \in F
    <3>1. N(F, Unsigned(8))
      BY <2>1, <2>2, <2>5
    <3> QED BY <3>1, <2>5 DEF F
  <2>6. CASE F \intersect {Signed(8), Unsigned(8)} = {} /\ Signed(16) \in F
    <3>1. N(F, Signed(16))
      BY <2>1, <2>2, <2>6
    <3> QED BY <3>1, <2>6 DEF F
  <2>7. CASE F \intersect {Signed(8), Unsigned(8), Signed(16)} = {} /\ Unsigned(16) \in F
    <3>1. N(F, Unsigned(16))
      BY <2>1, <2>2, <2>7
    <3> QED BY <3>1, <2>7 DEF F
  <2>8. CASE F \intersect {Signed(8), Unsigned(8), Signed(16), Unsigned(16)} = {} /\ Signed(32) \in F
    <3>1. N(F, Signed(32))
      BY <2>1, <2>2, <2>8
    <3> QED BY <3>1, <2>8 DEF F
  <2>9. CASE F \subseteq {Unsigned(32), Signed(64), Unsigned(64)} /\ Unsigned(32) \in F
    <3>1. N(F, Unsigned(32))
      BY <2>1, <2>2, <2>9
    <3> QED BY <3>1, <2>9 DEF F
  <2>10. CASE F \subseteq {Signed(64), Unsigned(64)} /\ Signed(64) \in F
    <3>1. N(F, Signed(64))
      BY <2>1, <2>2, <2>10
    <3> QED BY <3>1, <2>10 DEF F
  <2>11. CASE F \subseteq {Unsigned(64)}
    <3>1. F = {Unsigned(64)}
      BY <2>11 DEF F
    <3> QED BY <3>1 DEF F
  <2> QED BY <2>1, <2>4, <2>5, <2>6, <2>7, <2>8, <2>9, <2>10, <2>11
<1> QED BY <1>1, <1>2

(* Of several types, the one that is keyed is one that the value has. *)
LEMMA NarrowestFits ==
  ASSUME NEW a, a.kind = "constexpr", a.types \subseteq ConstexprTypes, a.types # {},
         ~OneType(a), NEW d, IsScalar(d), Fitting(a, d) # {}
  PROVE  TypeOf(a, d) \in Fitting(a, d)
<1> DEFINE F == Fitting(a, d)
           P(t) == \A u \in F \ {t} : Narrower(t, u)
<1>1. \E t \in F : P(t)
  BY NarrowestExists
<1>2. ~Inferred(a)
  BY DEF Inferred
<1>3. TypeOf(a, d) = CHOOSE t \in F : P(t)
  BY <1>2 DEF TypeOf
<1> HIDE DEF F, P
<1>4. (CHOOSE t \in F : P(t)) \in F
  BY <1>1
<1> QED BY <1>3, <1>4 DEF F

(* The codes of integers are even, apart by two and clear of the others. *)
LEMMA IntegerCodes ==
  ASSUME NEW bits \in {8, 16, 32, 64}
  PROVE  /\ TypeCode(Signed(bits)) = CASE bits = 8 -> 144 [] bits = 16 -> 148 [] bits = 32 -> 128 [] bits = 64 -> 130
         /\ TypeCode(Unsigned(bits)) = CASE bits = 8 -> 146 [] bits = 16 -> 150 [] bits = 32 -> 152 [] bits = 64 -> 132
<1>1. TypeCode(Signed(bits)) = IntegerCode(Signed(bits)) /\ TypeCode(Unsigned(bits)) = IntegerCode(Unsigned(bits))
  BY DEF TypeCode, IsInteger, Signed, Unsigned, Type
<1>2. IntegerCode(Signed(bits)) = CASE bits = 8 -> 144 [] bits = 16 -> 148 [] bits = 32 -> 128 [] bits = 64 -> 130
  BY DEF IntegerCode, Signed, Type
<1>3. IntegerCode(Unsigned(bits)) = CASE bits = 8 -> 146 [] bits = 16 -> 150 [] bits = 32 -> 152 [] bits = 64 -> 132
  BY DEF IntegerCode, Unsigned, Type
<1> QED BY <1>1, <1>2, <1>3

(* The codes of the types that are no integers. *)
LEMMA OtherCodes ==
  /\ TypeCode(NoneType) = 136 /\ TypeCode(BoolType) = 135
  /\ TypeCode(Float(32)) = 134 /\ TypeCode(Float(64)) = 143
  /\ \A dtype : TypeCode(Pointer(dtype)) = 4 * dtype
  BY DEF TypeCode, IsInteger, NoneType, BoolType, Float, Pointer, Type

(* A constexpr's type is known from its code. *)
LEMMA ConstexprTypeCodes ==
  ASSUME NEW t \in ConstexprTypes, NEW u \in ConstexprTypes, TypeCode(t) = TypeCode(u)
  PROVE  t = u
<1>1. ASSUME NEW s \in ConstexprTypes
      PROVE  \/ s = NoneType /\ TypeCode(s) = 136
             \/ s = BoolType /\ TypeCode(s) = 135
             \/ s = Float(64) /\ TypeCode(s) = 143
             \/ s = Signed(8) /\ TypeCode(s) = 144
             \/ s = Signed(16) /\ TypeCode(s) = 148
             \/ s = Signed(32) /\ TypeCode(s) = 128
             \/ s = Signed(64) /\ TypeCode(s) = 130
             \/ s = Unsigned(8) /\ TypeCode(s) = 146
             \/ s = Unsigned(16) /\ TypeCode(s) = 150
             \/ s = Unsigned(32) /\ TypeCode(s) = 152
             \/ s = Unsigned(64) /\ TypeCode(s) = 132
  <2>1. /\ TypeCode(Signed(8)) = 144 /\ TypeCode(Signed(16)) = 148
        /\ TypeCode(Signed(32)) = 128 /\ TypeCode(Signed(64)) = 130
        /\ TypeCode(Unsigned(8)) = 146 /\ TypeCode(Unsigned(16)) = 150
        /\ TypeCode(Unsigned(32)) = 152 /\ TypeCode(Unsigned(64)) = 132
    BY IntegerCodes
  <2>2. s \in {NoneType, BoolType, Float(64), Signed(8), Signed(16), Signed(32), Signed(64),
               Unsigned(8), Unsigned(16), Unsigned(32), Unsigned(64)}
    BY DEF ConstexprTypes
  <2> QED BY <2>1, <2>2, OtherCodes
<1> QED BY <1>1

-----------------------------------------------------------------------------
(* A payload is as wide as the widest of the types. *)
LEMMA PayloadWide ==
  ASSUME NEW a, a.types \subseteq ConstexprTypes, a.types # {}
  PROVE  /\ PayloadBytes(a) \in Widths \union {0}
         /\ \A t \in a.types : KeyBytes(t) <= PayloadBytes(a)
<1> DEFINE bytes == {KeyBytes(t) : t \in a.types}
<1>1. \A t \in a.types : t.bits \in {0, 1, 8, 16, 32, 64}
  BY DEF ConstexprTypes, NoneType, BoolType, Float, Signed, Unsigned, Type
<1>2. bytes # {} /\ bytes \subseteq Widths \union {0}
  BY <1>1, KeyBytesRange
<1>3. \E n \in bytes : \A m \in bytes : m <= n
  BY <1>2, GreatestWidth
<1>4. PayloadBytes(a) = CHOOSE n \in bytes : \A m \in bytes : m <= n
  BY DEF PayloadBytes, Inferred
<1> HIDE DEF bytes
<1>5. PayloadBytes(a) \in bytes /\ \A m \in bytes : m <= PayloadBytes(a)
  BY <1>3, <1>4
<1> QED BY <1>2, <1>5 DEF bytes

(* A constexpr that calls pass is known from its fields. *)
LEMMA ConstexprTells ==
  ASSUME NEW a, IsAnnotation(a), a.kind = "constexpr", NEW d, IsScalar(d), Checks(a, d),
         NEW e, IsScalar(e), Checks(a, e),
         \A f \in ConstexprFields(a) : Content(f, a, d) = Content(f, a, e)
  PROVE  SameDecoded(d, e)
<1>1. a.types \subseteq ConstexprTypes
  BY DEF IsAnnotation
<1>2. ~IsTyped(a)
  BY DEF IsAnnotation, IsTyped
<1> DEFINE desc == [kind |-> "descriptor", width |-> 1]
           pay(w) == [kind |-> "payload", width |-> w]
<1>3. CASE a.powerOfTwo
  <2>1. Content(pay(1), a, d) = Content(pay(1), a, e)
    BY <1>3 DEF ConstexprFields
  <2>2. PowerCode(d) = PowerCode(e)
    BY <2>1, <1>3 DEF Content
  <2>3. /\ d.kind \in {"i64", "u64"} /\ Magnitude(d) \in Powers \union {0}
        /\ e.kind \in {"i64", "u64"} /\ Magnitude(e) \in Powers \union {0}
    BY <1>3 DEF Checks
  <2> QED BY <2>2, <2>3, PowerTells
<1>4. ASSUME ~a.powerOfTwo, NEW w \in Widths, pay(w) \in ConstexprFields(a)
      PROVE  d.bits % Size(8 * w) = e.bits % Size(8 * w)
  <2>1. Content(pay(w), a, d) = Content(pay(w), a, e)
    BY <1>4
  <2>2. Content(pay(w), a, d) = d.bits % Size(8 * w) /\ Content(pay(w), a, e) = e.bits % Size(8 * w)
    BY <1>4 DEF Content
  <2> QED BY <2>1, <2>2
<1>5. CASE ~a.powerOfTwo /\ Inferred(a)
  <2>1. desc \in ConstexprFields(a) /\ pay(8) \in ConstexprFields(a)
    BY <1>5 DEF ConstexprFields, PayloadBytes
  <2>2. d.bits % Size(8 * 8) = e.bits % Size(8 * 8)
    BY <1>4, <1>5, <2>1 DEF Widths
  <2>3. d.bits = e.bits
    <3> DEFINE x == d.bits
               y == e.bits
    <3>1. Two64 \in Nat /\ Two64 > 0 /\ x \in 0 .. 0 + Two64 - 1 /\ y \in 0 .. 0 + Two64 - 1
      BY HalfFacts DEF IsScalar
    <3>2. x % Two64 = y % Two64
      BY <2>2 DEF Two64
    <3> HIDE DEF x, y
    <3>3. x = y
      BY <3>1, <3>2, WindowDistinct
    <3> QED BY <3>3 DEF x, y
  <2>4. ConstexprCode(d) = ConstexprCode(e)
    <3>1. Content(desc, a, d) = Content(desc, a, e)
      BY <2>1
    <3> QED BY <3>1, <1>5 DEF Content
  <2>5. d.kind = e.kind
    BY <2>4 DEF ConstexprCode, IsScalar
  <2> QED BY <2>3, <2>5 DEF SameDecoded
<1>6. ASSUME ~a.powerOfTwo, ~Inferred(a), NEW t \in a.types, TypeValid(t, d), TypeValid(t, e)
      PROVE  SameDecoded(d, e)
  <2> DEFINE w == PayloadBytes(a)
  <2>1. w \in Widths \union {0} /\ KeyBytes(t) <= w /\ KeyBytes(t) \in Widths \union {0}
    <3>1. t.bits \in {0, 1, 8, 16, 32, 64}
      BY <1>1, <1>6 DEF ConstexprTypes, NoneType, BoolType, Float, Signed, Unsigned, Type
    <3> QED BY <1>1, <1>6, <3>1, PayloadWide, KeyBytesRange DEF Inferred
  <2>2. w > 0 => pay(w) \in ConstexprFields(a)
    BY <1>6 DEF ConstexprFields
  <2> HIDE DEF w
  <2>3. CASE w = 0
    <3>1. KeyBytes(t) = 0 /\ 64 \in {8, 16, 32, 64} /\ 8 * KeyBytes(t) <= 64
      BY <2>1, <2>3 DEF Widths
    <3>2. ~(KeyBytes(t) > 0)
      BY <3>1
    <3> QED BY <3>1, <3>2, <1>1, <1>6, PayloadTells
  <2>4. CASE w \in Widths
    <3>1. d.bits % Size(8 * w) = e.bits % Size(8 * w)
      BY <1>4, <1>6, <2>2, <2>4 DEF Widths
    <3>2. 8 * w \in {8, 16, 32, 64} /\ 8 * KeyBytes(t) <= 8 * w
      BY <2>1, <2>4 DEF Widths
    <3> QED BY <3>1, <3>2, <1>1, <1>6, PayloadTells
  <2> QED BY <2>1, <2>3, <2>4
<1>7. CASE ~a.powerOfTwo /\ ~Inferred(a) /\ OneType(a)
  <2>1. TheType(a) \in a.types
    BY <1>7 DEF TheType, Inferred
  <2>2. TypeValid(TheType(a), d) /\ TypeValid(TheType(a), e)
    BY <1>2, <1>7 DEF Checks, Inferred
  <2> QED BY <2>1, <2>2, <1>6, <1>7
<1>8. CASE ~a.powerOfTwo /\ ~Inferred(a) /\ ~OneType(a)
  <2>1. Fitting(a, d) # {} /\ Fitting(a, e) # {}
    BY <1>2, <1>8 DEF Checks, Inferred
  <2> DEFINE t == TypeOf(a, d)
             u == TypeOf(a, e)
  <2>2. t \in Fitting(a, d) /\ u \in Fitting(a, e)
    BY <1>1, <1>8, <2>1, NarrowestFits DEF Inferred
  <2>3. desc \in ConstexprFields(a)
    BY <1>8 DEF ConstexprFields
  <2>4. Content(desc, a, d) = Content(desc, a, e)
    BY <2>3
  <2>5. TypeCode(t) = TypeCode(u)
    BY <2>4, <1>8 DEF Content
  <2>6. t \in a.types /\ u \in a.types /\ TypeValid(t, d) /\ TypeValid(u, e)
    BY <2>2 DEF Fitting
  <2> HIDE DEF t, u
  <2>7. t = u
    BY <2>5, <2>6, <1>1, ConstexprTypeCodes
  <2> QED BY <2>6, <2>7, <1>6, <1>8
<1> QED BY <1>3, <1>5, <1>7, <1>8

(* What a decoded argument compiles to: its type, and the facts that its   *)
(* key has or that are assumed.                                            *)
KeyedFact(a, t, d, fact) ==
  \/ a.modes[fact] = "assume"
  \/ fact = "aligned" /\ AlignedCode(a, t, d)
  \/ fact = "range" /\ WithinCode(a, t, d)

KeyedInput(a, t, d) ==
  IF IsOne(a, t, d) THEN [type |-> Constexpr, const |-> <<"int", 1>>, attrs |-> {}]
  ELSE IF t = NoneType THEN [type |-> Constexpr, const |-> <<"none", 0>>, attrs |-> {}]
  ELSE [type |-> t, const |-> <<>>,
        attrs |-> {fact \in {"aligned", "range"} \intersect Applicable(t) : KeyedFact(a, t, d, fact)}]

(* How a value and what it decodes to relate, as far as its type goes.     *)
Reads(v, w, t, d) ==
  /\ IsInteger(t) => /\ v.kind \in {"int", "bool"} /\ (v.kind = "bool" <=> d.kind = "bool")
                     /\ d.bits = 1 <=> v.n = 1
                     /\ d.bits % Divisor = 0 <=> v.n % Divisor = 0
  /\ t.cls = "pointer" => \/ v.kind = "tensor" /\ d.bits = v.n /\ d.within = w
                          \/ v.kind # "tensor" /\ IsNull(v) /\ d.bits = 0 /\ d.within
  /\ t.cls = "none" => t = NoneType /\ v.kind = "none" /\ v.n = 0

(* From an integer's bits one sees whether it is 0, 1 or divisible. *)
LEMMA IntegerReads ==
  ASSUME NEW n \in Int, DecodeInt(n).kind # "refused"
  PROVE  /\ DecodeInt(n).bits = 1 <=> n = 1
         /\ DecodeInt(n).bits % Divisor = 0 <=> n % Divisor = 0
         /\ DecodeInt(n).bits = 0 <=> n = 0
<1> DEFINE d == DecodeInt(n)
<1>1. /\ d.bits \in 0 .. Two64 - 1 /\ d.bits = n % Two64
      /\ \/ n \in -Half .. Half - 1 /\ AsSigned(d.bits) = n
         \/ n \in Half .. Two64 - 1 /\ d.bits = n
  BY DecodedInt
<1>2. AsSigned(d.bits) = IF d.bits < Half THEN d.bits ELSE d.bits - Two64
  BY HalfFacts
<1>3. (d.bits = 1 <=> n = 1) /\ (d.bits = 0 <=> n = 0)
  <2> HIDE DEF d
  <2> QED BY <1>1, <1>2, HalfFacts
<1>4. d.bits % Divisor = n % Divisor
  <2>1. Two64 \in Nat /\ Two64 > 0 /\ Divisor \in Nat /\ Divisor > 0 /\ Two64 % Divisor = 0
    BY HalfFacts, DivisorAssumption
  <2>2. (n % Two64) % Divisor = n % Divisor
    BY <2>1, RemainderOfRemainder
  <2> QED BY <1>1, <2>2
<1> QED BY <1>3, <1>4

(* Decoding an argument that is of one of its types, not Triton's.         *)
LEMMA UntypedReads ==
  ASSUME NEW a, IsAnnotation(a), a.kind = "argument", ~IsTyped(a),
         NEW v, IsValue(v), NEW w \in BOOLEAN, NEW d, d = Decode(a, v, w), d.kind # "refused",
         NEW t, t = InferType(d) \/ (t \in ArgumentTypes /\ TypeValid(t, d))
  PROVE  Reads(v, w, t, d)
<1>1. CASE v.kind = "tensor"
  <2>1. d = [kind |-> "tensor", bits |-> v.n, dtype |-> v.dtype, within |-> w]
    BY <1>1 DEF Decode, DecodeTensor
  <2>2. ~IsInteger(t) /\ t.cls # "none"
    <3>1. CASE t = InferType(d)
      BY <2>1, <3>1 DEF InferType, Pointer, Type, IsInteger
    <3>2. CASE TypeValid(t, d)
      <4>1. d.kind = "tensor"
        BY <2>1
      <4> QED BY <4>1, <3>2 DEF TypeValid, IsInteger
    <3> QED BY <3>1, <3>2
  <2> QED BY <1>1, <2>1, <2>2 DEF Reads
<1>2. CASE v.kind # "tensor"
  <2>1. d = DecodeScalar(v)
    <3>1. Decode(a, v, w) = IF a.tensorOnly /\ ~(a.noneOk /\ v.kind = "none") THEN Refused ELSE DecodeScalar(v)
      BY <1>2 DEF Decode
    <3> QED BY <3>1 DEF Refused, Decoded
  <2>2. /\ IsScalar(d) /\ d.kind # "object" /\ v.kind \in {"int", "bool", "float", "none"}
        /\ v.kind = "int" => d = DecodeInt(v.n)
    BY <2>1, ScalarTells
  <2>3. v.n \in Int /\ (v.kind = "none" => v.n = 0)
    BY DEF IsValue
  <2>4. CASE v.kind = "int"
    <3>1. /\ d.kind \in {"i64", "u64"}
          /\ d.bits = 1 <=> v.n = 1
          /\ d.bits % Divisor = 0 <=> v.n % Divisor = 0
          /\ d.bits = 0 <=> v.n = 0
      BY <2>2, <2>3, <2>4, DecodedInt, IntegerReads
    <3>2. t.cls = "pointer" => d = Decoded("i64", 0)
      <4>1. CASE t = InferType(d)
        BY <3>1, <4>1 DEF InferType, Signed, Unsigned, Type
      <4>2. CASE TypeValid(t, d)
        BY <3>1, <4>2 DEF TypeValid
      <4> QED BY <4>1, <4>2
    <3>3. t.cls # "none"
      <4>1. CASE t = InferType(d)
        BY <3>1, <4>1 DEF InferType, Signed, Unsigned, Type
      <4>2. CASE TypeValid(t, d)
        BY <3>1, <4>2 DEF TypeValid
      <4> QED BY <4>1, <4>2
    <3>4. t.cls = "pointer" => d.bits = 0 /\ d.within = TRUE /\ IsNull(v)
      BY <3>1, <3>2, <2>4 DEF Decoded, IsNull
    <3> QED BY <2>4, <3>1, <3>3, <3>4 DEF Reads
  <2>5. CASE v.kind = "none"
    <3>1. d = Decoded("none", 0)
      BY <2>1, <2>5 DEF DecodeScalar
    <3>2. d.kind = "none" /\ d.bits = 0 /\ d.within = TRUE
      BY <3>1 DEF Decoded
    <3>3. ~IsInteger(t) /\ (t.cls = "none" => t = NoneType)
      <4>1. CASE t = InferType(d)
        BY <3>2, <4>1 DEF InferType, NoneType, Type, IsInteger
      <4>2. CASE t \in ArgumentTypes /\ TypeValid(t, d)
        <5>1. ~IsInteger(t)
          BY <3>2, <4>2 DEF TypeValid, IsInteger
        <5>2. t.cls = "none" => t = NoneType
          BY <4>2 DEF ArgumentTypes, ConstexprTypes, NoneType, BoolType, Float, Signed, Unsigned, Pointer, Type
        <5> QED BY <5>1, <5>2
      <4> QED BY <4>1, <4>2
    <3> QED BY <2>3, <2>5, <3>2, <3>3 DEF Reads, IsNull
  <2>6. CASE v.kind \in {"bool", "float"}
    <3>1. d.kind = (IF v.kind = "bool" THEN "bool" ELSE "fp64")
      BY <2>1, <2>6 DEF DecodeScalar, Decoded
    <3>2. ~IsInteger(t) /\ t.cls # "pointer" /\ t.cls # "none"
      <4>1. CASE t = InferType(d)
        BY <3>1, <4>1 DEF InferType, BoolType, Float, Type, IsInteger
      <4>2. CASE TypeValid(t, d)
        <5>1. d # Decoded("i64", 0)
          BY <3>1 DEF Decoded
        <5> QED BY <3>1, <4>2, <5>1 DEF TypeValid, IsInteger
      <4> QED BY <4>1, <4>2
    <3> QED BY <3>2 DEF Reads
  <2> QED BY <2>2, <2>4, <2>5, <2>6
<1> QED BY <1>1, <1>2

(* Decoding a Triton-typed one. *)
LEMMA TypedReads ==
  ASSUME NEW a, IsAnnotation(a), IsTyped(a),
         NEW v, IsValue(v), NEW w \in BOOLEAN, NEW d, d = DecodeTyped(a, v), d.kind # "refused"
  PROVE  Reads(v, w, TheType(a), d)
<1> DEFINE t == TheType(a)
<1>1. t \in a.types /\ t # NoneType /\ t \in ArgumentTypes /\ t.cls # "pointer"
  <2>1. a.tritonTyped /\ a.kind = "argument" /\ OneType(a) /\ NoneType \notin a.types /\ t.cls # "pointer"
        /\ a.types \subseteq ArgumentTypes
    BY DEF IsAnnotation, IsTyped
  <2>2. a.types # {}
    BY <2>1, FS_EmptySet DEF OneType
  <2>3. t \in a.types
    BY <2>2 DEF TheType
  <2> QED BY <2>1, <2>3
<1>2. t.cls # "none"
  BY <1>1 DEF ArgumentTypes, ConstexprTypes, NoneType, BoolType, Float, Signed, Unsigned, Pointer, Type
<1>3. v.n \in Int
  BY DEF IsValue
<1>4. CASE IsInteger(t)
  <2>1. d = DecodeTypedInt(t, v)
    BY <1>4 DEF DecodeTyped, IsInteger
  <2>2. CASE v.kind = "bool"
    <3>1. d = Decoded("bool", v.n)
      BY <2>1, <2>2 DEF DecodeTypedInt
    <3>2. d.bits = v.n /\ d.kind = "bool"
      BY <3>1 DEF Decoded
    <3> QED BY <1>1, <1>2, <2>2, <3>2 DEF Reads
  <2>3. CASE v.kind = "int"
    <3>1. /\ DecodeInt(v.n) # Refused
          /\ \/ d = Decoded("u64", DecodeInt(v.n).bits)
             \/ d = DecodeInt(v.n) /\ d.kind = "i64"
      <4>1. DecodeTypedInt(t, v) \in {Refused, Decoded("u64", DecodeInt(v.n).bits), DecodeInt(v.n)}
        BY <2>3 DEF DecodeTypedInt
      <4>2. d # Refused
        BY DEF Refused, Decoded
      <4> QED BY <4>2, <2>1, <2>3 DEF DecodeTypedInt, Refused, Decoded
    <3>2. DecodeInt(v.n).kind # "refused"
      BY <3>1 DEF DecodeInt, Refused, Decoded
    <3>3. d.bits = DecodeInt(v.n).bits /\ d.kind # "bool"
      BY <3>1 DEF Decoded
    <3> QED BY <1>1, <1>2, <1>3, <2>3, <3>2, <3>3, IntegerReads DEF Reads
  <2>4. CASE v.kind \notin {"int", "bool"}
    BY <2>1, <2>4 DEF DecodeTypedInt, Refused, Decoded
  <2> QED BY <2>2, <2>3, <2>4
<1>5. CASE ~IsInteger(t)
  BY <1>1, <1>2, <1>5 DEF Reads
<1> QED BY <1>4, <1>5

-----------------------------------------------------------------------------
(* What a compile makes of a call's argument is what its key says: with    *)
(* the range that the key has, if it has one.                              *)
Infers(v, t) ==
  \/ v.kind = "tensor" /\ t = Pointer(v.dtype)
  \/ v.kind = "int" /\ t = InferType(DecodeInt(v.n)) /\ (v.n = 1 => t = Signed(32))
  \/ v.kind = "bool" /\ t = BoolType
  \/ v.kind = "float" /\ t = Float(32)
  \/ v.kind = "none" /\ t = NoneType

Fixed(a) == ~Inferred(a) /\ OneType(a)

(* Without and with a fixed type, the compile of an argument sees the      *)
(* type, the folding and the facts of its code.                            *)
LEMMA InputOfReads ==
  ASSUME NEW a, IsAnnotation(a), a.kind = "argument",
         NEW v, IsValue(v), NEW w \in BOOLEAN, NEW r \in BOOLEAN,
         (a.modes["range"] = "auto" /\ launcher.keysRange) => r = (v.kind # "tensor" \/ w),
         launcher.keysRange \in BOOLEAN,
         NEW d, NEW t \in ArgumentTypes, Reads(v, w, t, d),
         IsInteger(t) /\ d.kind = "bool" => IsTyped(a),
         IF Fixed(a) THEN t = TheType(a) ELSE Infers(v, t)
  PROVE  ArgumentInput(a, v, r) = KeyedInput(a, t, d)
<1> DEFINE given == IF Fixed(a) THEN TheType(a) ELSE NoneType
           assumedOne == a.modes["one"] = "assume" /\ "one" \in Applicable(given)
           infers == /\ ~assumedOne
                     /\ ~Fixed(a) \/ \E fact \in Facts : IsAuto(a, given, fact)
           shown == IF given.cls = "pointer" /\ IsNull(v) THEN MockTensor(given) ELSE v
           specialized == \E fact \in Facts : a.modes[fact] = "auto"
           got == SpecializeImpl(shown, specialized, a.modes["aligned"] = "auto",
                                 a.modes["range"] # "auto" \/ r)
           effective == IF Fixed(a) THEN given
                        ELSE IF got.type # Constexpr THEN got.type
                        ELSE IF v.kind = "none" THEN NoneType ELSE Signed(32)
           folds == /\ "one" \in Applicable(effective)
                    /\ \/ a.modes["one"] = "assume"
                       \/ a.modes["one"] = "auto" /\ v.kind \in {"int", "bool"} /\ v.n = 1
           facts == {fact \in {"aligned", "range"} \intersect Applicable(effective) :
                       \/ a.modes[fact] = "assume"
                       \/ a.modes[fact] = "auto" /\ infers /\ fact \in got.desc}
<1>1. ArgumentInput(a, v, r) =
        IF folds THEN [type |-> Constexpr, const |-> <<"int", 1>>, attrs |-> {}]
        ELSE IF effective = NoneType
          THEN [type |-> Constexpr, const |-> <<v.kind, v.n>>, attrs |-> {}]
        ELSE [type |-> effective, const |-> <<>>, attrs |-> facts]
  BY DEF ArgumentInput, Fixed
<1>2. /\ \A fact \in Facts : a.modes[fact] \in {"auto", "never", "assume"}
      /\ "one" \in Facts /\ "aligned" \in Facts /\ "range" \in Facts
  BY DEF IsAnnotation, Modes, Facts
<1>3. /\ "one" \in Applicable(t) <=> IsInteger(t)
      /\ "aligned" \in Applicable(t) <=> (t.cls = "pointer" \/ IsInteger(t))
      /\ "range" \in Applicable(t) <=> t.cls = "pointer"
      /\ NoneType.cls = "none" /\ Applicable(NoneType) = {}
  BY DEF Applicable, IsInteger, NoneType, Type
<1>4. t # Constexpr
  BY DEF ArgumentTypes, ConstexprTypes, NoneType, BoolType, Float, Signed, Unsigned, Pointer, Type, Constexpr
<1> DEFINE divisible == IF specialized /\ a.modes["aligned"] = "auto" /\ shown.n % Divisor = 0
                          THEN {"aligned"} ELSE {}
           small == IF specialized /\ (a.modes["range"] # "auto" \/ r) /\ launcher.keysRange
                      THEN {"range"} ELSE {}
<1>5. /\ shown.kind = "tensor" => got = [type |-> Pointer(shown.dtype), desc |-> divisible \union small]
      /\ (shown.kind = "int" /\ specialized /\ shown.n = 1) => got = [type |-> Constexpr, desc |-> {}]
      /\ (shown.kind = "int" /\ ~(specialized /\ shown.n = 1)) =>
           got = [type |-> InferType(DecodeInt(shown.n)), desc |-> divisible]
      /\ shown.kind = "bool" => got = [type |-> BoolType, desc |-> {}]
      /\ shown.kind = "float" => got = [type |-> Float(32), desc |-> {}]
      /\ shown.kind = "none" => got = [type |-> Constexpr, desc |-> {}]
  BY DEF SpecializeImpl
<1> HIDE DEF got
<1>6. effective = t /\ (Fixed(a) => given = t) /\ (~Fixed(a) => given = NoneType /\ shown = v)
  <2>1. CASE Fixed(a)
    BY <2>1
  <2>2. CASE ~Fixed(a)
    <3>1. shown = v /\ Infers(v, t) /\ given = NoneType
      BY <1>3, <2>2
    <3> HIDE DEF shown, divisible, small, specialized
    <3>2. CASE v.kind = "tensor"
      BY <3>1, <3>2, <2>2, <1>4, <1>5 DEF Infers
    <3>3. CASE v.kind = "int" /\ specialized /\ v.n = 1
      <4>1. got.type = Constexpr /\ t = Signed(32)
        BY <3>1, <3>3, <1>5 DEF Infers
      <4> QED BY <4>1, <3>1, <3>3, <2>2
    <3>4. CASE v.kind = "int" /\ ~(specialized /\ v.n = 1)
      BY <3>1, <3>4, <2>2, <1>4, <1>5 DEF Infers
    <3>5. CASE v.kind \in {"bool", "float"}
      BY <3>1, <3>5, <2>2, <1>4, <1>5 DEF Infers
    <3>6. CASE v.kind = "none"
      BY <3>1, <3>6, <2>2, <1>5 DEF Infers
    <3> QED BY <3>1, <3>2, <3>3, <3>4, <3>5, <3>6 DEF Infers
  <2> QED BY <2>1, <2>2
<1>7. folds <=> IsOne(a, t, d)
  <2> HIDE DEF given, effective
  <2>1. folds <=> /\ "one" \in Applicable(t)
                  /\ \/ a.modes["one"] = "assume"
                     \/ a.modes["one"] = "auto" /\ v.kind \in {"int", "bool"} /\ v.n = 1
    BY <1>6
  <2> HIDE DEF folds
  <2> QED BY <2>1, <1>2, <1>3 DEF IsOne, Reads
<1>8. ASSUME ~folds PROVE facts = {fact \in {"aligned", "range"} \intersect Applicable(t) : KeyedFact(a, t, d, fact)}
  <2>1. ~assumedOne
    BY <1>3, <1>6, <1>8
  <2>2. ASSUME NEW fact \in {"aligned", "range"} \intersect Applicable(t), a.modes[fact] = "auto"
        PROVE  infers /\ specialized
    <3>1. fact \in Facts
      BY DEF Facts
    <3>2. Fixed(a) => IsAuto(a, given, fact)
      BY <1>6, <2>2 DEF IsAuto
    <3> QED BY <2>1, <2>2, <3>1, <3>2
  <2>6. ASSUME t.cls = "pointer"
        PROVE  shown.kind = "tensor" /\ (shown.n % Divisor = 0 <=> d.bits % Divisor = 0)
    <3>1. CASE v.kind = "tensor"
      <4>1. ~IsNull(v)
        BY <3>1 DEF IsNull
      <4>2. shown = v /\ d.bits = v.n
        BY <4>1, <3>1, <2>6 DEF Reads
      <4> QED BY <4>2, <3>1
    <3>2. CASE v.kind # "tensor"
      <4>1. IsNull(v) /\ d.bits = 0
        BY <3>2, <2>6 DEF Reads
      <4>2. Fixed(a)
        <5>1. Infers(v, t) => t.cls # "pointer"
          <6>1. ASSUME v.kind = "int", t = InferType(DecodeInt(v.n)) PROVE t.cls # "pointer"
            <7>1. DecodeInt(v.n).kind # "tensor"
              BY DEF DecodeInt, Decoded, Refused
            <7> QED BY <6>1, <7>1 DEF InferType, Signed, Unsigned, BoolType, Float, NoneType, Type
          <6> QED BY <6>1, <3>2 DEF Infers, BoolType, Float, NoneType, Type
        <5> QED BY <5>1, <2>6
      <4>3. shown = MockTensor(given)
        BY <4>1, <4>2, <1>6, <2>6
      <4> HIDE DEF shown
      <4> QED BY <4>1, <4>3 DEF MockTensor
    <3> QED BY <3>1, <3>2
  <2>3. ASSUME "aligned" \in Applicable(t), a.modes["aligned"] = "auto"
        PROVE  (infers /\ "aligned" \in got.desc) <=> AlignedCode(a, t, d)
    <3>1. infers /\ specialized
      BY <2>2, <2>3
    <3>2. AlignedCode(a, t, d) <=> d.bits % Divisor = 0 /\ (IsTyped(a) => d.kind # "bool")
      BY <1>3, <2>3 DEF AlignedCode
    <3> HIDE DEF infers, specialized
    <3>3. CASE IsInteger(t)
      <4>1. shown = v
        <5>1. given.cls # "pointer"
          <6>1. given \in {t, NoneType}
            BY <1>6
          <6> HIDE DEF given
          <6> QED BY <6>1, <1>3, <3>3 DEF IsInteger
        <5> QED BY <5>1
      <4>2. /\ v.kind \in {"int", "bool"} /\ (v.kind = "bool" <=> d.kind = "bool")
            /\ d.bits = 1 <=> v.n = 1
            /\ d.bits % Divisor = 0 <=> v.n % Divisor = 0
        BY <3>3 DEF Reads
      <4> HIDE DEF shown
      <4>3. CASE v.kind = "bool"
        <5>1. got.desc = {}
          BY <1>5, <4>1, <4>3
        <5>2. ~AlignedCode(a, t, d)
          BY <3>2, <3>3, <4>2, <4>3
        <5> QED BY <5>1, <5>2
      <4>4. CASE v.kind = "int" /\ v.n = 1
        <5>1. got.desc = {}
          BY <1>5, <4>1, <4>4, <3>1
        <5>2. 1 % Divisor # 0
          BY DivisorAssumption
        <5>3. v.n % Divisor # 0
          BY <5>2, <4>4
        <5> QED BY <5>1, <5>3, <3>2, <4>2
      <4>5. CASE v.kind = "int" /\ v.n # 1
        <5>1. got.desc = divisible
          <6>1. shown.kind = "int" /\ shown.n # 1
            BY <4>1, <4>5
          <6> HIDE DEF divisible, small
          <6> QED BY <1>5, <6>1
        <5>2. "aligned" \in divisible <=> v.n % Divisor = 0
          BY <2>3, <3>1, <4>1
        <5>3. d.kind # "bool"
          BY <4>2, <4>5
        <5> HIDE DEF divisible
        <5> QED BY <5>1, <5>2, <5>3, <3>1, <3>2, <4>2
      <4> QED BY <4>2, <4>3, <4>4, <4>5
    <3>4. CASE t.cls = "pointer"
      <4>1. IsTyped(a) => d.kind # "bool"
        <5>1. Fixed(a) => t = TheType(a)
          OBVIOUS
        <5>2. IsTyped(a) => Fixed(a) /\ TheType(a).cls # "pointer"
          <6>1. a.tritonTyped => OneType(a)
            BY DEF IsAnnotation
          <6>2. OneType(a) => ~Inferred(a)
            BY FS_EmptySet DEF OneType, Inferred
          <6> QED BY <6>1, <6>2 DEF IsTyped, Fixed
        <5> QED BY <5>1, <5>2, <3>4
      <4>2. shown.kind = "tensor" /\ (shown.n % Divisor = 0 <=> d.bits % Divisor = 0)
        BY <3>4, <2>6
      <4>3. got.desc = divisible \union small
        BY <1>5, <4>2
      <4>4. "aligned" \in divisible \union small <=> shown.n % Divisor = 0
        BY <2>3, <3>1
      <4> HIDE DEF divisible, small, shown
      <4> QED BY <4>1, <4>2, <4>3, <4>4, <3>1, <3>2
    <3> QED BY <2>3, <1>3, <3>3, <3>4
  <2>4. ASSUME "range" \in Applicable(t), a.modes["range"] = "auto"
        PROVE  (infers /\ "range" \in got.desc) <=> WithinCode(a, t, d)
    <3>1. infers /\ specialized /\ t.cls = "pointer"
      BY <1>3, <2>2, <2>4
    <3>2. got.desc = divisible \union small
      BY <1>5, <2>6, <3>1
    <3>3. "range" \in divisible \union small <=> r /\ launcher.keysRange
      BY <2>4, <3>1
    <3>4. WithinCode(a, t, d) <=> launcher.keysRange /\ d.within
      BY <2>4, <3>1 DEF WithinCode
    <3>5. launcher.keysRange => r = (v.kind # "tensor" \/ w)
      BY <2>4
    <3>6. d.within = (v.kind # "tensor" \/ w)
      BY <3>1 DEF Reads
    <3> HIDE DEF divisible, small, infers, shown
    <3> QED BY <3>1, <3>2, <3>3, <3>4, <3>5, <3>6
  <2>5. ASSUME NEW fact \in {"aligned", "range"} \intersect Applicable(t)
        PROVE  (a.modes[fact] = "assume" \/ (a.modes[fact] = "auto" /\ infers /\ fact \in got.desc))
                 <=> KeyedFact(a, t, d, fact)
    <3> HIDE DEF infers
    <3>1. CASE fact = "aligned"
      <4>1. AlignedCode(a, t, d) => a.modes["aligned"] = "auto"
        BY DEF AlignedCode
      <4> QED BY <3>1, <4>1, <2>3 DEF KeyedFact
    <3>2. CASE fact = "range"
      <4>1. WithinCode(a, t, d) => a.modes["range"] = "auto"
        BY DEF WithinCode
      <4> QED BY <3>2, <4>1, <2>4 DEF KeyedFact
    <3> QED BY <3>1, <3>2
  <2> HIDE DEF infers, effective
  <2> QED BY <2>5, <1>6
<1> HIDE DEF effective, folds, facts
<1>9. CASE IsOne(a, t, d)
  BY <1>1, <1>7, <1>9 DEF KeyedInput
<1>10. CASE ~IsOne(a, t, d) /\ t = NoneType
  <2>1. v.kind = "none" /\ v.n = 0
    BY <1>3, <1>10 DEF Reads
  <2> QED BY <2>1, <1>1, <1>6, <1>7, <1>10 DEF KeyedInput
<1>11. CASE ~IsOne(a, t, d) /\ t # NoneType
  BY <1>1, <1>6, <1>7, <1>8, <1>11 DEF KeyedInput
<1> QED BY <1>9, <1>10, <1>11

(* A fixed type is the one that is declared. *)
LEMMA TheTypeIs ==
  ASSUME NEW a, Fixed(a)
  PROVE  TheType(a) \in a.types
  BY DEF Fixed, Inferred, TheType

(* A Triton-typed parameter has one type, which is no pointer. *)
LEMMA TypedIsFixed ==
  ASSUME NEW a, IsAnnotation(a), IsTyped(a)
  PROVE  Fixed(a) /\ a.kind = "argument" /\ a.how = "public" /\ TheType(a).cls # "pointer"
<1>1. a.tritonTyped => OneType(a) /\ a.kind = "argument"
  BY DEF IsAnnotation
<1>2. OneType(a) => ~Inferred(a)
  BY FS_EmptySet DEF OneType, Inferred
<1> QED BY <1>1, <1>2 DEF IsTyped, Fixed

(* An argument's type is fixed or inferred. *)
LEMMA ArgumentTypeOf ==
  ASSUME NEW a, a.kind = "argument", NEW d
  PROVE  TypeOf(a, d) = IF Fixed(a) THEN TheType(a) ELSE InferType(d)
  BY DEF TypeOf, Fixed

(* The type that is inferred is the one that Triton infers. *)
LEMMA InferTells ==
  ASSUME NEW a, IsAnnotation(a), a.kind = "argument", ~IsTyped(a),
         NEW v, IsValue(v), NEW w \in BOOLEAN, NEW d, d = Decode(a, v, w), d.kind # "refused"
  PROVE  /\ InferType(d) \in ArgumentTypes /\ Infers(v, InferType(d))
         /\ d.kind = "bool" => ~IsInteger(InferType(d))
<1> DEFINE t == InferType(d)
<1>1. CASE v.kind = "tensor"
  <2>1. d = [kind |-> "tensor", bits |-> v.n, dtype |-> v.dtype, within |-> w]
    BY <1>1 DEF Decode, DecodeTensor
  <2>2. d.kind = "tensor" /\ d.dtype = v.dtype /\ v.dtype \in 0 .. 31
    BY <2>1 DEF IsValue
  <2>3. t = Pointer(v.dtype)
    BY <2>2 DEF InferType
  <2> QED BY <1>1, <2>2, <2>3 DEF ArgumentTypes, Infers
<1>2. CASE v.kind # "tensor"
  <2>1. d = DecodeScalar(v)
    <3>1. Decode(a, v, w) = IF a.tensorOnly /\ ~(a.noneOk /\ v.kind = "none") THEN Refused ELSE DecodeScalar(v)
      BY <1>2 DEF Decode
    <3> QED BY <3>1 DEF Refused, Decoded
  <2>2. /\ IsScalar(d) /\ d.kind # "object" /\ v.kind \in {"int", "bool", "float", "none"}
        /\ v.kind = "int" => d = DecodeInt(v.n)
    BY <2>1, ScalarTells
  <2>3. CASE v.kind = "int"
    <3>1. /\ v.n \in Int /\ d.kind \in {"i64", "u64"}
          /\ \/ d.kind = "i64" /\ AsSigned(d.bits) = v.n
             \/ d.kind = "u64" /\ v.n \in Half .. Two64 - 1
      <4>1. v.n \in Int
        BY DEF IsValue
      <4>2. DecodeInt(v.n).kind # "refused"
        BY <2>2, <2>3
      <4> QED BY <4>1, <4>2, <2>2, <2>3, DecodedInt
    <3>2. v.n = 1 => t = Signed(32)
      <4> SUFFICES ASSUME v.n = 1 PROVE t = Signed(32)
        OBVIOUS
      <4>1. d.kind = "i64" /\ AsSigned(d.bits) = 1
        BY <3>1, HalfFacts
      <4>2. Size(32) \in Nat /\ Size(32) >= 4 /\ Size(32) % 2 = 0
        BY SizeFacts
      <4>3. 1 \in -(Size(32) \div 2) .. Size(32) \div 2 - 1
        BY <4>2
      <4> QED BY <4>1, <4>3 DEF InferType
    <3>3. t \in {Signed(32), Signed(64), Unsigned(64)}
      BY <3>1 DEF InferType
    <3>4. t \in ArgumentTypes
      BY <3>3 DEF ArgumentTypes, ConstexprTypes
    <3> QED BY <2>2, <2>3, <3>1, <3>2, <3>4 DEF Infers
  <2>4. CASE v.kind = "none"
    <3>1. d.kind = "none"
      BY <2>1, <2>4 DEF DecodeScalar, Decoded
    <3>2. t = NoneType
      BY <3>1 DEF InferType
    <3> QED BY <2>4, <3>1, <3>2 DEF Infers, ArgumentTypes, ConstexprTypes
  <2>5. CASE v.kind = "bool"
    <3>1. d.kind = "bool"
      BY <2>1, <2>5 DEF DecodeScalar, Decoded
    <3>2. t = BoolType
      BY <3>1 DEF InferType
    <3>3. ~IsInteger(t)
      BY <3>2 DEF IsInteger, BoolType, Type
    <3> QED BY <2>5, <3>2, <3>3 DEF Infers, ArgumentTypes, ConstexprTypes
  <2>6. CASE v.kind = "float"
    <3>1. d.kind = "fp64"
      BY <2>1, <2>6 DEF DecodeScalar, Decoded
    <3>2. t = Float(32)
      BY <3>1 DEF InferType
    <3> QED BY <2>6, <3>1, <3>2 DEF Infers, ArgumentTypes
  <2> QED BY <2>2, <2>3, <2>4, <2>5, <2>6
<1> QED BY <1>1, <1>2

RangeAgrees(a, v, w, r) ==
  (a.modes["range"] = "auto" /\ launcher.keysRange) => r = (v.kind # "tensor" \/ w)

(* What a miss compiles of an argument follows from what the call's code   *)
(* says of it.                                                             *)
LEMMA InputOfArgument ==
  ASSUME NEW a, IsAnnotation(a), a.kind = "argument", a.how = "public",
         NEW v, IsValue(v), NEW w \in BOOLEAN, NEW r \in BOOLEAN, RangeAgrees(a, v, w, r),
         launcher.keysRange \in BOOLEAN,
         NEW d, d = Decode(a, v, w), Accepts(a, d)
  PROVE  /\ TypeOf(a, d) \in ArgumentTypes /\ Reads(v, w, TypeOf(a, d), d)
         /\ ArgumentInput(a, v, r) = KeyedInput(a, TypeOf(a, d), d)
<1>1. d # Refused /\ Checks(a, d)
  BY DEF Accepts
<1>2. a.types \subseteq ArgumentTypes
  BY DEF IsAnnotation
<1>3. d.kind # "refused"
  <2>1. CASE IsTyped(a)
    <3>1. d = DecodeTyped(a, v)
      BY <2>1 DEF Decode
    <3>2. v.n \in Int
      BY DEF IsValue
    <3>3. DecodeInt(v.n).kind = "refused" => DecodeInt(v.n) = Refused
      BY DEF DecodeInt, Decoded
    <3>4. CASE TheType(a).cls = "float"
      BY <3>1, <3>4, <1>1 DEF DecodeTyped, DecodeTypedFloat, Decoded, Refused
    <3>5. CASE TheType(a).cls # "float"
      BY <3>1, <3>3, <3>5, <1>1 DEF DecodeTyped, DecodeTypedInt, Decoded
    <3> QED BY <3>4, <3>5
  <2>2. CASE ~IsTyped(a)
    <3>1. d = DecodeScalar(v) \/ d = DecodeTensor(v, w)
      BY <1>1, <2>2 DEF Decode
    <3>2. DecodeInt(v.n).kind = "refused" => DecodeInt(v.n) = Refused
      BY DEF DecodeInt, Decoded
    <3>3. CASE d = DecodeScalar(v)
      BY <3>2, <3>3, <1>1 DEF DecodeScalar, Decoded, Refused
    <3>4. CASE d = DecodeTensor(v, w)
      BY <3>4 DEF DecodeTensor
    <3> QED BY <3>1, <3>3, <3>4
  <2> QED BY <2>1, <2>2
<1> DEFINE t == TypeOf(a, d)
<1>4. t = IF Fixed(a) THEN TheType(a) ELSE InferType(d)
  BY ArgumentTypeOf
<1> HIDE DEF t
<1>5. /\ t \in ArgumentTypes /\ Reads(v, w, t, d)
      /\ IsInteger(t) /\ d.kind = "bool" => IsTyped(a)
      /\ IF Fixed(a) THEN t = TheType(a) ELSE Infers(v, t)
  <2>1. CASE IsTyped(a)
    <3>1. Fixed(a) /\ TheType(a) \in ArgumentTypes
      BY <1>2, <2>1, TypedIsFixed, TheTypeIs
    <3>2. d = DecodeTyped(a, v)
      BY <2>1 DEF Decode
    <3>3. Reads(v, w, TheType(a), d)
      BY <1>3, <2>1, <3>2, TypedReads
    <3> QED BY <1>4, <2>1, <3>1, <3>3
  <2>2. CASE ~IsTyped(a) /\ Fixed(a)
    <3>1. TheType(a) \in a.types /\ TypeValid(TheType(a), d)
      <4>1. TheType(a) \in a.types /\ a.types # {} /\ OneType(a)
        BY <2>2, TheTypeIs DEF Fixed, Inferred
      <4> QED BY <4>1, <1>1, <2>2 DEF Checks
    <3>2. t = TheType(a) /\ t \in ArgumentTypes /\ TypeValid(t, d)
      BY <1>2, <1>4, <2>2, <3>1
    <3>3. Reads(v, w, t, d)
      BY <1>3, <2>2, <3>2, UntypedReads
    <3>4. IsInteger(t) => d.kind # "bool"
      BY <3>2 DEF IsInteger, TypeValid
    <3> QED BY <2>2, <3>2, <3>3, <3>4
  <2>3. CASE ~Fixed(a)
    <3>1. ~IsTyped(a)
      BY <2>3, TypedIsFixed
    <3>2. t = InferType(d)
      BY <1>4, <2>3
    <3>3. InferType(d) \in ArgumentTypes /\ Infers(v, InferType(d)) /\ (d.kind = "bool" => ~IsInteger(InferType(d)))
      BY <3>1, <1>3, InferTells
    <3>4. Reads(v, w, t, d)
      BY <3>1, <3>2, <1>3, UntypedReads
    <3> QED BY <2>3, <3>2, <3>3, <3>4
  <2> QED BY <2>1, <2>2, <2>3
<1>6. ArgumentInput(a, v, r) = KeyedInput(a, t, d)
  BY <1>5, InputOfReads DEF RangeAgrees
<1> QED BY <1>5, <1>6 DEF t

(* The codes of an argument's types: a pointer's leaves two bits, an       *)
(* integer's one.                                                          *)
LEMMA ArgumentTypeCodes ==
  ASSUME NEW t \in ArgumentTypes
  PROVE  \/ t.cls = "pointer" /\ ~IsInteger(t) /\ \E dtype \in 0 .. 31 : t = Pointer(dtype) /\ TypeCode(t) = 4 * dtype
         \/ IsInteger(t) /\ t.cls # "pointer"
            /\ \E n \in {0, 1, 2, 8, 9, 10, 11, 12} : TypeCode(t) = 128 + 2 * n
         \/ ~IsInteger(t) /\ t.cls # "pointer" /\ TypeCode(t) \in {134, 135, 136, 143}
<1>1. CASE t \in {NoneType, BoolType, Float(32), Float(64)}
  <2>1. ~IsInteger(t) /\ t.cls # "pointer"
    BY <1>1 DEF NoneType, BoolType, Float, Type, IsInteger
  <2> QED BY <1>1, <2>1, OtherCodes
<1>2. ASSUME NEW bits \in {8, 16, 32, 64}, t = Signed(bits) \/ t = Unsigned(bits)
      PROVE  IsInteger(t) /\ t.cls # "pointer"
             /\ \E n \in {0, 1, 2, 8, 9, 10, 11, 12} : TypeCode(t) = 128 + 2 * n
  <2>1. IsInteger(t) /\ t.cls # "pointer"
    BY <1>2 DEF Signed, Unsigned, Type, IsInteger
  <2>2. TypeCode(t) \in {144, 148, 128, 130, 146, 150, 152, 132}
    BY <1>2, IntegerCodes
  <2> DEFINE c == TypeCode(t)
  <2>3. c \in {144, 148, 128, 130, 146, 150, 152, 132}
    BY <2>2
  <2> HIDE DEF c
  <2>4. \E n \in {0, 1, 2, 8, 9, 10, 11, 12} : c = 128 + 2 * n
    BY <2>3
  <2> QED BY <2>1, <2>4 DEF c
<1>3. ASSUME NEW dtype \in 0 .. 31, t = Pointer(dtype)
      PROVE  t.cls = "pointer" /\ ~IsInteger(t) /\ TypeCode(t) = 4 * dtype
  BY <1>3, OtherCodes DEF Pointer, Type, IsInteger
<1> QED BY <1>1, <1>2, <1>3 DEF ArgumentTypes, ConstexprTypes

(* No two types of arguments share a code. *)
LEMMA IntegerTypeCodes ==
  ASSUME NEW t \in ArgumentTypes, NEW u \in ArgumentTypes, TypeCode(t) = TypeCode(u)
  PROVE  t = u
<1>1. CASE t.cls = "pointer"
  <2>1. PICK m \in 0 .. 31 : t = Pointer(m) /\ TypeCode(t) = 4 * m
    BY <1>1, ArgumentTypeCodes
  <2>2. TypeCode(u) < 128
    BY <2>1
  <2>3. PICK n \in 0 .. 31 : u = Pointer(n) /\ TypeCode(u) = 4 * n
    BY <2>2, ArgumentTypeCodes
  <2>4. m = n
    BY <2>1, <2>3
  <2> QED BY <2>1, <2>3, <2>4
<1>2. CASE u.cls = "pointer"
  <2>1. PICK m \in 0 .. 31 : u = Pointer(m) /\ TypeCode(u) = 4 * m
    BY <1>2, ArgumentTypeCodes
  <2>2. TypeCode(t) < 128
    BY <2>1
  <2>3. PICK n \in 0 .. 31 : t = Pointer(n) /\ TypeCode(t) = 4 * n
    BY <2>2, ArgumentTypeCodes
  <2>4. m = n
    BY <2>1, <2>3
  <2> QED BY <2>1, <2>3, <2>4
<1>3. CASE t.cls # "pointer" /\ u.cls # "pointer"
  <2>1. \A s \in ArgumentTypes : s.cls # "pointer" => s \in ConstexprTypes \union {Float(32)}
    BY DEF ArgumentTypes, Pointer, Type
  <2>2. TypeCode(Float(32)) = 134
    BY OtherCodes
  <2>3. \A s \in ConstexprTypes : TypeCode(s) # 134
    BY OtherCodes, IntegerCodes DEF ConstexprTypes
  <2>4. CASE t = Float(32)
    BY <1>3, <2>1, <2>2, <2>3, <2>4
  <2>5. CASE u = Float(32)
    BY <1>3, <2>1, <2>2, <2>3, <2>5
  <2>6. CASE t \in ConstexprTypes /\ u \in ConstexprTypes
    BY <2>6, ConstexprTypeCodes
  <2> QED BY <1>3, <2>1, <2>4, <2>5, <2>6
<1> QED BY <1>1, <1>2, <1>3

(* A code is a type's, with a bit for each fact. *)
Coded(t, al, wi, c) ==
  /\ c = TypeCode(t) + (IF al THEN (IF t.cls = "pointer" THEN 2 ELSE 1) ELSE 0) + (IF wi THEN 1 ELSE 0)
  /\ al => t.cls = "pointer" \/ IsInteger(t)
  /\ wi => t.cls = "pointer"

(* An argument's code is its type's, with its facts. *)
LEMMA ArgumentCodeIs ==
  ASSUME NEW a, NEW t \in ArgumentTypes, NEW d, ~IsOne(a, t, d)
  PROVE  /\ AlignedCode(a, t, d) \in BOOLEAN /\ WithinCode(a, t, d) \in BOOLEAN
         /\ Coded(t, AlignedCode(a, t, d), WithinCode(a, t, d), ArgumentCode(a, t, d))
<1> DEFINE al == AlignedCode(a, t, d)
           wi == WithinCode(a, t, d)
           c == TypeCode(t)
           b == IF ~al THEN c ELSE SetBit(c, IF t.cls = "pointer" THEN 2 ELSE 1)
<1>1. ArgumentCode(a, t, d) = IF wi THEN SetBit(b, 1) ELSE b
  BY DEF ArgumentCode
<1>2. /\ al => t.cls = "pointer" \/ IsInteger(t)
      /\ wi => t.cls = "pointer"
      /\ al \in BOOLEAN /\ wi \in BOOLEAN
  BY DEF AlignedCode, WithinCode
<1> HIDE DEF al, wi
<1>3. CASE t.cls = "pointer"
  <2>1. PICK m \in 0 .. 31 : c = 4 * m
    BY <1>3, ArgumentTypeCodes
  <2>2. SetBit(4 * m, 2) = 4 * m + 2 /\ SetBit(4 * m, 1) = 4 * m + 1 /\ SetBit(4 * m + 2, 1) = 4 * m + 3
    BY DEF SetBit
  <2> HIDE DEF c
  <2>3. b = IF al THEN 4 * m + 2 ELSE 4 * m
    BY <1>3, <2>1, <2>2
  <2> HIDE DEF b
  <2>4. ArgumentCode(a, t, d) = IF wi THEN (IF al THEN 4 * m + 3 ELSE 4 * m + 1) ELSE b
    BY <1>1, <2>2, <2>3
  <2>5. ArgumentCode(a, t, d) = c + (IF al THEN (IF t.cls = "pointer" THEN 2 ELSE 1) ELSE 0) + (IF wi THEN 1 ELSE 0)
    BY <1>3, <2>1, <2>3, <2>4
  <2> QED BY <1>2, <2>5 DEF Coded, al, wi, c
<1>4. CASE IsInteger(t) /\ t.cls # "pointer"
  <2>1. PICK n \in {0, 1, 2, 8, 9, 10, 11, 12} : c = 128 + 2 * n
    BY <1>4, ArgumentTypeCodes
  <2>2. SetBit(128 + 2 * n, 1) = 128 + 2 * n + 1
    BY DEF SetBit
  <2> HIDE DEF c
  <2>3. b = IF al THEN c + 1 ELSE c
    BY <1>4, <2>1, <2>2
  <2> HIDE DEF b
  <2>4. ArgumentCode(a, t, d) = c + (IF al THEN (IF t.cls = "pointer" THEN 2 ELSE 1) ELSE 0) + (IF wi THEN 1 ELSE 0)
    BY <1>1, <1>2, <1>4, <2>1, <2>3
  <2> QED BY <1>2, <2>4 DEF Coded, al, wi, c
<1>5. CASE ~IsInteger(t) /\ t.cls # "pointer"
  <2>1. c \in Int
    BY <1>5, ArgumentTypeCodes
  <2> HIDE DEF c
  <2>2. ArgumentCode(a, t, d) = c + (IF al THEN (IF t.cls = "pointer" THEN 2 ELSE 1) ELSE 0) + (IF wi THEN 1 ELSE 0)
    BY <1>1, <1>2, <1>5, <2>1
  <2> QED BY <1>2, <2>2 DEF Coded, al, wi, c
<1> QED BY <1>3, <1>4, <1>5

(* The lowest bit of an integer's code is free. *)
LEMMA EvenCodes ==
  ASSUME NEW m \in Int, NEW n \in Int, NEW p \in {0, 1}, NEW q \in {0, 1},
         128 + 2 * m + p = 128 + 2 * n + q
  PROVE  m = n /\ p = q
<1>1. CASE p = 0 /\ q = 1
  <2>1. 2 * m = 2 * n + 1
    BY <1>1
  <2> QED BY <2>1
<1>2. CASE p = 1 /\ q = 0
  <2>1. 2 * n = 2 * m + 1
    BY <1>2
  <2> QED BY <2>1
<1> QED BY <1>1, <1>2

(* The code tells the type and the facts. *)
LEMMA CodesDistinct ==
  ASSUME NEW t \in ArgumentTypes, NEW al \in BOOLEAN, NEW wi \in BOOLEAN, NEW c,
         NEW u \in ArgumentTypes, NEW al2 \in BOOLEAN, NEW wi2 \in BOOLEAN, NEW c2,
         Coded(t, al, wi, c), Coded(u, al2, wi2, c2)
  PROVE  c # One /\ (c = c2 => t = u /\ al = al2 /\ wi = wi2)
<1> DEFINE x == TypeCode(t)
           y == TypeCode(u)
           pt == t.cls = "pointer"
           pu == u.cls = "pointer"
           it == IsInteger(t)
           iu == IsInteger(u)
<1>1. \/ pt /\ ~it /\ \E m \in 0 .. 31 : x = 4 * m
      \/ it /\ ~pt /\ \E n \in {0, 1, 2, 8, 9, 10, 11, 12} : x = 128 + 2 * n
      \/ ~it /\ ~pt /\ x \in {134, 135, 136, 143}
  BY ArgumentTypeCodes
<1>2. \/ pu /\ ~iu /\ \E m \in 0 .. 31 : y = 4 * m
      \/ iu /\ ~pu /\ \E n \in {0, 1, 2, 8, 9, 10, 11, 12} : y = 128 + 2 * n
      \/ ~iu /\ ~pu /\ y \in {134, 135, 136, 143}
  BY ArgumentTypeCodes
<1>3. /\ c = x + (IF al THEN (IF pt THEN 2 ELSE 1) ELSE 0) + (IF wi THEN 1 ELSE 0)
      /\ c2 = y + (IF al2 THEN (IF pu THEN 2 ELSE 1) ELSE 0) + (IF wi2 THEN 1 ELSE 0)
      /\ (al => pt \/ it) /\ (wi => pt) /\ (al2 => pu \/ iu) /\ (wi2 => pu)
  BY DEF Coded
<1>4. x = y => t = u
  BY IntegerTypeCodes
<1> HIDE DEF x, y, pt, pu, it, iu
<1>5. c # 137
  <2>1. CASE pt
    BY <1>1, <1>3, <2>1
  <2>2. CASE it
    BY <1>1, <1>3, <2>2
  <2>3. CASE ~pt /\ ~it
    BY <1>1, <1>3, <2>3
  <2> QED BY <2>1, <2>2, <2>3
<1>6. ASSUME c = c2 PROVE x = y /\ al = al2 /\ wi = wi2
  <2>1. CASE pt
    <3>1. PICK m \in 0 .. 31 : x = 4 * m
      BY <1>1, <2>1
    <3>2. c \in 4 * m .. 4 * m + 3
      BY <1>3, <2>1, <3>1
    <3>3. c2 < 128
      BY <1>6, <3>2
    <3>4. pu
      BY <1>2, <1>3, <3>3
    <3>5. PICK n \in 0 .. 31 : y = 4 * n
      BY <1>2, <3>4
    <3> QED BY <1>3, <1>6, <2>1, <3>1, <3>4, <3>5
  <2>2. CASE it /\ ~pt
    <3>1. PICK m \in {0, 1, 2, 8, 9, 10, 11, 12} : x = 128 + 2 * m
      BY <1>1, <2>2
    <3>2. c = 128 + 2 * m + (IF al THEN 1 ELSE 0) /\ ~wi
      BY <1>3, <2>2, <3>1
    <3>3. c \notin {134, 135, 136, 143} /\ c >= 128
      BY <3>1, <3>2
    <3>4. iu /\ ~pu
      BY <1>2, <1>3, <1>6, <3>3
    <3>5. PICK n \in {0, 1, 2, 8, 9, 10, 11, 12} : y = 128 + 2 * n
      BY <1>2, <3>4
    <3>6. c2 = 128 + 2 * n + (IF al2 THEN 1 ELSE 0) /\ ~wi2
      BY <1>3, <3>4, <3>5
    <3> DEFINE p == IF al THEN 1 ELSE 0
               q == IF al2 THEN 1 ELSE 0
    <3>7. /\ m \in Int /\ n \in Int /\ p \in {0, 1} /\ q \in {0, 1}
          /\ c = 128 + 2 * m + p /\ c2 = 128 + 2 * n + q
      BY <3>2, <3>6
    <3> HIDE DEF p, q
    <3>8. m = n /\ p = q
      <4>1. 128 + 2 * m + p = 128 + 2 * n + q
        BY <1>6, <3>7, Zenon
      <4> QED BY <3>7, <4>1, EvenCodes
    <3>9. al = al2
      BY <3>8 DEF p, q
    <3> QED BY <3>1, <3>2, <3>5, <3>6, <3>8, <3>9
  <2>3. CASE ~pt /\ ~it
    <3>1. c = x /\ c \in {134, 135, 136, 143} /\ ~al /\ ~wi
      BY <1>1, <1>3, <2>3
    <3>2. ~pu
      BY <1>2, <1>3, <1>6, <3>1
    <3>3. ~iu
      BY <1>2, <1>3, <1>6, <3>1, <3>2
    <3> QED BY <1>2, <1>3, <1>6, <3>1, <3>2, <3>3
  <2> QED BY <2>1, <2>2, <2>3
<1> QED BY <1>4, <1>5, <1>6 DEF One

(* An argument that calls pass has one compiler input for each code; if it *)
(* is not coded, one.                                                      *)
LEMMA CodeTells ==
  ASSUME NEW a, a.kind = "argument", NEW d, NEW e,
         TypeOf(a, d) \in ArgumentTypes, TypeOf(a, e) \in ArgumentTypes,
         HasDescriptor(a) => ArgumentCode(a, TypeOf(a, d), d) = ArgumentCode(a, TypeOf(a, e), e)
  PROVE  KeyedInput(a, TypeOf(a, d), d) = KeyedInput(a, TypeOf(a, e), e)
<1> DEFINE t == TypeOf(a, d)
           u == TypeOf(a, e)
<1>1. CASE HasDescriptor(a)
  <2> DEFINE c == ArgumentCode(a, t, d)
             c2 == ArgumentCode(a, u, e)
  <2>1. c = c2 /\ t \in ArgumentTypes /\ u \in ArgumentTypes
    BY <1>1
  <2> SUFFICES KeyedInput(a, t, d) = KeyedInput(a, u, e)
    OBVIOUS
  <2> HIDE DEF t, u
  <2>2. /\ IsOne(a, t, d) => c = One
        /\ IsOne(a, u, e) => c2 = One
    BY DEF ArgumentCode
  <2>3. ASSUME NEW s \in ArgumentTypes, NEW x, ~IsOne(a, s, x)
        PROVE  ArgumentCode(a, s, x) # One
    <3>1. /\ AlignedCode(a, s, x) \in BOOLEAN /\ WithinCode(a, s, x) \in BOOLEAN
          /\ Coded(s, AlignedCode(a, s, x), WithinCode(a, s, x), ArgumentCode(a, s, x))
      BY <2>3, ArgumentCodeIs
    <3> QED BY <3>1, CodesDistinct
  <2>4. IsOne(a, t, d) <=> IsOne(a, u, e)
    BY <2>1, <2>2, <2>3
  <2>5. CASE IsOne(a, t, d)
    BY <2>4, <2>5 DEF KeyedInput
  <2>6. CASE ~IsOne(a, t, d)
    <3> DEFINE al == AlignedCode(a, t, d)
               wi == WithinCode(a, t, d)
               al2 == AlignedCode(a, u, e)
               wi2 == WithinCode(a, u, e)
    <3>1. al \in BOOLEAN /\ wi \in BOOLEAN /\ Coded(t, al, wi, c)
      BY <2>1, <2>6, ArgumentCodeIs
    <3>2. al2 \in BOOLEAN /\ wi2 \in BOOLEAN /\ Coded(u, al2, wi2, c2)
      BY <2>1, <2>4, <2>6, ArgumentCodeIs
    <3> HIDE DEF al, wi, al2, wi2, c, c2
    <3>4. t = u /\ al = al2 /\ wi = wi2
      BY <2>1, <3>1, <3>2, CodesDistinct
    <3>5. ASSUME NEW fact PROVE KeyedFact(a, t, d, fact) <=> KeyedFact(a, u, e, fact)
      BY <3>4 DEF KeyedFact, al, wi, al2, wi2
    <3>6. {fact \in {"aligned", "range"} \intersect Applicable(t) : KeyedFact(a, t, d, fact)}
            = {fact \in {"aligned", "range"} \intersect Applicable(u) : KeyedFact(a, u, e, fact)}
      BY <3>4, <3>5
    <3> QED BY <2>4, <2>6, <3>4, <3>6 DEF KeyedInput
  <2> QED BY <2>5, <2>6
<1>2. CASE ~HasDescriptor(a)
  <2>1. Fixed(a) /\ \A s \in a.types, fact \in Facts : ~IsAuto(a, s, fact)
    BY <1>2 DEF HasDescriptor, Fixed
  <2>2. t = TheType(a) /\ u = TheType(a)
    BY <2>1, ArgumentTypeOf
  <2>3. TheType(a) \in a.types
    BY <2>1, TheTypeIs
  <2> HIDE DEF t, u
  <2>4. \A fact \in Facts : fact \in Applicable(t) => a.modes[fact] # "auto"
    BY <2>1, <2>2, <2>3 DEF IsAuto
  <2>5. IsOne(a, t, d) <=> IsOne(a, u, e)
    <3>1. IsInteger(t) => "one" \in Applicable(t) /\ "one" \in Facts
      BY DEF Applicable, Facts, IsInteger
    <3> QED BY <2>2, <2>4, <3>1 DEF IsOne
  <2>6. ASSUME NEW fact \in {"aligned", "range"} \intersect Applicable(t)
        PROVE  KeyedFact(a, t, d, fact) <=> KeyedFact(a, u, e, fact)
    <3>1. a.modes[fact] # "auto"
      BY <2>4 DEF Facts
    <3> QED BY <3>1, <2>2 DEF KeyedFact, AlignedCode, WithinCode
  <2>7. {fact \in {"aligned", "range"} \intersect Applicable(t) : KeyedFact(a, t, d, fact)}
          = {fact \in {"aligned", "range"} \intersect Applicable(u) : KeyedFact(a, u, e, fact)}
    BY <2>2, <2>6
  <2>8. KeyedInput(a, t, d) = KeyedInput(a, u, e)
    BY <2>2, <2>5, <2>7 DEF KeyedInput
  <2> QED BY <2>8 DEF t, u
<1> QED BY <1>1, <1>2

(* A value that the packing of a parameter accepted, and the range that    *)
(* its compile is shown.                                                   *)
Packs(a, v, w, r) ==
  /\ w \in BOOLEAN /\ r \in BOOLEAN /\ RangeAgrees(a, v, w, r)
  /\ v.kind # "tensor" => r = TRUE
  /\ ~Skipped(a) => /\ Accepts(a, Decode(a, v, w))
                    /\ ~(a.exactKey /\ Decode(a, v, w).kind = "tensor")

DecodedSame(a, v, w, v2, w2) ==
  \A f \in CacheKeyFields(a) : Content(f, a, Decode(a, v, w)) = Content(f, a, Decode(a, v2, w2))

(* What is accepted was decoded. *)
LEMMA AcceptedKind ==
  ASSUME NEW a, NEW v, IsValue(v), NEW w, Decode(a, v, w) # Refused
  PROVE  /\ Decode(a, v, w).kind \in {"tensor", "i64", "u64", "bool", "fp64", "none", "object"}
         /\ (Decode(a, v, w).kind # "tensor" /\ ~IsTyped(a)) =>
              IsScalar(Decode(a, v, w)) /\ ValueOf(Decode(a, v, w)) = <<v.kind, v.n>>
<1> DEFINE d == Decode(a, v, w)
<1>1. /\ DecodeInt(v.n) = Refused \/ DecodeInt(v.n).kind \in {"i64", "u64"}
  BY DEF DecodeInt, Decoded
<1>2. DecodeScalar(v) = Refused \/ DecodeScalar(v).kind \in {"i64", "u64", "bool", "fp64", "none"}
  BY <1>1 DEF DecodeScalar, Decoded
<1>3. CASE d = DecodeScalar(v)
  <2>1. d.kind \in {"i64", "u64", "bool", "fp64", "none"}
    BY <1>2, <1>3
  <2>2. IsScalar(d) /\ ValueOf(d) = <<v.kind, v.n>>
    BY <1>3, <2>1, ScalarTells
  <2> QED BY <2>1, <2>2
<1>4. CASE a.kind = "argument" /\ IsTyped(a)
  <2>1. d = DecodeTyped(a, v)
    BY <1>4 DEF Decode
  <2>2. DecodeTypedFloat(v) = Refused \/ DecodeTypedFloat(v).kind = "fp64"
    BY DEF DecodeTypedFloat, Decoded
  <2>3. DecodeTypedInt(TheType(a), v) = Refused \/ DecodeTypedInt(TheType(a), v).kind \in {"bool", "u64", "i64"}
    BY <1>1 DEF DecodeTypedInt, Decoded
  <2>4. d.kind \in {"fp64", "bool", "u64", "i64"}
    BY <2>1, <2>2, <2>3 DEF DecodeTyped
  <2> QED BY <1>4, <2>4
<1>5. CASE d = DecodeTensor(v, w)
  BY <1>5 DEF DecodeTensor
<1>6. CASE a.kind # "argument"
  <2>1. d = Decoded("object", v.n) \/ d = DecodeScalar(v)
    BY <1>6 DEF Decode
  <2>2. d.kind # "refused"
    BY <1>2, <2>1 DEF Decoded
  <2>3. IsScalar(d) /\ ValueOf(d) = <<v.kind, v.n>>
    BY <1>6, <2>2, UntypedTells
  <2> QED BY <2>3 DEF IsScalar
<1>7. CASE a.kind = "argument" /\ ~IsTyped(a)
  BY <1>3, <1>5, <1>7 DEF Decode
<1> QED BY <1>4, <1>6, <1>7

(* What is keyed exactly. *)
LEMMA ExactTells ==
  ASSUME NEW a, NEW d, NEW e, \A f \in ExactFields : Content(f, a, d) = Content(f, a, e),
         d.kind \in {"tensor", "i64", "u64", "bool", "fp64", "none", "object"},
         e.kind \in {"tensor", "i64", "u64", "bool", "fp64", "none", "object"}
  PROVE  SameDecoded(d, e)
<1> DEFINE kind == [kind |-> "exact_kind", width |-> 1]
           bits == [kind |-> "exact", width |-> 8]
<1>1. Content(kind, a, d) = Content(kind, a, e) /\ Content(bits, a, d) = Content(bits, a, e)
  BY DEF ExactFields
<1>2. ValueKind[d.kind] = ValueKind[e.kind]
  BY <1>1 DEF Content
<1>3. d.bits = e.bits
  BY <1>1 DEF Content
<1>4. d.kind = e.kind
  BY <1>2 DEF ValueKind
<1> QED BY <1>3, <1>4 DEF SameDecoded

(* A call's argument is known, as far as the compile goes, from its fields. *)
LEMMA ArgumentTells ==
  ASSUME NEW a, IsAnnotation(a), a.kind = "argument", a.how = "public",
         launcher.keysRange \in BOOLEAN,
         NEW v, IsValue(v), NEW w, NEW r, Packs(a, v, w, r),
         NEW v2, IsValue(v2), NEW w2, NEW r2, Packs(a, v2, w2, r2),
         DecodedSame(a, v, w, v2, w2)
  PROVE  /\ ArgumentInput(a, v, r) = ArgumentInput(a, v2, r2)
         /\ ExactValue(a, v) = ExactValue(a, v2)
<1> DEFINE d == Decode(a, v, w)
           e == Decode(a, v2, w2)
<1>1. /\ w \in BOOLEAN /\ r \in BOOLEAN /\ RangeAgrees(a, v, w, r) /\ Accepts(a, d)
      /\ w2 \in BOOLEAN /\ r2 \in BOOLEAN /\ RangeAgrees(a, v2, w2, r2) /\ Accepts(a, e)
      /\ ~(a.exactKey /\ d.kind = "tensor") /\ ~(a.exactKey /\ e.kind = "tensor")
  BY DEF Packs, Skipped
<1>2. CacheKeyFields(a) = ArgumentFields(a)
  BY DEF CacheKeyFields
<1>3. TypeOf(a, d) \in ArgumentTypes /\ ArgumentInput(a, v, r) = KeyedInput(a, TypeOf(a, d), d)
  BY <1>1, InputOfArgument
<1>4. TypeOf(a, e) \in ArgumentTypes /\ ArgumentInput(a, v2, r2) = KeyedInput(a, TypeOf(a, e), e)
  BY <1>1, InputOfArgument
<1>5. \A f \in ArgumentFields(a) : Content(f, a, d) = Content(f, a, e)
  BY <1>2 DEF DecodedSame
<1>6. HasDescriptor(a) => ArgumentCode(a, TypeOf(a, d), d) = ArgumentCode(a, TypeOf(a, e), e)
  <2> SUFFICES ASSUME HasDescriptor(a)
               PROVE  ArgumentCode(a, TypeOf(a, d), d) = ArgumentCode(a, TypeOf(a, e), e)
    OBVIOUS
  <2> DEFINE desc == [kind |-> "descriptor", width |-> 1]
  <2> HIDE DEF d, e
  <2>1. Content(desc, a, d) = Content(desc, a, e)
    BY <1>5 DEF ArgumentFields
  <2> QED BY <2>1 DEF Content
<1>7. KeyedInput(a, TypeOf(a, d), d) = KeyedInput(a, TypeOf(a, e), e)
  BY <1>3, <1>4, <1>6, CodeTells
<1>8. ExactValue(a, v) = ExactValue(a, v2)
  <2>1. CASE ~a.exactKey
    <3>1. ExactValue(a, v) = <<>> /\ ExactValue(a, v2) = <<>>
      BY <2>1 DEF ExactValue
    <3> QED BY <3>1
  <2>2. CASE a.exactKey
    <3>1. d # Refused /\ e # Refused
      BY <1>1 DEF Accepts
    <3>2. /\ d.kind \in {"tensor", "i64", "u64", "bool", "fp64", "none", "object"}
          /\ e.kind \in {"tensor", "i64", "u64", "bool", "fp64", "none", "object"}
          /\ ~IsTyped(a) => ValueOf(d) = <<v.kind, v.n>> /\ ValueOf(e) = <<v2.kind, v2.n>>
      BY <1>1, <2>2, <3>1, AcceptedKind
    <3>3. \A f \in ExactFields : Content(f, a, d) = Content(f, a, e)
      BY <1>5, <2>2 DEF ArgumentFields
    <3>4. SameDecoded(d, e)
      <4> HIDE DEF d, e
      <4> QED BY <3>2, <3>3, ExactTells
    <3>5. CASE IsTyped(a)
      <4>1. d = DecodeTyped(a, v) /\ e = DecodeTyped(a, v2)
        BY <3>5 DEF Decode
      <4> QED BY <2>2, <3>4, <3>5, <4>1 DEF ExactValue, SameDecoded
    <3>6. CASE ~IsTyped(a)
      <4> HIDE DEF d, e
      <4>1. ValueOf(d) = ValueOf(e)
        BY <3>4 DEF ValueOf, SameDecoded
      <4>2. <<v.kind, v.n>> = <<v2.kind, v2.n>>
        BY <3>2, <3>6, <4>1
      <4> QED BY <2>2, <3>6, <4>2 DEF ExactValue
    <3> QED BY <3>5, <3>6
  <2> QED BY <2>1, <2>2
<1> QED BY <1>3, <1>4, <1>7, <1>8

(* A bound parameter compiles to one input. *)
BoundAs(a) ==
  LET t == TheType(a) IN
  IF "one" \in Applicable(t) /\ a.modes["one"] = "assume"
    THEN [type |-> Constexpr, const |-> <<"int", 1>>, attrs |-> {}]
  ELSE IF t = NoneType
    THEN [type |-> Constexpr, const |-> <<None.kind, None.n>>, attrs |-> {}]
  ELSE [type |-> t, const |-> <<>>,
        attrs |-> {fact \in {"aligned", "range"} \intersect Applicable(t) : a.modes[fact] = "assume"}]

(* Its facts are all settled: neither the call's range nor its value       *)
(* matters.                                                                *)
LEMMA BoundInput ==
  ASSUME NEW a, a.kind = "argument", OneType(a),
         \A t \in a.types, fact \in Facts : ~IsAuto(a, t, fact),
         NEW r
  PROVE  ArgumentInput(a, None, r) = BoundAs(a)
<1>1. ~Inferred(a)
  BY FS_EmptySet DEF OneType, Inferred
<1>2. TheType(a) \in a.types
  BY <1>1, TheTypeIs DEF Fixed
<1>3. ~\E fact \in Facts : IsAuto(a, TheType(a), fact)
  BY <1>2
<1> DEFINE t == TheType(a)
           folds == "one" \in Applicable(t) /\ a.modes["one"] = "assume"
           facts == {fact \in {"aligned", "range"} \intersect Applicable(t) : a.modes[fact] = "assume"}
<1>4. ArgumentInput(a, None, r) =
        IF folds THEN [type |-> Constexpr, const |-> <<"int", 1>>, attrs |-> {}]
        ELSE IF t = NoneType
          THEN [type |-> Constexpr, const |-> <<None.kind, None.n>>, attrs |-> {}]
        ELSE [type |-> t, const |-> <<>>, attrs |-> facts]
  <2>1. None.kind \notin {"int", "bool"}
    BY DEF None
  <2> HIDE DEF t
  <2> DEFINE assumedOne == a.modes["one"] = "assume" /\ "one" \in Applicable(t)
             shown == IF t.cls = "pointer" /\ IsNull(None) THEN MockTensor(t) ELSE None
             got == SpecializeImpl(shown, \E fact \in Facts : a.modes[fact] = "auto",
                                   a.modes["aligned"] = "auto", a.modes["range"] # "auto" \/ r)
             infers == ~assumedOne /\ (~(~Inferred(a) /\ OneType(a)) \/ \E fact \in Facts : IsAuto(a, t, fact))
             folds2 == /\ "one" \in Applicable(t)
                       /\ \/ a.modes["one"] = "assume"
                          \/ a.modes["one"] = "auto" /\ None.kind \in {"int", "bool"} /\ None.n = 1
             facts2 == {fact \in {"aligned", "range"} \intersect Applicable(t) :
                          \/ a.modes[fact] = "assume"
                          \/ a.modes[fact] = "auto" /\ infers /\ fact \in got.desc}
  <2>2. ArgumentInput(a, None, r) =
          IF folds2 THEN [type |-> Constexpr, const |-> <<"int", 1>>, attrs |-> {}]
          ELSE IF t = NoneType
            THEN [type |-> Constexpr, const |-> <<None.kind, None.n>>, attrs |-> {}]
          ELSE [type |-> t, const |-> <<>>, attrs |-> facts2]
    BY <1>1 DEF ArgumentInput, t
  <2>3. ~infers
    BY <1>1, <1>3 DEF t
  <2>4. folds2 <=> folds
    BY <2>1
  <2> HIDE DEF infers
  <2>5. facts2 = facts
    BY <2>3
  <2> HIDE DEF folds, folds2, facts, facts2
  <2> QED BY <2>2, <2>4, <2>5
<1> QED BY <1>4 DEF BoundAs

ParamSame(a, v, r, v2, r2) ==
  /\ ParamInput(a, v, r) = ParamInput(a, v2, r2)
  /\ ExactValue(a, v) = ExactValue(a, v2)
  /\ a.kind \in {"constexpr", "dynamic"} => v.kind = v2.kind /\ v.n = v2.n

(* Every parameter is.                                                     *)
LEMMA ParamTells ==
  ASSUME NEW a, IsAnnotation(a), a.how \in {"public", "baked", "tensor", "pointer"},
         a.kind = "dynamic" => a.how = "public", launcher.keysRange \in BOOLEAN,
         NEW v, NEW w, NEW r, Packs(a, v, w, r),
         NEW v2, NEW w2, NEW r2, Packs(a, v2, w2, r2),
         IF a.how = "public" THEN IsValue(v) /\ IsValue(v2) ELSE v = v2 /\ v = a.value,
         DecodedSame(a, v, w, v2, w2)
  PROVE  ParamSame(a, v, r, v2, r2)
<1> DEFINE d == Decode(a, v, w)
           e == Decode(a, v2, w2)
<1>1. CASE a.how # "public"
  <2>1. /\ v = v2 /\ a.kind # "dynamic" /\ a.kind \in {"argument", "constexpr"}
        /\ a.how \in {"tensor", "pointer"} => a.kind = "argument"
    BY <1>1 DEF IsAnnotation
  <2>2. CASE a.kind = "constexpr"
    <3>1. ParamInput(a, v, r) = ParamInput(a, v2, r2)
      <4> HIDE DEF d, e
      <4> QED BY <2>1, <2>2 DEF ParamInput
    <3>2. ExactValue(a, v) = ExactValue(a, v2)
      <4> HIDE DEF d, e
      <4> QED BY <2>1
    <3> QED BY <2>1, <3>1, <3>2 DEF ParamSame
  <2>3. CASE a.kind = "argument" /\ a.how \in {"tensor", "pointer"}
    <3>1. OneType(a) /\ \A t \in a.types, fact \in Facts : ~IsAuto(a, t, fact)
      BY <1>1, <2>3 DEF IsAnnotation
    <3>2. ArgumentInput(a, None, r) = ArgumentInput(a, None, r2)
      BY <2>3, <3>1, BoundInput
    <3> QED BY <2>1, <2>3, <3>2 DEF ParamSame, ParamInput
  <2>4. CASE a.kind = "argument" /\ a.how = "baked"
    <3>1. v.kind # "tensor" /\ v2.kind # "tensor"
      BY <1>1, <2>1, <2>4 DEF IsAnnotation
    <3>2. r = r2
      BY <3>1 DEF Packs
    <3> QED BY <2>1, <2>4, <3>2 DEF ParamSame, ParamInput
  <2> QED BY <1>1, <2>1, <2>2, <2>3, <2>4
<1>2. CASE a.how = "public" /\ a.kind = "argument"
  <2>1. ArgumentInput(a, v, r) = ArgumentInput(a, v2, r2) /\ ExactValue(a, v) = ExactValue(a, v2)
    BY <1>2, ArgumentTells
  <2> QED BY <1>2, <2>1 DEF ParamSame, ParamInput
<1>3. CASE a.how = "public" /\ a.kind \in {"constexpr", "dynamic"}
  <2>1. /\ IsValue(v) /\ IsValue(v2) /\ Accepts(a, d) /\ Accepts(a, e)
    BY <1>3 DEF Packs, Skipped
  <2>2. d # Refused /\ e # Refused
    BY <2>1 DEF Accepts
  <2>3. d.kind # "refused" /\ e.kind # "refused"
    BY <2>1, <2>2, AcceptedKind
  <2>4. /\ IsScalar(d) /\ ValueOf(d) = <<v.kind, v.n>>
        /\ IsScalar(e) /\ ValueOf(e) = <<v2.kind, v2.n>>
    BY <1>3, <2>1, <2>3, UntypedTells
  <2>5. \A f \in CacheKeyFields(a) : Content(f, a, d) = Content(f, a, e)
    BY DEF DecodedSame
  <2> HIDE DEF d, e
  <2>6. SameDecoded(d, e)
    <3>1. CASE a.kind = "constexpr"
      <4>1. Checks(a, d) /\ Checks(a, e)
        BY <1>3, <2>1, <3>1 DEF Accepts
      <4>2. \A f \in ConstexprFields(a) : Content(f, a, d) = Content(f, a, e)
        BY <1>3, <2>5, <3>1 DEF CacheKeyFields
      <4> QED BY <2>4, <3>1, <4>1, <4>2, ConstexprTells
    <3>2. CASE a.kind = "dynamic"
      <4>1. \A f \in ExactFields : Content(f, a, d) = Content(f, a, e)
        BY <2>5, <3>2 DEF CacheKeyFields
      <4>2. /\ d.kind \in {"tensor", "i64", "u64", "bool", "fp64", "none", "object"}
            /\ e.kind \in {"tensor", "i64", "u64", "bool", "fp64", "none", "object"}
        BY <2>4 DEF IsScalar
      <4> QED BY <4>1, <4>2, ExactTells
    <3> QED BY <1>3, <3>1, <3>2
  <2>7. ValueOf(d) = ValueOf(e)
    BY <2>6 DEF ValueOf, SameDecoded
  <2>8. v.kind = v2.kind /\ v.n = v2.n
    BY <2>4, <2>7
  <2>9. ~IsTyped(a)
    BY <1>3 DEF IsTyped, IsAnnotation
  <2>10. ParamInput(a, v, r) = ParamInput(a, v2, r2)
    BY <1>3, <2>8 DEF ParamInput
  <2>11. ExactValue(a, v) = ExactValue(a, v2)
    BY <2>8, <2>9 DEF ExactValue
  <2> QED BY <2>8, <2>10, <2>11 DEF ParamSame
<1> QED BY <1>1, <1>2, <1>3 DEF IsAnnotation

-----------------------------------------------------------------------------
(* What a call has packed *)

(* A parameter that was packed, and the range that was read of it.         *)
WasPacked(a, v, w) ==
  /\ w \in BOOLEAN /\ (v.kind # "tensor" => w = TRUE)
  /\ (a.modes["range"] = "auto" /\ launcher.keysRange) => w \in Answers(a, v)
  /\ ~Skipped(a) => /\ Accepts(a, Decode(a, v, w))
                    /\ ~(a.exactKey /\ Decode(a, v, w).kind = "tensor")
ParamPacked(c, i) == WasPacked(Param(i), Passed(c, i), c.within[i])

(* The key of what is packed, field by field.                              *)
FieldContent(c, f) ==
  Content(f, Param(f.param), Decode(Param(f.param), Passed(c, f.param), c.within[f.param]))
FieldsUpTo(n) == {f \in Fields(launcher) : f.param <= n}
KeyUpTo(c, n) == {<<offset[f], FieldContent(c, f)>> : f \in FieldsUpTo(n)}
DeviceKey(c) == IF launcher.fixedDevice THEN {} ELSE {<<deviceAt, c.dev % DeviceCount>>}
KeyOf(c) == KeyUpTo(c, Len(launcher.params)) \union DeviceKey(c)

(* The slots that vals has: of a set S of parameters, in their order, each *)
(* with its value in f.                                                    *)
Slot(a, d) == IF Pushes(a, d) THEN <<PackValue(TypeOf(a, d), d.bits)>> ELSE <<>>
Slotted(vals, S, f) ==
  /\ Tuple(vals, Cardinality(S))
  /\ \A k \in 1 .. Cardinality(S) :
       \E i \in S : k = Cardinality({j \in S : j < i}) + 1 /\ vals[k] = f[i]
ParamDecoded(c, i) == Decode(Param(i), Passed(c, i), c.within[i])
SlotsUpTo(c, n) == {i \in 1 .. n : Pushes(Param(i), ParamDecoded(c, i))}
SlotValue(c, i) == PackValue(TypeOf(Param(i), ParamDecoded(c, i)), ParamDecoded(c, i).bits)
SlotValues(c, n) == [i \in 1 .. n |-> SlotValue(c, i)]
CallSlots(c) ==
  Slotted(c.vals, SlotsUpTo(c, Len(c.within)), SlotValues(c, Len(c.within)))

(* A call that packed all its parameters. *)
Packings ==
  [args : Arguments(launcher), dev : CallDevices, within : [DOMAIN launcher.params -> BOOLEAN]]
PackedCall(c) ==
  /\ c.args \in Arguments(launcher) /\ c.dev \in CallDevices
  /\ ~launcher.fixedDevice => c.dev < DeviceCount
  /\ \A i \in DOMAIN launcher.params : ParamPacked(c, i)

(* A record is what one such call under its key compiled to.               *)
CompiledBy(c, again, key, record) ==
  /\ PackedCall(c) /\ key = KeyOf(c) /\ record = Compiled(c, again)
  /\ \A i \in DOMAIN again : again[i] \in Answers(Param(i), Passed(c, i))
CompiledFor(key, record) ==
  \E c \in Packings, again \in [DOMAIN launcher.params -> BOOLEAN] :
    CompiledBy(c, again, key, record)

CacheInv == \A key \in DOMAIN cache : Placed /\ CompiledFor(key, cache[key])

CallTyped(c) ==
  /\ c = [pc |-> c.pc, args |-> c.args, dev |-> c.dev,
          key |-> c.key, vals |-> c.vals, within |-> c.within]
  /\ c.pc \in {"pack", "walk", "launch"} /\ Placed
  /\ c.args \in Arguments(launcher) /\ c.dev \in CallDevices
  /\ ~launcher.fixedDevice => c.dev < DeviceCount
  /\ c.within \in Seq(BOOLEAN) /\ Len(c.within) <= Len(launcher.params)

CallKeyed(c) ==
  /\ \A i \in 1 .. Len(c.within) : ParamPacked(c, i)
  /\ c.pc = "pack" => c.key = KeyUpTo(c, Len(c.within))
  /\ c.pc # "pack" => Len(c.within) = Len(launcher.params) /\ c.key = KeyOf(c)

CallRight(c) == CallTyped(c) /\ CallKeyed(c) /\ CallSlots(c)

CallInv ==
  call # Idle =>
    CallRight(call) /\ (call.pc = "launch" => call.key \in DOMAIN cache)

HitInv == LayoutInv /\ CallInv /\ CacheInv

-----------------------------------------------------------------------------
(* What equal keys tell *)

(* The range that a compile is shown is the one that was packed, or, where *)
(* the key has none, any.                                                  *)
LEMMA ShownPacks ==
  ASSUME NEW a, NEW v, NEW w, WasPacked(a, v, w), NEW again \in BOOLEAN, again \in Answers(a, v)
  PROVE  /\ Packs(a, v, w, w)
         /\ Packs(a, v, w, IF a.ptrRange /\ a.modes["range"] = "auto" /\ launcher.keysRange
                             THEN w ELSE again)
<1>1. Packs(a, v, w, w)
  BY DEF WasPacked, Packs, RangeAgrees
<1>2. v.kind # "tensor" => again = TRUE /\ w = TRUE
  BY DEF WasPacked, Answers
<1>3. RangeAgrees(a, v, w, again) \/ (a.ptrRange /\ a.modes["range"] = "auto" /\ launcher.keysRange)
  <2>1. CASE ~a.ptrRange /\ a.modes["range"] = "auto" /\ launcher.keysRange /\ v.kind = "tensor"
    <3>1. Answers(a, v) = {v.small}
      BY <2>1 DEF Answers
    <3>2. w = v.small /\ again = v.small
      BY <2>1, <3>1 DEF WasPacked
    <3> QED BY <2>1, <3>2 DEF RangeAgrees
  <2>2. CASE v.kind # "tensor"
    BY <1>2, <2>2 DEF RangeAgrees
  <2>3. CASE ~(a.modes["range"] = "auto" /\ launcher.keysRange)
    BY <2>3 DEF RangeAgrees
  <2> QED BY <2>1, <2>2, <2>3
<1>4. Packs(a, v, w, again) \/ (a.ptrRange /\ a.modes["range"] = "auto" /\ launcher.keysRange)
  BY <1>2, <1>3 DEF WasPacked, Packs
<1> QED BY <1>1, <1>4

(* A field's content is its parameter's.                                   *)
LEMMA ContentOf ==
  ASSUME NEW f, NEW g, f.kind = g.kind, f.width = g.width
  PROVE  \A a, d : Content(f, a, d) = Content(g, a, d)
  BY DEF Content

(* A launcher's parameters and fields. *)
LEMMA FieldsOf ==
  ASSUME launcher \in Launchers
  PROVE  /\ DOMAIN launcher.params = 1 .. Len(launcher.params) /\ Len(launcher.params) \in Nat
         /\ \A f \in Fields(launcher) : f.param \in DOMAIN launcher.params
         /\ \A i \in DOMAIN launcher.params : \A g \in CacheKeyFields(Param(i)) :
              [param |-> i, kind |-> g.kind, width |-> g.width] \in Fields(launcher)
         /\ FieldsUpTo(Len(launcher.params)) = Fields(launcher)
<1>1. DOMAIN launcher.params = 1 .. Len(launcher.params) /\ Len(launcher.params) \in Nat
  BY CallsTyped
<1>2. \A f \in Fields(launcher) : f.param \in DOMAIN launcher.params
  BY DEF Fields
<1>3. \A i \in DOMAIN launcher.params : \A g \in CacheKeyFields(Param(i)) :
        [param |-> i, kind |-> g.kind, width |-> g.width] \in Fields(launcher)
  BY DEF Fields, Param
<1>4. FieldsUpTo(Len(launcher.params)) = Fields(launcher)
  BY <1>1, <1>2 DEF FieldsUpTo
<1> QED BY <1>1, <1>2, <1>3, <1>4

(* Equal keys have equal fields, and the same device: no field has the     *)
(* place of another, or of the device.                                     *)
LEMMA KeyTells ==
  ASSUME LayoutInv, Placed, NEW c, NEW e, KeyOf(c) = KeyOf(e)
  PROVE  /\ \A f \in Fields(launcher) : FieldContent(c, f) = FieldContent(e, f)
         /\ ~launcher.fixedDevice => c.dev % DeviceCount = e.dev % DeviceCount
<1>1. launcher \in Launchers /\ todo = {}
  BY DEF LayoutInv, LayoutTypes, Placed
<1>2. FieldsUpTo(Len(launcher.params)) = Fields(launcher)
  BY <1>1, FieldsOf
<1>3. \A f \in Fields(launcher) : f.width \in Widths /\ offset[f] \in Int
  BY <1>1, FieldWidths DEF LayoutInv, LayoutTypes
<1>4. \A f, g \in Fields(launcher) : offset[f] = offset[g] => f = g
  <2> SUFFICES ASSUME NEW f \in Fields(launcher), NEW g \in Fields(launcher), offset[f] = offset[g], f # g
               PROVE  FALSE
    OBVIOUS
  <2>1. offset[f] + f.width <= offset[g] \/ offset[g] + g.width <= offset[f]
    BY <1>1 DEF LayoutInv, PlacedApart
  <2> QED BY <2>1, <1>3 DEF Widths
<1>5. ~launcher.fixedDevice => deviceAt \in Int /\ \A f \in Fields(launcher) : offset[f] # deviceAt
  <2> SUFFICES ASSUME ~launcher.fixedDevice, NEW f \in Fields(launcher)
               PROVE  deviceAt \in Int /\ offset[f] # deviceAt
    BY DEF LayoutInv, LayoutTypes
  <2>1. deviceAt \in Int /\ offset[f] + f.width <= deviceAt
    BY DEF LayoutInv, LayoutTypes, Placed, DeviceApart
  <2> QED BY <2>1, <1>3 DEF Widths
<1>6. ASSUME NEW x
      PROVE  x \in KeyOf(e) => \/ \E g \in Fields(launcher) : x = <<offset[g], FieldContent(e, g)>>
                               \/ ~launcher.fixedDevice /\ x = <<deviceAt, e.dev % DeviceCount>>
  BY <1>2 DEF KeyOf, KeyUpTo, DeviceKey
<1>7. ASSUME NEW f \in Fields(launcher) PROVE FieldContent(c, f) = FieldContent(e, f)
  <2> DEFINE x == <<offset[f], FieldContent(c, f)>>
  <2>1. x \in KeyOf(c)
    BY <1>2, <1>7 DEF KeyOf, KeyUpTo
  <2>2. ~(~launcher.fixedDevice /\ x = <<deviceAt, e.dev % DeviceCount>>)
    BY <1>5, <1>7
  <2>3. PICK g \in Fields(launcher) : x = <<offset[g], FieldContent(e, g)>>
    BY <1>6, <2>1, <2>2
  <2>4. offset[f] = offset[g] /\ FieldContent(c, f) = FieldContent(e, g)
    BY <2>3
  <2> QED BY <1>4, <1>7, <2>4
<1>8. ASSUME ~launcher.fixedDevice PROVE c.dev % DeviceCount = e.dev % DeviceCount
  <2> DEFINE x == <<deviceAt, c.dev % DeviceCount>>
  <2>1. x \in KeyOf(c)
    BY <1>8 DEF KeyOf, DeviceKey
  <2>2. \A g \in Fields(launcher) : x # <<offset[g], FieldContent(e, g)>>
    BY <1>5, <1>8
  <2>3. x = <<deviceAt, e.dev % DeviceCount>>
    BY <1>6, <2>1, <2>2
  <2> QED BY <2>3
<1> QED BY <1>7, <1>8

(* Two calls with one key pack each parameter alike. *)
LEMMA CallsTell ==
  ASSUME LayoutInv, Placed, NEW c, PackedCall(c), NEW e, PackedCall(e), KeyOf(c) = KeyOf(e),
         NEW i \in DOMAIN launcher.params,
         NEW r, Packs(Param(i), Passed(c, i), c.within[i], r),
         NEW s, Packs(Param(i), Passed(e, i), e.within[i], s)
  PROVE  ParamSame(Param(i), Passed(c, i), r, Passed(e, i), s)
<1> DEFINE a == Param(i)
           v == Passed(c, i)
           u == Passed(e, i)
<1>1. launcher \in Launchers
  BY DEF LayoutInv, LayoutTypes
<1>2. IsAnnotation(a) /\ launcher.keysRange \in BOOLEAN
  BY <1>1, AnnotationsTyped DEF Param
<1>3. a.how \in {"public", "baked", "tensor", "pointer"} /\ (a.kind = "dynamic" => a.how = "public")
  BY <1>1, CallsTyped DEF Param, IsDynamic
<1>4. IF a.how = "public" THEN IsValue(v) /\ IsValue(u) ELSE v = u /\ v = a.value
  <2>1. c.args \in Arguments(launcher) /\ e.args \in Arguments(launcher)
    BY DEF PackedCall
  <2>2. a.how = "public" => IsValue(c.args[i]) /\ IsValue(e.args[i])
    BY <1>1, <2>1, AnnotationsTyped DEF Param
  <2> QED BY <2>2 DEF Passed
<1>5. DecodedSame(a, v, c.within[i], u, e.within[i])
  <2> SUFFICES ASSUME NEW g \in CacheKeyFields(a)
               PROVE  Content(g, a, Decode(a, v, c.within[i])) = Content(g, a, Decode(a, u, e.within[i]))
    BY DEF DecodedSame
  <2> DEFINE f == [param |-> i, kind |-> g.kind, width |-> g.width]
  <2>1. f \in Fields(launcher) /\ f.param = i /\ f.kind = g.kind /\ f.width = g.width
    BY <1>1, FieldsOf
  <2> HIDE DEF f
  <2>2. FieldContent(c, f) = FieldContent(e, f)
    BY <2>1, KeyTells
  <2>3. Content(f, a, Decode(a, v, c.within[i])) = Content(f, a, Decode(a, u, e.within[i]))
    BY <2>1, <2>2 DEF FieldContent
  <2>4. \A b, d : Content(f, b, d) = Content(g, b, d)
    BY <2>1, ContentOf
  <2> HIDE DEF a, v, u
  <2> QED BY <2>3, <2>4
<1> HIDE DEF a, v, u
<1>6. Packs(a, v, c.within[i], r) /\ Packs(a, u, e.within[i], s)
  BY DEF a, v, u
<1>7. ParamSame(a, v, r, u, s)
  BY <1>2, <1>3, <1>4, <1>5, <1>6, ParamTells
<1> QED BY <1>7 DEF a, v, u

(* Options and knobs of the call are values of constexprs and dynamic      *)
(* values, so they are keyed.                                              *)
LEMMA SetsTell ==
  ASSUME NEW c, NEW e, NEW named,
         \A i \in named : Passed(c, i).kind = Passed(e, i).kind /\ Passed(c, i).n = Passed(e, i).n
  PROVE  CallSets(c, named) = CallSets(e, named)
<1>1. ASSUME NEW n \in {Param(i).name : i \in named}
      PROVE  Setter(launcher.params, named, n) \in named
  BY <1>1 DEF Setter, Param
<1> QED BY <1>1 DEF CallSets

(* A call compiles, at the range that it packed, to what any call with its *)
(* key compiles to at the range shown to it.                               *)
LEMMA CompiledSame ==
  ASSUME LayoutInv, Placed, NEW c, PackedCall(c), NEW e, PackedCall(e), KeyOf(c) = KeyOf(e),
         NEW again \in [DOMAIN launcher.params -> BOOLEAN],
         \A i \in DOMAIN launcher.params : again[i] \in Answers(Param(i), Passed(c, i))
  PROVE  /\ Compiled(c, again).input = Compiled(e, e.within).input
         /\ Compiled(c, again).exact = Compiled(e, e.within).exact
         /\ Compiled(c, again).options = Compiled(e, e.within).options
         /\ Compiled(c, again).knobs = Compiled(e, e.within).knobs
         /\ launcher.fixedDevice \/ Compiled(c, again).dev = Compiled(e, e.within).dev
<1>1. ASSUME NEW i \in DOMAIN launcher.params
      PROVE  ParamSame(Param(i), Passed(c, i), RangeShown(c, i, again),
                       Passed(e, i), RangeShown(e, i, e.within))
  <2>1. WasPacked(Param(i), Passed(c, i), c.within[i]) /\ WasPacked(Param(i), Passed(e, i), e.within[i])
    BY <1>1 DEF PackedCall, ParamPacked
  <2>2. Packs(Param(i), Passed(c, i), c.within[i], RangeShown(c, i, again))
    <3>1. again[i] \in BOOLEAN /\ again[i] \in Answers(Param(i), Passed(c, i))
      BY <1>1
    <3> DEFINE shown == IF Param(i).ptrRange /\ Param(i).modes["range"] = "auto" /\ launcher.keysRange
                          THEN c.within[i] ELSE again[i]
    <3>2. RangeShown(c, i, again) = shown
      BY DEF RangeShown
    <3>3. Packs(Param(i), Passed(c, i), c.within[i], shown)
      BY <2>1, <3>1, ShownPacks
    <3> QED BY <3>2, <3>3
  <2>3. RangeShown(e, i, e.within) = e.within[i]
    BY DEF RangeShown
  <2>4. Packs(Param(i), Passed(e, i), e.within[i], e.within[i])
    BY <2>1 DEF WasPacked, Packs, RangeAgrees
  <2> QED BY <1>1, <2>2, <2>3, <2>4, CallsTell
<1>2. ASSUME NEW i \in DOMAIN launcher.params
      PROVE  /\ ParamInput(Param(i), Passed(c, i), RangeShown(c, i, again))
                  = ParamInput(Param(i), Passed(e, i), RangeShown(e, i, e.within))
             /\ ExactValue(Param(i), Passed(c, i)) = ExactValue(Param(i), Passed(e, i))
             /\ Param(i).kind \in {"constexpr", "dynamic"} =>
                  Passed(c, i).kind = Passed(e, i).kind /\ Passed(c, i).n = Passed(e, i).n
  BY <1>1, <1>2 DEF ParamSame
<1>3. Compiled(c, again).input = Compiled(e, e.within).input
  <2>1. Compiled(c, again).input =
          [i \in DOMAIN launcher.params |-> ParamInput(Param(i), Passed(c, i), RangeShown(c, i, again))]
    BY DEF Compiled
  <2>2. Compiled(e, e.within).input =
          [i \in DOMAIN launcher.params |-> ParamInput(Param(i), Passed(e, i), RangeShown(e, i, e.within))]
    BY DEF Compiled
  <2> QED BY <1>2, <2>1, <2>2
<1>4. Compiled(c, again).exact = Compiled(e, e.within).exact
  <2>1. Compiled(c, again).exact =
          [i \in DOMAIN launcher.params |-> ExactValue(Param(i), Passed(c, i))]
    BY DEF Compiled
  <2>2. Compiled(e, e.within).exact =
          [i \in DOMAIN launcher.params |-> ExactValue(Param(i), Passed(e, i))]
    BY DEF Compiled
  <2> QED BY <1>2, <2>1, <2>2
<1>5. CallOptions(c) = CallOptions(e) /\ CallKnobs(c) = CallKnobs(e)
  <2> DEFINE options == {i \in DOMAIN launcher.params :
                           DynamicOption(Param(i)) \/ ParameterOption(Param(i))}
             knobs == {i \in DOMAIN launcher.params : DynamicKnob(Param(i))}
  <2>1. \A i \in options \union knobs :
          Passed(c, i).kind = Passed(e, i).kind /\ Passed(c, i).n = Passed(e, i).n
    BY <1>2 DEF DynamicOption, ParameterOption, DynamicKnob
  <2>2. CallOptions(c) = CallSets(c, options) /\ CallOptions(e) = CallSets(e, options)
    BY DEF CallOptions
  <2>3. CallKnobs(c) = CallSets(c, knobs) /\ CallKnobs(e) = CallSets(e, knobs)
    BY DEF CallKnobs
  <2> HIDE DEF options, knobs
  <2>4. CallSets(c, options) = CallSets(e, options) /\ CallSets(c, knobs) = CallSets(e, knobs)
    BY <2>1, SetsTell
  <2> QED BY <2>2, <2>3, <2>4
<1>6. CompileKnobs(c) = CompileKnobs(e)
  BY <1>5 DEF CompileKnobs
<1>7. /\ Compiled(c, again).options = Compiled(e, e.within).options
      /\ Compiled(c, again).knobs = Compiled(e, e.within).knobs
  BY <1>5, <1>6 DEF Compiled
<1>8. launcher.fixedDevice \/ Compiled(c, again).dev = Compiled(e, e.within).dev
  <2> SUFFICES ASSUME ~launcher.fixedDevice PROVE c.dev = e.dev
    BY DEF Compiled
  <2> DEFINE x == c.dev
             y == e.dev
  <2>1. x % DeviceCount = y % DeviceCount
    BY KeyTells
  <2>2. x \in Devices /\ y \in Devices /\ x < DeviceCount /\ y < DeviceCount
    BY DEF PackedCall, CallDevices
  <2>3. DeviceCount \in Nat /\ DeviceCount > 0 /\ x \in Nat /\ y \in Nat
    BY <2>2, DevicesAssumption
  <2> HIDE DEF x, y
  <2>4. x \in 0 .. 0 + DeviceCount - 1 /\ y \in 0 .. 0 + DeviceCount - 1
    BY <2>2, <2>3
  <2>5. x = y
    BY <2>1, <2>3, <2>4, WindowDistinct
  <2> QED BY <2>5 DEF x, y
<1> QED BY <1>3, <1>4, <1>7, <1>8

(* What the two facts say of a kernel that is found. *)
LEMMA FoundIsRight == HitInv => HitIsRight
<1> SUFFICES ASSUME HitInv, call.pc = "launch"
             PROVE  LET record == cache[call.key] IN
                    /\ record.input = Wanted.input /\ record.exact = Wanted.exact
                    /\ record.options = Wanted.options /\ record.knobs = Wanted.knobs
                    /\ launcher.fixedDevice \/ record.dev = Wanted.dev
  BY DEF HitIsRight
<1>1. call # Idle
  BY DEF Idle
<1>2. CallTyped(call) /\ CallKeyed(call) /\ call.key \in DOMAIN cache
  BY <1>1 DEF HitInv, CallInv, CallRight
<1>3. LayoutInv /\ launcher \in Launchers /\ Placed
  BY <1>2 DEF HitInv, LayoutInv, LayoutTypes, CallTyped
<1>4. PackedCall(call) /\ call.key = KeyOf(call)
  <2>1. DOMAIN launcher.params = 1 .. Len(launcher.params)
    BY <1>3, FieldsOf
  <2> QED BY <1>2, <2>1 DEF CallTyped, CallKeyed, PackedCall
<1>5. PICK c \in Packings, again \in [DOMAIN launcher.params -> BOOLEAN] :
        CompiledBy(c, again, call.key, cache[call.key])
  BY <1>2 DEF HitInv, CacheInv, CompiledFor
<1>6. /\ PackedCall(c) /\ call.key = KeyOf(c) /\ cache[call.key] = Compiled(c, again)
      /\ \A i \in DOMAIN launcher.params : again[i] \in Answers(Param(i), Passed(c, i))
  BY <1>5 DEF CompiledBy
<1>7. KeyOf(c) = KeyOf(call)
  BY <1>4, <1>6
<1>8. /\ Compiled(c, again).input = Wanted.input
      /\ Compiled(c, again).exact = Wanted.exact
      /\ Compiled(c, again).options = Wanted.options
      /\ Compiled(c, again).knobs = Wanted.knobs
      /\ launcher.fixedDevice \/ Compiled(c, again).dev = Wanted.dev
  <2>1. Wanted = Compiled(call, call.within)
    BY DEF Wanted
  <2> QED BY <1>3, <1>4, <1>6, <1>7, <2>1, CompiledSame
<1> QED BY <1>6, <1>8

-----------------------------------------------------------------------------
(* The auto path *)

(* What a parameter without annotation is. *)
LEMMA PlainIs ==
  ASSUME NEW a, IsAnnotation(a), Plain(a)
  PROVE  /\ a.kind \in {"argument", "constexpr"} /\ a.how = "public" /\ Inferred(a)
         /\ ~a.powerOfTwo /\ ~a.ptrRange /\ ~a.exactKey
         /\ a.modes["one"] = "auto" /\ a.modes["aligned"] = "auto" /\ a.modes["range"] = "auto"
         /\ ~IsTyped(a) /\ ~Fixed(a) /\ ~Skipped(a)
         /\ a.kind = "constexpr" =>
              CacheKeyFields(a) = {[kind |-> "descriptor", width |-> 1], [kind |-> "payload", width |-> 8]}
         /\ a.kind = "argument" => CacheKeyFields(a) = {[kind |-> "descriptor", width |-> 1]}
<1>1. /\ a.kind \in {"argument", "constexpr"} /\ a.how = "public" /\ Inferred(a)
      /\ ~a.powerOfTwo /\ ~a.ptrRange /\ ~a.exactKey
  BY DEF Plain, IsAnnotation
<1>2. a.modes["one"] = "auto" /\ a.modes["aligned"] = "auto" /\ a.modes["range"] = "auto"
  BY DEF Plain, Facts
<1>3. ~IsTyped(a) /\ ~Fixed(a)
  BY <1>1, TypedIsFixed DEF Fixed
<1>4. PayloadBytes(a) = 8
  BY <1>1 DEF PayloadBytes
<1>5. a.kind = "constexpr" =>
        CacheKeyFields(a) = {[kind |-> "descriptor", width |-> 1], [kind |-> "payload", width |-> 8]}
  BY <1>1, <1>4 DEF CacheKeyFields, ConstexprFields
<1>6. a.kind = "argument" => CacheKeyFields(a) = {[kind |-> "descriptor", width |-> 1]}
  BY <1>1 DEF CacheKeyFields, ArgumentFields, HasDescriptor
<1> QED BY <1>1, <1>2, <1>3, <1>5, <1>6 DEF Skipped

(* What the auto path accepts, the other would. *)
LEMMA AutoAccepted ==
  ASSUME NEW a, IsAnnotation(a), Plain(a), NEW v, IsValue(v), AutoAccepts(a, v), NEW w
  PROVE  /\ Accepts(a, Decode(a, v, w))
         /\ Decode(a, v, w) = IF v.kind = "tensor" THEN DecodeTensor(v, w)
                              ELSE IF v.kind = "object" THEN Decoded("object", v.n) ELSE DecodeScalar(v)
         /\ v.kind = "tensor" => a.kind = "argument"
         /\ v.kind = "object" => a.kind = "constexpr"
         /\ v.kind \notin {"tensor", "object"} => DecodeScalar(v).kind # "refused"
<1> DEFINE d == Decode(a, v, w)
<1>1. /\ a.kind \in {"argument", "constexpr"} /\ Inferred(a) /\ ~a.powerOfTwo /\ ~IsTyped(a)
      /\ a.modes["one"] = "auto" /\ a.modes["aligned"] = "auto" /\ a.modes["range"] = "auto"
  BY PlainIs
<1>2. TakesObjects(a) <=> a.kind = "constexpr"
  BY <1>1 DEF TakesObjects
<1>3. DecodeScalar(v) # Refused => DecodeScalar(v).kind # "refused"
  <2>1. DecodeInt(v.n) = Refused \/ DecodeInt(v.n).kind \in {"i64", "u64"}
    BY DEF DecodeInt, Decoded
  <2> QED BY <2>1 DEF DecodeScalar, Decoded, Refused
<1>4. v.kind = "none" => DecodeScalar(v) # Refused
  BY DEF DecodeScalar, Decoded, Refused
<1>5. /\ v.kind = "tensor" => a.kind = "argument"
      /\ v.kind = "object" => a.kind = "constexpr"
      /\ v.kind = "none" /\ a.tensorOnly => a.noneOk
      /\ v.kind \notin {"tensor", "object", "none"} => ~a.tensorOnly /\ DecodeScalar(v) # Refused
  BY DEF AutoAccepts
<1>6. CASE v.kind = "tensor"
  <2>1. d = DecodeTensor(v, w)
    BY <1>1, <1>5, <1>6 DEF Decode
  <2>2. d # Refused
    BY <2>1 DEF DecodeTensor, Refused, Decoded
  <2>3. Accepts(a, d)
    <3> HIDE DEF d
    <3> QED BY <1>1, <2>2 DEF Accepts, Checks, Inferred
  <2> QED BY <1>5, <1>6, <2>1, <2>3
<1>7. CASE v.kind = "object"
  <2>1. d = Decoded("object", v.n)
    BY <1>1, <1>2, <1>5, <1>7 DEF Decode
  <2>2. d # Refused
    BY <2>1 DEF Refused, Decoded
  <2>3. Accepts(a, d)
    <3> HIDE DEF d
    <3> QED BY <1>1, <2>2 DEF Accepts, Checks, Inferred
  <2> QED BY <1>5, <1>7, <2>1, <2>3
<1>8. CASE v.kind \notin {"tensor", "object"}
  <2>1. DecodeScalar(v) # Refused
    BY <1>4, <1>5, <1>8
  <2>2. d = DecodeScalar(v)
    <3>1. CASE a.kind = "constexpr"
      BY <1>8, <3>1 DEF Decode
    <3>2. CASE a.kind = "argument"
      <4>1. d = IF a.tensorOnly /\ ~(a.noneOk /\ v.kind = "none") THEN Refused ELSE DecodeScalar(v)
        BY <1>1, <1>8, <3>2 DEF Decode
      <4>2. ~(a.tensorOnly /\ ~(a.noneOk /\ v.kind = "none"))
        BY <1>5, <1>8
      <4> QED BY <4>1, <4>2
    <3> QED BY <1>1, <3>1, <3>2
  <2>3. Accepts(a, d)
    <3>1. d # Refused
      BY <2>1, <2>2
    <3> HIDE DEF d
    <3> QED BY <1>1, <3>1 DEF Accepts, Checks, Inferred
  <2> QED BY <1>3, <1>8, <2>1, <2>2, <2>3
<1> QED BY <1>6, <1>7, <1>8

(* It codes an argument alike. *)
LEMMA AutoCodes ==
  ASSUME NEW a, IsAnnotation(a), Plain(a), a.kind = "argument",
         NEW v, IsValue(v), AutoAccepts(a, v), launcher.keysRange \in BOOLEAN,
         NEW w, w = (v.kind # "tensor" \/ v.small), NEW d, d = Decode(a, v, w)
  PROVE  /\ ArgumentCode(a, TypeOf(a, d), d) = AutoCode(v)
         /\ IsOne(a, TypeOf(a, d), d) <=> v.kind = "int" /\ v.n = 1
<1> DEFINE t == TypeOf(a, d)
           al == AlignedCode(a, t, d)
           wi == WithinCode(a, t, d)
<1>1. /\ ~IsTyped(a) /\ ~Fixed(a)
      /\ a.modes["one"] = "auto" /\ a.modes["aligned"] = "auto" /\ a.modes["range"] = "auto"
  BY PlainIs
<1>2. w \in BOOLEAN /\ v.n \in Int /\ v.dtype \in 0 .. 31
  BY DEF IsValue
<1>3. /\ v.kind # "object"
      /\ v.kind = "tensor" => d = DecodeTensor(v, w)
      /\ v.kind # "tensor" => d = DecodeScalar(v) /\ DecodeScalar(v).kind # "refused"
  <2>1. v.kind # "object"
    BY AutoAccepted
  <2>2. v.kind = "tensor" => Decode(a, v, w) = DecodeTensor(v, w)
    BY AutoAccepted
  <2>3. v.kind # "tensor" => Decode(a, v, w) = DecodeScalar(v) /\ DecodeScalar(v).kind # "refused"
    BY <2>1, AutoAccepted
  <2> QED BY <2>1, <2>2, <2>3
<1>4. d.kind # "refused"
  BY <1>3 DEF DecodeTensor
<1>5. t = InferType(d)
  BY <1>1, ArgumentTypeOf
<1>6. InferType(d) \in ArgumentTypes /\ (d.kind = "bool" => ~IsInteger(InferType(d)))
  BY <1>1, <1>2, <1>4, InferTells
<1> HIDE DEF t
<1>7. /\ IsOne(a, t, d) <=> IsInteger(t) /\ d.bits = 1
      /\ al <=> d.bits % Divisor = 0 /\ (t.cls = "pointer" \/ IsInteger(t))
      /\ wi <=> launcher.keysRange /\ t.cls = "pointer" /\ d.within
  BY <1>1 DEF IsOne, AlignedCode, WithinCode
<1>8. ~IsOne(a, t, d) =>
        ArgumentCode(a, t, d) = TypeCode(t) + (IF al THEN (IF t.cls = "pointer" THEN 2 ELSE 1) ELSE 0)
                                + (IF wi THEN 1 ELSE 0)
  BY <1>5, <1>6, ArgumentCodeIs DEF Coded
<1>9. IsOne(a, t, d) => ArgumentCode(a, t, d) = One
  BY DEF ArgumentCode
<1> HIDE DEF al, wi
<1>10. CASE v.kind = "tensor"
  <2>1. d.kind = "tensor" /\ d.bits = v.n /\ d.dtype = v.dtype /\ d.within = w
    BY <1>3, <1>10 DEF DecodeTensor
  <2>2. t = Pointer(v.dtype)
    BY <1>5, <2>1 DEF InferType
  <2>3. t.cls = "pointer" /\ ~IsInteger(t) /\ TypeCode(t) = 4 * v.dtype
    BY <2>2 DEF Pointer, Type, IsInteger, TypeCode
  <2>4. /\ al <=> v.n % Divisor = 0
        /\ wi <=> launcher.keysRange /\ v.small
    BY <1>7, <1>10, <2>1, <2>3
  <2>5. ArgumentCode(a, t, d) = 4 * v.dtype + (IF al THEN 2 ELSE 0) + (IF wi THEN 1 ELSE 0)
    BY <1>7, <1>8, <2>3
  <2>6. AutoCode(v) = 4 * v.dtype + 2 * (IF al THEN 1 ELSE 0) + (IF wi THEN 1 ELSE 0)
    BY <1>10, <2>4 DEF AutoCode
  <2>7. 2 * (IF al THEN 1 ELSE 0) = IF al THEN 2 ELSE 0
    OBVIOUS
  <2> QED BY <1>7, <1>10, <2>3, <2>5, <2>6, <2>7 DEF t
<1>11. CASE v.kind = "int"
  <2>1. d = DecodeInt(v.n) /\ DecodeInt(v.n).kind # "refused"
    BY <1>3, <1>11 DEF DecodeScalar
  <2>2. (d.bits = 1 <=> v.n = 1) /\ (d.bits % Divisor = 0 <=> v.n % Divisor = 0)
    BY <1>2, <2>1, IntegerReads
  <2>3. t \in {Signed(32), Signed(64), Unsigned(64)}
    <3>1. d.kind \in {"i64", "u64"}
      BY <2>1, <1>4 DEF DecodeInt, Decoded, Refused
    <3> QED BY <1>5, <3>1 DEF InferType
  <2>4. IsInteger(t) /\ t.cls # "pointer"
    BY <2>3 DEF Signed, Unsigned, Type, IsInteger
  <2>5. /\ IsOne(a, t, d) <=> v.n = 1
        /\ al <=> v.n % Divisor = 0
        /\ ~wi
    BY <1>7, <2>2, <2>4
  <2>6. AutoCode(v) = IF v.n = 1 THEN One ELSE TypeCode(InferType(DecodeInt(v.n))) + (IF al THEN 1 ELSE 0)
    BY <1>11, <2>5 DEF AutoCode
  <2>7. InferType(DecodeInt(v.n)) = t
    BY <1>5, <2>1
  <2>8. TypeCode(t) \in Int
    BY <2>3 DEF TypeCode, IntegerCode, IsInteger, Signed, Unsigned, Type
  <2>9. ~IsOne(a, t, d) => ArgumentCode(a, t, d) = TypeCode(t) + (IF al THEN 1 ELSE 0)
    <3> DEFINE c == TypeCode(t)
    <3>1. c \in Int /\ c + (IF al THEN 1 ELSE 0) + 0 = c + (IF al THEN 1 ELSE 0)
      BY <2>8
    <3> QED BY <1>8, <2>4, <2>5, <3>1
  <2> QED BY <1>9, <1>11, <2>5, <2>6, <2>7, <2>9 DEF t
<1>12. CASE v.kind \notin {"tensor", "int"}
  <2>1. v.kind \in {"bool", "float", "none"}
    BY <1>3, <1>12, ScalarTells
  <2>2. d = DecodeScalar(v)
    BY <1>3, <1>12
  <2>3. t \in {BoolType, Float(32), NoneType}
    <3>1. d.kind \in {"bool", "fp64", "none"}
      BY <2>1, <2>2 DEF DecodeScalar, Decoded
    <3> QED BY <1>5, <3>1 DEF InferType
  <2>4. ~IsInteger(t) /\ t.cls # "pointer"
    BY <2>3 DEF BoolType, Float, NoneType, Type, IsInteger
  <2>5. ~IsOne(a, t, d) /\ ~al /\ ~wi
    BY <1>7, <2>4
  <2>6. TypeCode(t) \in Int
    BY <2>3 DEF TypeCode, IsInteger, BoolType, Float, NoneType, Type
  <2>7. ArgumentCode(a, t, d) = TypeCode(t)
    <3> DEFINE c == TypeCode(t)
    <3>1. c \in Int /\ c + 0 + 0 = c
      BY <2>6
    <3> QED BY <1>8, <2>5, <3>1
  <2>8. AutoCode(v) = TypeCode(t)
    BY <1>5, <1>12, <2>2 DEF AutoCode
  <2> QED BY <1>12, <2>5, <2>7, <2>8 DEF t
<1> QED BY <1>10, <1>11, <1>12

(* The auto path packs what the other would. *)
LEMMA AutoPacks ==
  ASSUME NEW a, IsAnnotation(a), Plain(a), NEW v, IsValue(v), AutoAccepts(a, v),
         launcher.keysRange \in BOOLEAN, NEW w, w = (v.kind # "tensor" \/ v.small)
  PROVE  /\ WasPacked(a, v, w)
         /\ \A f : \A g \in CacheKeyFields(a) : f.kind = g.kind /\ f.width = g.width =>
              AutoContent(f, a, v) = Content(f, a, Decode(a, v, w))
<1> DEFINE d == Decode(a, v, w)
<1>1. /\ a.kind \in {"argument", "constexpr"} /\ Inferred(a) /\ ~a.powerOfTwo /\ ~a.exactKey
      /\ ~a.ptrRange /\ ~Skipped(a)
  BY PlainIs
<1>2. w \in BOOLEAN /\ v.small \in BOOLEAN
  BY DEF IsValue
<1>3. Accepts(a, d)
  BY AutoAccepted
<1>4. WasPacked(a, v, w)
  <2>1. w \in Answers(a, v)
    BY <1>1, <1>2 DEF Answers
  <2> HIDE DEF d
  <2>2. v.kind # "tensor" => w = TRUE
    OBVIOUS
  <2> QED BY <1>1, <1>2, <1>3, <2>1, <2>2 DEF WasPacked, d
<1>5. CASE a.kind = "constexpr"
  <2>1. CacheKeyFields(a) = {[kind |-> "descriptor", width |-> 1], [kind |-> "payload", width |-> 8]}
    BY <1>5, PlainIs
  <2>2. d = IF v.kind = "object" THEN Decoded("object", v.n) ELSE DecodeScalar(v)
    <3>1. /\ d = IF v.kind = "tensor" THEN DecodeTensor(v, w)
                 ELSE IF v.kind = "object" THEN Decoded("object", v.n) ELSE DecodeScalar(v)
          /\ v.kind = "tensor" => a.kind = "argument"
      BY AutoAccepted
    <3> QED BY <1>5, <3>1
  <2>3. d.bits \in 0 .. Two64 - 1
    <3>1. d # Refused
      BY <1>3 DEF Accepts
    <3>2. /\ d.kind \in {"tensor", "i64", "u64", "bool", "fp64", "none", "object"}
          /\ d.kind # "tensor" /\ ~IsTyped(a) => IsScalar(d)
      BY <3>1, AcceptedKind
    <3>3. d.kind # "tensor"
      <4>1. DecodeInt(v.n).kind # "tensor"
        BY DEF DecodeInt, Decoded, Refused
      <4> QED BY <2>2, <4>1 DEF DecodeScalar, Decoded, Refused
    <3>4. ~IsTyped(a)
      BY PlainIs
    <3> QED BY <3>2, <3>3, <3>4 DEF IsScalar
  <2> HIDE DEF d
  <2> DEFINE b == d.bits
  <2>4. b % Two64 = b
    <3>1. b \in 0 .. Two64 - 1 /\ b \in -Two64 .. Two64 - 1 /\ Two64 \in Nat /\ Two64 > 0 /\ ~(b < 0)
      BY <2>3, HalfFacts
    <3> HIDE DEF b
    <3> QED BY <3>1, SmallRemainder
  <2>5. ASSUME NEW f, f.kind = "payload", f.width = 8
        PROVE  AutoContent(f, a, v) = Content(f, a, d)
    <3>1. AutoContent(f, a, v) = d.bits
      BY <2>2, <2>5 DEF AutoContent
    <3>2. Content(f, a, d) = d.bits % Size(8 * f.width)
      BY <1>1, <2>5 DEF Content
    <3>3. Size(8 * f.width) = Two64
      BY <2>5 DEF Two64
    <3> QED BY <2>4, <3>1, <3>2, <3>3
  <2>6. ASSUME NEW f, f.kind = "descriptor"
        PROVE  AutoContent(f, a, v) = Content(f, a, d)
    <3>1. AutoContent(f, a, v) = ConstexprCode(d)
      BY <1>5, <2>2, <2>6 DEF AutoContent
    <3>2. Content(f, a, d) = ConstexprCode(d)
      BY <1>1, <1>5, <2>6 DEF Content
    <3> QED BY <3>1, <3>2
  <2> QED BY <1>4, <2>1, <2>5, <2>6 DEF d
<1>6. CASE a.kind = "argument"
  <2>1. CacheKeyFields(a) = {[kind |-> "descriptor", width |-> 1]}
    BY <1>6, PlainIs
  <2>2. ArgumentCode(a, TypeOf(a, d), d) = AutoCode(v)
    BY <1>6, AutoCodes
  <2> HIDE DEF d
  <2>3. ASSUME NEW f, f.kind = "descriptor"
        PROVE  AutoContent(f, a, v) = Content(f, a, d)
    <3>1. AutoContent(f, a, v) = AutoCode(v)
      BY <1>6, <2>3 DEF AutoContent
    <3>2. Content(f, a, d) = ArgumentCode(a, TypeOf(a, d), d)
      BY <1>6, <2>3 DEF Content
    <3> QED BY <2>2, <3>1, <3>2
  <2> QED BY <1>4, <2>1, <2>3 DEF d
<1> QED BY <1>1, <1>5, <1>6

-----------------------------------------------------------------------------
(* Steps of a call *)

(* Call e has packed parameter i, the next, after call c.                  *)
PacksNext(c, i, w, contents, vals, e) ==
  /\ c.pc = "pack" /\ i = Len(c.within) + 1 /\ i <= Len(launcher.params)
  /\ WasPacked(Param(i), Passed(c, i), w)
  /\ DOMAIN contents = {f \in Fields(launcher) : f.param = i}
  /\ \A f \in DOMAIN contents :
       contents[f] = Content(f, Param(i), Decode(Param(i), Passed(c, i), w))
  /\ e = [c EXCEPT !.within = Append(@, w),
                   !.key = @ \union {<<offset[f], contents[f]>> : f \in DOMAIN contents},
                   !.vals = vals]
  /\ vals = c.vals \o Slot(Param(i), Decode(Param(i), Passed(c, i), w))

(* Its fields follow in the key. *)
LEMMA PackedNext ==
  ASSUME launcher \in Launchers, NEW c, CallTyped(c), CallKeyed(c),
         NEW i, NEW w, NEW contents, NEW vals, NEW e, PacksNext(c, i, w, contents, vals, e)
  PROVE  CallTyped(e) /\ CallKeyed(e) /\ e.pc = "pack"
<1> DEFINE n == Len(c.within)
           all == c.key \union {<<offset[f], contents[f]>> : f \in DOMAIN contents}
           ranges == Append(c.within, w)
<1>0. /\ c.pc = "pack" /\ i = n + 1 /\ n + 1 <= Len(launcher.params)
      /\ WasPacked(Param(i), Passed(c, i), w)
      /\ DOMAIN contents = {f \in Fields(launcher) : f.param = i}
      /\ \A f \in Fields(launcher) : f.param = i =>
           contents[f] = Content(f, Param(i), Decode(Param(i), Passed(c, i), w))
  BY DEF PacksNext
<1>1. c = [pc |-> c.pc, args |-> c.args, dev |-> c.dev,
           key |-> c.key, vals |-> c.vals, within |-> c.within]
  BY DEF CallTyped
<1>2. e = [pc |-> c.pc, args |-> c.args, dev |-> c.dev, key |-> all, vals |-> vals, within |-> ranges]
  BY <1>1 DEF PacksNext
<1> HIDE DEF all, ranges
<1>3. /\ e.pc = "pack" /\ e.args = c.args /\ e.dev = c.dev /\ e.key = all /\ e.vals = vals
      /\ e.within = ranges
  <2> DEFINE r == [pc |-> c.pc, args |-> c.args, dev |-> c.dev, key |-> all, vals |-> vals, within |-> ranges]
  <2>1. /\ r.pc = c.pc /\ r.args = c.args /\ r.dev = c.dev /\ r.key = all /\ r.vals = vals
        /\ r.within = ranges
    OBVIOUS
  <2>2. e = r
    BY <1>2
  <2> HIDE DEF r
  <2> QED BY <1>0, <2>1, <2>2
<1>4. e = [pc |-> e.pc, args |-> e.args, dev |-> e.dev,
           key |-> e.key, vals |-> e.vals, within |-> e.within]
  BY <1>2
<1>5. n \in Nat /\ w \in BOOLEAN /\ c.within \in Seq(BOOLEAN)
  BY <1>0 DEF CallTyped, WasPacked
<1>6. /\ ranges \in Seq(BOOLEAN) /\ Len(ranges) = n + 1 /\ ranges[n + 1] = w
      /\ \A j \in 1 .. n : ranges[j] = c.within[j]
  <2>1. ranges \in Seq(BOOLEAN) /\ Len(ranges) = n + 1
    BY <1>5, AppendProperties DEF ranges
  <2>2. ranges[n + 1] = w /\ \A j \in 1 .. n : ranges[j] = c.within[j]
    BY <1>5, AppendProperties DEF ranges
  <2> QED BY <2>1, <2>2
<1>7. CallTyped(e)
  BY <1>0, <1>3, <1>4, <1>6 DEF CallTyped
<1>8. \A j : Passed(e, j) = Passed(c, j)
  BY <1>3 DEF Passed
<1>9. ASSUME NEW j \in 1 .. Len(e.within) PROVE ParamPacked(e, j)
  <2>1. CASE j = n + 1
    <3>1. e.within[j] = w /\ j = i
      BY <1>0, <1>3, <1>6, <2>1
    <3> QED BY <1>0, <1>8, <3>1 DEF ParamPacked
  <2>2. CASE j # n + 1
    <3>1. j \in 1 .. n
      BY <1>3, <1>5, <1>6, <1>9, <2>2
    <3>2. ParamPacked(c, j)
      BY <3>1 DEF CallKeyed
    <3>3. e.within[j] = c.within[j]
      BY <1>3, <1>6, <3>1
    <3> QED BY <1>8, <3>2, <3>3 DEF ParamPacked
  <2> QED BY <2>1, <2>2
<1>10. \A f \in Fields(launcher) : f.param \in 1 .. Len(launcher.params)
  BY FieldsOf
<1>11. ASSUME NEW f \in Fields(launcher), f.param <= n
       PROVE  FieldContent(e, f) = FieldContent(c, f)
  <2>1. f.param \in 1 .. n
    BY <1>5, <1>10, <1>11
  <2>2. e.within[f.param] = c.within[f.param]
    BY <1>3, <1>6, <2>1
  <2> QED BY <1>8, <2>2 DEF FieldContent
<1>12. ASSUME NEW f \in Fields(launcher), f.param = i
       PROVE  FieldContent(e, f) = contents[f]
  <2>1. e.within[f.param] = w
    BY <1>0, <1>3, <1>6, <1>12
  <2>2. contents[f] = Content(f, Param(i), Decode(Param(i), Passed(c, i), w))
    BY <1>0, <1>12
  <2> QED BY <1>8, <1>12, <2>1, <2>2 DEF FieldContent
<1>13. FieldsUpTo(n + 1) = FieldsUpTo(n) \union {f \in Fields(launcher) : f.param = i}
  <2>1. \A f \in Fields(launcher) : f.param <= n + 1 <=> f.param <= n \/ f.param = i
    BY <1>0, <1>5, <1>10
  <2> QED BY <2>1 DEF FieldsUpTo
<1>14. e.key = KeyUpTo(e, n + 1)
  <2>1. c.key = {<<offset[f], FieldContent(c, f)>> : f \in FieldsUpTo(n)}
    BY <1>0 DEF CallKeyed, KeyUpTo
  <2>2. {<<offset[f], FieldContent(c, f)>> : f \in FieldsUpTo(n)}
          = {<<offset[f], FieldContent(e, f)>> : f \in FieldsUpTo(n)}
    BY <1>11 DEF FieldsUpTo
  <2>3. {<<offset[f], contents[f]>> : f \in DOMAIN contents}
          = {<<offset[f], FieldContent(e, f)>> : f \in {g \in Fields(launcher) : g.param = i}}
    BY <1>0, <1>12
  <2>4. KeyUpTo(e, n + 1) = {<<offset[f], FieldContent(e, f)>> : f \in FieldsUpTo(n)}
          \union {<<offset[f], FieldContent(e, f)>> : f \in {g \in Fields(launcher) : g.param = i}}
    BY <1>13 DEF KeyUpTo
  <2> QED BY <1>3, <2>1, <2>2, <2>3, <2>4 DEF all
<1>15. Len(e.within) = n + 1
  BY <1>3, <1>6
<1> QED BY <1>3, <1>7, <1>9, <1>14, <1>15 DEF CallKeyed

(* What the auto path passes the kernel, the other would. *)
LEMMA AutoPushes ==
  ASSUME NEW a, IsAnnotation(a), Plain(a), NEW v, IsValue(v), AutoAccepts(a, v),
         launcher.keysRange \in BOOLEAN, NEW w, w = (v.kind # "tensor" \/ v.small)
  PROVE  AutoPushed(a, v) = Slot(a, Decode(a, v, w))
<1> DEFINE d == Decode(a, v, w)
           t == TypeOf(a, d)
<1>1. a.kind \in {"argument", "constexpr"} /\ ~Fixed(a) /\ ~IsTyped(a)
  BY PlainIs
<1>2. CASE a.kind = "constexpr"
  <2>1. AutoPushed(a, v) = <<>>
    BY <1>2 DEF AutoPushed
  <2>2. Slot(a, d) = <<>>
    BY <1>2 DEF Slot, Pushes
  <2> QED BY <2>1, <2>2
<1>3. CASE a.kind = "argument"
  <2>1. IsOne(a, t, d) <=> v.kind = "int" /\ v.n = 1
    BY <1>3, AutoCodes
  <2>2. t = InferType(d)
    BY <1>3, <1>1, ArgumentTypeOf
  <2>3. /\ v.kind # "object"
        /\ v.kind = "tensor" => d = DecodeTensor(v, w)
        /\ v.kind # "tensor" => d = DecodeScalar(v) /\ DecodeScalar(v).kind # "refused"
    <3>1. v.kind # "object"
      BY <1>3, AutoAccepted
    <3>2. v.kind = "tensor" => d = DecodeTensor(v, w)
      BY AutoAccepted
    <3>3. v.kind # "tensor" => d = DecodeScalar(v) /\ DecodeScalar(v).kind # "refused"
      BY <3>1, AutoAccepted
    <3> QED BY <3>1, <3>2, <3>3
  <2> HIDE DEF d, t
  <2>4. Slot(a, d) = IF t # NoneType /\ ~IsOne(a, t, d) THEN <<PackValue(t, d.bits)>> ELSE <<>>
    BY <1>3 DEF Slot, Pushes, t
  <2>5. CASE v.kind = "tensor"
    <3>1. d.kind = "tensor" /\ d.bits = v.n /\ d.dtype = v.dtype
      BY <2>3, <2>5 DEF DecodeTensor
    <3>2. t = Pointer(v.dtype)
      BY <2>2, <3>1 DEF InferType
    <3>3. t # NoneType /\ t # Float(32)
      BY <3>2 DEF Pointer, NoneType, Float, Type
    <3>4. Slot(a, d) = <<v.n>>
      BY <2>1, <2>4, <2>5, <3>1, <3>3 DEF PackValue
    <3>5. AutoPushed(a, v) = <<v.n>>
      BY <1>3, <2>5 DEF AutoPushed
    <3> QED BY <3>4, <3>5 DEF d
  <2>6. CASE v.kind = "int"
    <3>1. d = DecodeInt(v.n) /\ DecodeInt(v.n).kind # "refused" /\ v.n \in Int
      BY <2>3, <2>6 DEF DecodeScalar, IsValue
    <3>2. d.bits = v.n % Two64 /\ d.kind \in {"i64", "u64"}
      BY <3>1, DecodedInt
    <3>3. t \in {Signed(32), Signed(64), Unsigned(64)}
      BY <2>2, <3>2 DEF InferType
    <3>4. t # NoneType /\ t # Float(32)
      BY <3>3 DEF Signed, Unsigned, NoneType, Float, Type
    <3>5. Slot(a, d) = IF v.n = 1 THEN <<>> ELSE <<v.n % Two64>>
      BY <2>1, <2>4, <2>6, <3>2, <3>4 DEF PackValue
    <3>6. AutoPushed(a, v) = IF v.n = 1 THEN <<>> ELSE <<v.n % Two64>>
      BY <1>3, <2>6 DEF AutoPushed
    <3> QED BY <3>5, <3>6 DEF d
  <2>7. CASE v.kind \notin {"tensor", "int"}
    <3>1. v.kind \in {"bool", "float", "none"}
      BY <2>3, <2>7, ScalarTells
    <3>2. /\ v.kind = "bool" => d.kind = "bool" /\ d.bits = v.n
          /\ v.kind = "float" => d.kind = "fp64" /\ d.bits = v.n
          /\ v.kind = "none" => d.kind = "none"
      BY <2>3, <3>1 DEF DecodeScalar, Decoded
    <3>3. /\ v.kind = "bool" => t = BoolType
          /\ v.kind = "float" => t = Float(32)
          /\ v.kind = "none" => t = NoneType
      BY <2>2, <3>1, <3>2 DEF InferType
    <3>4. BoolType # NoneType /\ BoolType # Float(32) /\ Float(32) # NoneType
      BY DEF BoolType, NoneType, Float, Type
    <3>5. CASE v.kind = "bool"
      BY <1>3, <2>1, <2>4, <3>2, <3>3, <3>4, <3>5 DEF AutoPushed, PackValue, d
    <3>6. CASE v.kind = "float"
      BY <1>3, <2>1, <2>4, <3>2, <3>3, <3>4, <3>6 DEF AutoPushed, PackValue, d
    <3>7. CASE v.kind = "none"
      BY <1>3, <2>1, <2>4, <3>2, <3>3, <3>4, <3>7 DEF AutoPushed, PackValue, d
    <3> QED BY <3>1, <3>5, <3>6, <3>7
  <2> QED BY <2>5, <2>6, <2>7
<1> QED BY <1>1, <1>2, <1>3

-----------------------------------------------------------------------------
(* Slots *)

(* A parameter behind the others has the slot behind theirs. *)
LEMMA SlotAdded ==
  ASSUME NEW n \in Nat, NEW S \in SUBSET (1 .. n), NEW vals, NEW f, Slotted(vals, S, f),
         NEW g, \A i \in S : g[i] = f[i], NEW x, x = g[n + 1]
  PROVE  Slotted(vals, S, g) /\ Slotted(vals \o <<x>>, S \union {n + 1}, g)
<1> DEFINE T == S \union {n + 1}
           m == Cardinality(S)
           all == vals \o <<x>>
<1>1. IsFiniteSet(S) /\ m \in Nat
  <2>1. IsFiniteSet(1 .. n)
    BY FS_Interval
  <2> QED BY <2>1, FS_Subset, FS_CardinalityType
<1>2. n + 1 \notin S
  OBVIOUS
<1>3. Cardinality(T) = m + 1
  BY <1>1, <1>2, FS_AddElement
<1>4. Tuple(vals, m) /\ \A k \in 1 .. m :
        \E i \in S : k = Cardinality({j \in S : j < i}) + 1 /\ vals[k] = f[i]
  BY DEF Slotted
<1>5. Tuple(<<x>>, 1) /\ <<x>>[1] = x
  BY DEF Tuple
<1>6. Follow(all, vals, m, <<x>>, 1)
  BY <1>4, <1>5, Joined
<1> HIDE DEF m, all
<1>7. ASSUME NEW i \in S PROVE {j \in T : j < i} = {j \in S : j < i}
  <2>1. i \in 1 .. n
    OBVIOUS
  <2>2. ~(n + 1 < i)
    BY <2>1
  <2> QED BY <2>2
<1>8. {j \in T : j < n + 1} = S
  <2>1. \A j \in S : j < n + 1
    OBVIOUS
  <2>2. ~(n + 1 < n + 1)
    OBVIOUS
  <2> QED BY <2>1, <2>2
<1>9. ASSUME NEW k \in 1 .. m + 1
      PROVE  \E i \in T : k = Cardinality({j \in T : j < i}) + 1 /\ all[k] = g[i]
  <2>1. CASE k = m + 1
    <3>1. 1 \in 1 .. 1
      OBVIOUS
    <3>2. all[m + 1] = <<x>>[1]
      BY <1>6, <3>1 DEF Follow
    <3>3. k = Cardinality({j \in T : j < n + 1}) + 1
      BY <1>8, <2>1 DEF m
    <3>4. n + 1 \in T /\ all[k] = g[n + 1]
      BY <1>5, <2>1, <3>2
    <3> QED BY <3>3, <3>4
  <2>2. CASE k # m + 1
    <3>1. k \in 1 .. m
      BY <1>1, <2>2
    <3>2. PICK i \in S : k = Cardinality({j \in S : j < i}) + 1 /\ vals[k] = f[i]
      BY <1>4, <3>1
    <3>3. all[k] = vals[k]
      BY <1>6, <3>1 DEF Follow
    <3>4. {j \in T : j < i} = {j \in S : j < i}
      BY <1>7
    <3>5. all[k] = g[i] /\ k = Cardinality({j \in T : j < i}) + 1
      BY <3>2, <3>3, <3>4
    <3> QED BY <3>5
  <2> QED BY <2>1, <2>2
<1>10. Slotted(vals, S, g)
  BY <1>4 DEF Slotted, m
<1>11. Tuple(all, m + 1)
  BY <1>6 DEF Follow
<1>12. Slotted(all, T, g)
  BY <1>3, <1>9, <1>11 DEF Slotted
<1> QED BY <1>10, <1>12 DEF all

(* What a call packs next, it adds behind the slots that it has.           *)
LEMMA SlotsNext ==
  ASSUME NEW c, CallTyped(c), CallSlots(c),
         NEW i, NEW w, NEW contents, NEW vals, NEW e, PacksNext(c, i, w, contents, vals, e)
  PROVE  CallSlots(e)
<1> DEFINE n == Len(c.within)
           ranges == Append(c.within, w)
           d == Decode(Param(i), Passed(c, i), w)
           S == SlotsUpTo(c, n)
           T == SlotsUpTo(e, n + 1)
           f == SlotValues(c, n)
           g == SlotValues(e, n + 1)
<1>1. c = [pc |-> c.pc, args |-> c.args, dev |-> c.dev,
           key |-> c.key, vals |-> c.vals, within |-> c.within]
  BY DEF CallTyped
<1>2. i = n + 1 /\ w \in BOOLEAN /\ vals = c.vals \o Slot(Param(i), d)
  BY DEF PacksNext, WasPacked
<1>3. e.args = c.args /\ e.vals = vals /\ e.within = ranges
  BY <1>1 DEF PacksNext
<1>4. n \in Nat /\ c.within \in Seq(BOOLEAN)
  BY DEF CallTyped
<1>5. Len(ranges) = n + 1 /\ ranges[n + 1] = w /\ \A j \in 1 .. n : ranges[j] = c.within[j]
  BY <1>2, <1>4, AppendProperties
<1> HIDE DEF ranges, n
<1>6. \A j : Passed(e, j) = Passed(c, j)
  BY <1>3 DEF Passed
<1>7. /\ \A j \in 1 .. n : ParamDecoded(e, j) = ParamDecoded(c, j)
      /\ ParamDecoded(e, n + 1) = d
  BY <1>2, <1>3, <1>5, <1>6 DEF ParamDecoded
<1> HIDE DEF d
<1>8. S \in SUBSET (1 .. n)
  BY DEF SlotsUpTo
<1>9. T = S \union IF Pushes(Param(i), d) THEN {n + 1} ELSE {}
  <2>1. 1 .. n + 1 = 1 .. n \union {n + 1}
    BY <1>4
  <2> QED BY <1>2, <1>7, <2>1 DEF SlotsUpTo
<1>10. \A j \in S : g[j] = f[j]
  <2> SUFFICES ASSUME NEW j \in S PROVE g[j] = f[j]
    OBVIOUS
  <2>1. j \in 1 .. n /\ j \in 1 .. n + 1
    BY <1>4, <1>8
  <2> QED BY <1>7, <2>1 DEF SlotValues, SlotValue
<1>11. g[n + 1] = PackValue(TypeOf(Param(i), d), d.bits)
  <2>1. n + 1 \in 1 .. n + 1
    BY <1>4
  <2> QED BY <1>2, <1>7, <2>1 DEF SlotValues, SlotValue
<1>12. Slotted(c.vals, S, f)
  BY DEF CallSlots, n
<1>13. Tuple(c.vals, Cardinality(S))
  BY <1>12 DEF Slotted
<1> HIDE DEF S, T, f, g
<1>14. Slotted(c.vals, S, g) /\ Slotted(c.vals \o <<g[n + 1]>>, S \union {n + 1}, g)
  BY <1>4, <1>8, <1>10, <1>12, SlotAdded
<1>15. Slotted(vals, T, g)
  <2>1. CASE Pushes(Param(i), d)
    <3>1. vals = c.vals \o <<g[n + 1]>>
      BY <1>2, <1>11, <2>1 DEF Slot
    <3> QED BY <1>9, <1>14, <2>1, <3>1
  <2>2. CASE ~Pushes(Param(i), d)
    <3>1. vals = c.vals
      <4>1. \A k \in 1 .. Cardinality(S) : c.vals[k] \in {c.vals[j] : j \in 1 .. Cardinality(S)}
        OBVIOUS
      <4>2. c.vals \in Seq({c.vals[j] : j \in 1 .. Cardinality(S)})
        BY <1>13, <4>1, TupleIsSeq
      <4>3. c.vals \o <<>> = c.vals
        BY <4>2
      <4> QED BY <1>2, <2>2, <4>3 DEF Slot
    <3> QED BY <1>9, <1>14, <2>2, <3>1
  <2> QED BY <2>1, <2>2
<1> QED BY <1>3, <1>5, <1>15 DEF CallSlots, T, g

(* What a step that leaves the launcher and its layout alone leaves alone. *)
LEMMA KeptContent ==
  ASSUME UNCHANGED layout
  PROVE  /\ \A i : Param(i)' = Param(i)
         /\ \A c, i : Passed(c, i)' = Passed(c, i)
         /\ \A f, a, d : Content(f, a, d)' = Content(f, a, d)
         /\ \A a, v, w : WasPacked(a, v, w)' <=> WasPacked(a, v, w)
         /\ \A a, v, w : ParamInput(a, v, w)' = ParamInput(a, v, w)
<1>1. launcher' = launcher
  BY DEF layout
<1>2. \A i : Param(i)' = Param(i)
  BY <1>1 DEF Param
<1>3. \A c, i : Passed(c, i)' = Passed(c, i)
  BY <1>1 DEF Passed, Param
<1>4. \A f, a, d : Content(f, a, d)' = Content(f, a, d)
  <2>1. \A a, t, d : WithinCode(a, t, d)' <=> WithinCode(a, t, d)
    BY <1>1 DEF WithinCode
  <2>2. \A a, t, d : ArgumentCode(a, t, d)' = ArgumentCode(a, t, d)
    BY <2>1 DEF ArgumentCode
  <2> QED BY <2>2 DEF Content
<1>5. \A a, v, w : WasPacked(a, v, w)' <=> WasPacked(a, v, w)
  BY <1>1 DEF WasPacked
<1>6. \A a, v, w : ParamInput(a, v, w)' = ParamInput(a, v, w)
  <2>1. \A a, v, w : ArgumentInput(a, v, w)' = ArgumentInput(a, v, w)
    BY <1>1 DEF ArgumentInput, SpecializeImpl
  <2> QED BY <2>1 DEF ParamInput
<1> QED BY <1>2, <1>3, <1>4, <1>5, <1>6

(* While the launcher stays, so does what each call compiles. *)
LEMMA KeptCompiled ==
  ASSUME UNCHANGED layout
  PROVE  \A c, again : Compiled(c, again)' = Compiled(c, again)
<1>1. launcher' = launcher
  BY DEF layout
<1>2. /\ \A i : Param(i)' = Param(i)
      /\ \A c, i : Passed(c, i)' = Passed(c, i)
      /\ \A a, v, w : ParamInput(a, v, w)' = ParamInput(a, v, w)
  BY KeptContent
<1>3. \A c, i, again : RangeShown(c, i, again)' = RangeShown(c, i, again)
  BY <1>1, <1>2 DEF RangeShown
<1>4. \A c, named : CallSets(c, named)' = CallSets(c, named)
  BY <1>1, <1>2 DEF CallSets
<1>5. \A c : CallOptions(c)' = CallOptions(c)
  <2>1. {i \in DOMAIN launcher.params : DynamicOption(Param(i)) \/ ParameterOption(Param(i))}'
          = {i \in DOMAIN launcher.params : DynamicOption(Param(i)) \/ ParameterOption(Param(i))}
    BY <1>1, <1>2
  <2> QED BY <1>4, <2>1 DEF CallOptions
<1>6. \A c : CallKnobs(c)' = CallKnobs(c)
  <2>1. {i \in DOMAIN launcher.params : DynamicKnob(Param(i))}'
          = {i \in DOMAIN launcher.params : DynamicKnob(Param(i))}
    BY <1>1, <1>2
  <2> QED BY <1>4, <2>1 DEF CallKnobs
<1>7. \A c : CompileKnobs(c)' = CompileKnobs(c)
  BY <1>1, <1>6 DEF CompileKnobs
<1>8. \A c, again :
        [i \in DOMAIN launcher.params |->
           ParamInput(Param(i), Passed(c, i), RangeShown(c, i, again))]'
        = [i \in DOMAIN launcher.params |->
             ParamInput(Param(i), Passed(c, i), RangeShown(c, i, again))]
  BY <1>1, <1>2, <1>3
<1>9. \A c : [i \in DOMAIN launcher.params |-> ExactValue(Param(i), Passed(c, i))]'
             = [i \in DOMAIN launcher.params |-> ExactValue(Param(i), Passed(c, i))]
  BY <1>1, <1>2
<1> QED BY <1>1, <1>5, <1>6, <1>7, <1>8, <1>9 DEF Compiled

(* While the layout stays, so does what is said of calls and of records. *)
LEMMA KeptCalls ==
  ASSUME UNCHANGED layout
  PROVE  /\ Placed' <=> Placed
         /\ \A c : CallTyped(c)' <=> CallTyped(c)
         /\ \A c : CallKeyed(c)' <=> CallKeyed(c)
         /\ \A c : CallRight(c)' <=> CallRight(c)
         /\ \A k, r : CompiledFor(k, r)' <=> CompiledFor(k, r)
<1>1. launcher' = launcher /\ todo' = todo /\ offset' = offset /\ end' = end /\ deviceAt' = deviceAt
  BY DEF layout
<1>2. /\ \A i : Param(i)' = Param(i)
      /\ \A c, i : Passed(c, i)' = Passed(c, i)
      /\ \A f, a, d : Content(f, a, d)' = Content(f, a, d)
      /\ \A a, v, w : WasPacked(a, v, w)' <=> WasPacked(a, v, w)
  BY KeptContent
<1>3. \A c, f : FieldContent(c, f)' = FieldContent(c, f)
  BY <1>2 DEF FieldContent
<1>4. \A n : FieldsUpTo(n)' = FieldsUpTo(n)
  BY <1>1 DEF FieldsUpTo
<1>5. \A c, n : KeyUpTo(c, n)' = KeyUpTo(c, n)
  BY <1>1, <1>3, <1>4 DEF KeyUpTo
<1>6. \A c : KeyOf(c)' = KeyOf(c)
  BY <1>1, <1>5 DEF KeyOf, DeviceKey
<1>7. \A c, i : ParamPacked(c, i)' <=> ParamPacked(c, i)
  BY <1>2 DEF ParamPacked
<1>8. \A c : CallTyped(c)' <=> CallTyped(c)
  BY <1>1 DEF CallTyped, Placed, CallDevices
<1>9. \A c : CallKeyed(c)' <=> CallKeyed(c)
  BY <1>1, <1>5, <1>6, <1>7 DEF CallKeyed
<1>10. \A c : PackedCall(c)' <=> PackedCall(c)
  BY <1>1, <1>7 DEF PackedCall, CallDevices
<1>11. \A c, again : Compiled(c, again)' = Compiled(c, again)
  BY KeptCompiled
<1>12. \A c, again, k, r : CompiledBy(c, again, k, r)' <=> CompiledBy(c, again, k, r)
  BY <1>2, <1>6, <1>10, <1>11 DEF CompiledBy
<1>13. Packings' = Packings
  BY <1>1 DEF Packings, CallDevices
<1>14. \A k, r : CompiledFor(k, r)' <=> CompiledFor(k, r)
  BY <1>1, <1>12, <1>13 DEF CompiledFor
<1>15. Placed' <=> Placed
  BY <1>1 DEF Placed
<1>16. \A c : CallSlots(c)' <=> CallSlots(c)
  <2>1. \A c, i : ParamDecoded(c, i)' = ParamDecoded(c, i)
    BY <1>2 DEF ParamDecoded
  <2>2. \A c, n : SlotsUpTo(c, n)' = SlotsUpTo(c, n)
    BY <1>2, <2>1 DEF SlotsUpTo
  <2>3. \A c, i : SlotValue(c, i)' = SlotValue(c, i)
    BY <1>2, <2>1 DEF SlotValue
  <2>4. \A c, n : SlotValues(c, n)' = SlotValues(c, n)
    BY <2>3 DEF SlotValues
  <2> QED BY <2>2, <2>4 DEF CallSlots
<1>17. \A c : CallRight(c)' <=> CallRight(c)
  BY <1>8, <1>9, <1>16 DEF CallRight
<1> QED BY <1>8, <1>9, <1>14, <1>15, <1>17

(* What a call passes, or a launcher has for it, is a value.               *)
LEMMA PassedValue ==
  ASSUME launcher \in Launchers, NEW c, CallTyped(c), NEW i \in DOMAIN launcher.params,
         Param(i).kind = "argument" \/ Param(i).how \in {"public", "baked"}
  PROVE  /\ IsAnnotation(Param(i)) /\ IsValue(Passed(c, i)) /\ launcher.keysRange \in BOOLEAN
         /\ Skipped(Param(i)) => Passed(c, i).kind # "tensor"
<1> DEFINE a == Param(i)
<1>1. IsAnnotation(a) /\ launcher.keysRange \in BOOLEAN
  BY AnnotationsTyped DEF Param
<1>2. a.how \in {"public", "baked", "tensor", "pointer"}
  BY CallsTyped DEF Param
<1>3. c.args \in Arguments(launcher)
  BY DEF CallTyped
<1>4. a.how = "public" => IsValue(c.args[i])
  BY <1>3, AnnotationsTyped DEF Param
<1>5. a.how # "public" => IsValue(a.value) /\ (a.how = "baked" => a.value.kind # "tensor")
  BY <1>1, <1>2 DEF IsAnnotation
<1> HIDE DEF a
<1>6. Passed(c, i) = IF a.how = "public" THEN c.args[i] ELSE a.value
  BY DEF Passed, a
<1>7. IsValue(Passed(c, i))
  BY <1>4, <1>5, <1>6
<1>8. Skipped(a) => Passed(c, i).kind # "tensor"
  BY <1>5, <1>6 DEF Skipped
<1> QED BY <1>1, <1>7, <1>8 DEF a

(* A range that is asked for is one that may be answered. *)
LEMMA AskedRange ==
  ASSUME NEW a, NEW v, IsValue(v), NEW w \in Asked(a, v)
  PROVE  /\ w \in BOOLEAN /\ (v.kind # "tensor" => w = TRUE)
         /\ (a.modes["range"] = "auto" /\ launcher.keysRange) => w \in Answers(a, v)
<1>1. Answers(a, v) \subseteq BOOLEAN /\ (v.kind # "tensor" => Answers(a, v) = {TRUE})
  BY DEF Answers, IsValue
<1>2. w \in Answers(a, v) \/ w = TRUE
  BY DEF Asked
<1>3. (a.modes["range"] = "auto" /\ launcher.keysRange) => w \in Answers(a, v)
  BY DEF Asked
<1> QED BY <1>1, <1>2, <1>3

(* A call that packs a parameter. *)
LEMMA PackingCall ==
  ASSUME HitInv, Packing
  PROVE  /\ call # Idle /\ call.pc = "pack" /\ CallRight(call)
         /\ CallTyped(call) /\ CallKeyed(call)
         /\ launcher \in Launchers /\ DOMAIN offset = Fields(launcher)
         /\ Current \in DOMAIN launcher.params /\ Current = Len(call.within) + 1
         /\ Len(call.within) + 1 <= Len(launcher.params)
<1>1. call.pc = "pack" /\ Current <= Len(launcher.params)
  BY DEF Packing
<1>2. call # Idle
  BY <1>1 DEF Idle
<1>3. CallRight(call) /\ CallTyped(call) /\ CallKeyed(call)
  BY <1>2 DEF HitInv, CallInv, CallRight
<1>4. launcher \in Launchers /\ DOMAIN offset = Fields(launcher)
  BY DEF HitInv, LayoutInv, LayoutTypes
<1>5. DOMAIN launcher.params = 1 .. Len(launcher.params) /\ Len(launcher.params) \in Nat
  BY <1>4, FieldsOf
<1>6. Len(call.within) \in Nat
  BY <1>3 DEF CallTyped
<1>7. Current = Len(call.within) + 1
  BY DEF Current
<1>8. Current \in DOMAIN launcher.params
  BY <1>1, <1>5, <1>6, <1>7
<1> QED BY <1>1, <1>2, <1>3, <1>4, <1>7, <1>8

(* The parameter that is packed is added to the call. *)
LEMMA PackedKeeps ==
  ASSUME HitInv, Packing, NEW w, WasPacked(Param(Current), Passed(call, Current), w),
         NEW contents, DOMAIN contents = FieldsNow,
         \A f \in FieldsNow :
           contents[f] = Content(f, Param(Current), Decode(Param(Current), Passed(call, Current), w)),
         NEW pushed, Packed(w, contents, pushed),
         pushed = Slot(Param(Current), Decode(Param(Current), Passed(call, Current), w))
  PROVE  CallRight(call') /\ call'.pc = "pack"
<1>1. /\ call.pc = "pack" /\ CallRight(call) /\ launcher \in Launchers
      /\ Current = Len(call.within) + 1 /\ Len(call.within) + 1 <= Len(launcher.params)
      /\ FieldsNow = {f \in Fields(launcher) : f.param = Current}
  BY PackingCall DEF FieldsNow
<1> DEFINE vals == call.vals \o pushed
<1>2. PacksNext(call, Current, w, contents, vals, call')
  BY <1>1 DEF PacksNext, Packed
<1> HIDE DEF vals
<1> QED BY <1>1, <1>2, PackedNext, SlotsNext DEF CallRight

(* Packing a parameter (Pack) keeps the key equal to its parameters'       *)
(* contents.                                                               *)
LEMMA PackKeeps ==
  ASSUME HitInv, Pack
  PROVE  call' = Idle \/ (CallRight(call') /\ call'.pc = "pack")
<1> DEFINE i == Current
           a == Param(i)
           v == Passed(call, i)
<1>1. Packing
  BY DEF Pack
<1>2. /\ CallTyped(call) /\ launcher \in Launchers /\ DOMAIN offset = Fields(launcher)
      /\ i \in DOMAIN launcher.params
  BY <1>1, PackingCall
<1>3. PICK w \in Asked(a, v) :
        IF Skipped(a) THEN Packed(TRUE, <<>>, <<>>)
        ELSE IF ~Accepts(a, Decode(a, v, w)) \/ (a.exactKey /\ Decode(a, v, w).kind = "tensor")
          THEN call' = Idle
        ELSE Packed(w, [f \in FieldsNow |-> Content(f, a, Decode(a, v, w))],
                    IF Pushes(a, Decode(a, v, w))
                      THEN <<PackValue(TypeOf(a, Decode(a, v, w)), Decode(a, v, w).bits)>> ELSE <<>>)
  BY DEF Pack
<1>4. /\ IsAnnotation(a) /\ IsValue(v) /\ launcher.keysRange \in BOOLEAN
      /\ Skipped(a) => v.kind # "tensor"
  <2>1. a.how \in {"public", "baked", "tensor", "pointer"} /\ IsAnnotation(a)
    BY <1>2, CallsTyped, AnnotationsTyped DEF Param
  <2>2. a.kind = "argument" \/ a.how \in {"public", "baked"}
    BY <2>1 DEF IsAnnotation
  <2> QED BY <1>2, <2>2, PassedValue
<1>5. CASE Skipped(a)
  <2>1. WasPacked(a, v, TRUE)
    <3>1. Answers(a, v) = {TRUE}
      BY <1>4, <1>5 DEF Answers
    <3> HIDE DEF a, v
    <3> QED BY <1>5, <3>1 DEF WasPacked
  <2>2. FieldsNow = {}
    <3>1. CacheKeyFields(a) = {}
      BY <1>5 DEF Skipped, CacheKeyFields
    <3>2. ASSUME NEW f \in Fields(launcher), f.param = i PROVE FALSE
      <4>1. PICK j \in DOMAIN launcher.params :
              f \in {[param |-> j, kind |-> g.kind, width |-> g.width] : g \in CacheKeyFields(launcher.params[j])}
        BY <3>2 DEF Fields
      <4>2. j = i
        BY <3>2, <4>1
      <4> QED BY <3>1, <4>1, <4>2 DEF Param
    <3> QED BY <1>2, <3>2 DEF FieldsNow
  <2> DEFINE none == <<>>
  <2>3. Packed(TRUE, none, <<>>)
    BY <1>3, <1>5
  <2>6. DOMAIN none = FieldsNow
    BY <2>2
  <2> HIDE DEF none, a, v
  <2>4. WasPacked(Param(Current), Passed(call, Current), TRUE)
    BY <2>1 DEF a, v
  <2>5. \A f \in FieldsNow :
          none[f] = Content(f, Param(Current), Decode(Param(Current), Passed(call, Current), TRUE))
    BY <2>2
  <2>7. Slot(Param(Current), Decode(Param(Current), Passed(call, Current), TRUE)) = <<>>
    BY <1>5 DEF Skipped, Slot, Pushes, a
  <2> QED BY <1>1, <2>3, <2>4, <2>5, <2>6, <2>7, PackedKeeps
<1>6. CASE ~Skipped(a)
  <2> DEFINE d == Decode(a, v, w)
             contents == [f \in FieldsNow |-> Content(f, a, d)]
             pushed == IF Pushes(a, d) THEN <<PackValue(TypeOf(a, d), d.bits)>> ELSE <<>>
  <2>1. CASE ~Accepts(a, d) \/ (a.exactKey /\ d.kind = "tensor")
    BY <1>3, <1>6, <2>1
  <2>2. CASE ~(~Accepts(a, d) \/ (a.exactKey /\ d.kind = "tensor"))
    <3>1. Packed(w, contents, pushed)
      BY <1>3, <1>6, <2>2
    <3>2. WasPacked(a, v, w)
      <4>1. /\ w \in BOOLEAN /\ (v.kind # "tensor" => w = TRUE)
            /\ (a.modes["range"] = "auto" /\ launcher.keysRange) => w \in Answers(a, v)
        BY <1>3, <1>4, AskedRange
      <4> HIDE DEF a, v
      <4> QED BY <2>2, <4>1 DEF WasPacked
    <3>3. /\ DOMAIN contents = FieldsNow
          /\ \A f \in FieldsNow : contents[f] = Content(f, a, d)
      OBVIOUS
    <3>4. pushed = Slot(a, d)
      BY DEF Slot
    <3> HIDE DEF contents, pushed
    <3> QED BY <1>1, <3>1, <3>2, <3>3, <3>4, PackedKeeps
  <2> QED BY <2>1, <2>2
<1> QED BY <1>5, <1>6

(* So does the auto path: it writes what the general one writes. *)
LEMMA PackAutoKeeps ==
  ASSUME HitInv, PackAuto
  PROVE  call' = Idle \/ (CallRight(call') /\ call'.pc = "pack")
<1> DEFINE i == Current
           a == Param(i)
           v == Passed(call, i)
           w == v.kind # "tensor" \/ v.small
           contents == [f \in FieldsNow |-> AutoContent(f, a, v)]
           pushed == AutoPushed(a, v)
<1>1. Packing /\ AutoDecodes
  BY DEF PackAuto
<1>2. /\ CallTyped(call) /\ launcher \in Launchers /\ DOMAIN offset = Fields(launcher)
      /\ i \in DOMAIN launcher.params
  BY <1>1, PackingCall
<1>3. IF ~AutoAccepts(a, v) THEN call' = Idle ELSE Packed(w, contents, pushed)
  BY DEF PackAuto
<1>4. Plain(a) /\ a.how = "public"
  BY <1>1, <1>2 DEF AutoDecodes, Plain
<1>5. IsAnnotation(a) /\ IsValue(v) /\ launcher.keysRange \in BOOLEAN
  BY <1>2, <1>4, PassedValue
<1>6. CASE AutoAccepts(a, v)
  <2>1. /\ WasPacked(a, v, w)
        /\ \A f : \A g \in CacheKeyFields(a) : f.kind = g.kind /\ f.width = g.width =>
             AutoContent(f, a, v) = Content(f, a, Decode(a, v, w))
    BY <1>4, <1>5, <1>6, AutoPacks
  <2>2. ASSUME NEW f \in FieldsNow
        PROVE  contents[f] = Content(f, a, Decode(a, v, w))
    <3>1. f \in Fields(launcher) /\ f.param = i
      BY <1>2, <2>2 DEF FieldsNow
    <3>2. PICK j \in DOMAIN launcher.params :
            f \in {[param |-> j, kind |-> g.kind, width |-> g.width] : g \in CacheKeyFields(launcher.params[j])}
      BY <3>1 DEF Fields
    <3>3. j = i
      BY <3>1, <3>2
    <3>4. PICK g \in CacheKeyFields(a) : f.kind = g.kind /\ f.width = g.width
      BY <3>2, <3>3 DEF Param
    <3>5. contents[f] = AutoContent(f, a, v)
      BY <2>2
    <3> HIDE DEF contents, a, v, w
    <3> QED BY <2>1, <3>4, <3>5
  <2>3. Packed(w, contents, pushed) /\ DOMAIN contents = FieldsNow
    BY <1>3, <1>6
  <2>4. pushed = Slot(a, Decode(a, v, w))
    BY <1>4, <1>5, <1>6, AutoPushes
  <2> HIDE DEF contents, pushed, w
  <2> QED BY <1>1, <2>1, <2>2, <2>3, <2>4, PackedKeeps
<1> QED BY <1>3, <1>6

(* A call starts with an empty key, of no parameter. *)
LEMMA CallKeeps ==
  ASSUME HitInv, NEW args \in Arguments(launcher), NEW dev \in CallDevices, Call(args, dev)
  PROVE  CallRight(call') /\ call'.pc = "pack"
<1> DEFINE c == [pc |-> "pack", args |-> args, dev |-> dev, key |-> {}, vals |-> <<>>, within |-> <<>>]
<1>1. call' = c /\ Placed /\ (~launcher.fixedDevice => dev < DeviceCount)
  BY DEF Call
<1>2. launcher \in Launchers
  BY DEF HitInv, LayoutInv, LayoutTypes
<1>3. Len(launcher.params) \in Nat /\ \A f \in Fields(launcher) : f.param \in 1 .. Len(launcher.params)
  BY <1>2, FieldsOf
<1>4. /\ c.pc = "pack" /\ c.args = args /\ c.dev = dev /\ c.key = {} /\ c.vals = <<>>
      /\ c.within = <<>> /\ Len(c.within) = 0
  OBVIOUS
<1>5. c = [pc |-> c.pc, args |-> c.args, dev |-> c.dev, key |-> c.key, vals |-> c.vals, within |-> c.within]
  OBVIOUS
<1>6. c.within \in Seq(BOOLEAN)
  OBVIOUS
<1> HIDE DEF c
<1>7. CallTyped(c)
  BY <1>1, <1>3, <1>4, <1>5, <1>6 DEF CallTyped
<1>8. KeyUpTo(c, 0) = {}
  <2>1. FieldsUpTo(0) = {}
    BY <1>3 DEF FieldsUpTo
  <2> QED BY <2>1 DEF KeyUpTo
<1>9. CallKeyed(c)
  BY <1>4, <1>8 DEF CallKeyed
<1>10. CallSlots(c)
  <2>1. SlotsUpTo(c, 0) = {} /\ Cardinality(SlotsUpTo(c, 0)) = 0
    <3>1. SlotsUpTo(c, 0) = {}
      BY DEF SlotsUpTo
    <3> QED BY <3>1, FS_EmptySet
  <2>2. Tuple(c.vals, 0)
    BY <1>4 DEF Tuple
  <2> QED BY <1>4, <2>1, <2>2 DEF CallSlots, Slotted
<1> QED BY <1>1, <1>4, <1>7, <1>9, <1>10 DEF CallRight

(* Slots are those of the arguments and the ranges. *)
LEMMA KeptSlots ==
  ASSUME NEW c, CallSlots(c), NEW e, e.args = c.args, e.within = c.within, e.vals = c.vals
  PROVE  CallSlots(e)
<1>1. \A i : ParamDecoded(e, i) = ParamDecoded(c, i)
  BY DEF ParamDecoded, Passed
<1>2. \A n : SlotsUpTo(e, n) = SlotsUpTo(c, n)
  BY <1>1 DEF SlotsUpTo
<1>3. \A n : SlotValues(e, n) = SlotValues(c, n)
  BY <1>1 DEF SlotValues, SlotValue
<1> QED BY <1>2, <1>3 DEF CallSlots

(* A call that packed all goes on with its key. *)
LEMMA DeviceKeeps ==
  ASSUME HitInv, PackDevice
  PROVE  CallRight(call') /\ call'.pc = "walk"
<1> DEFINE c == call
           all == c.key \union DeviceKey(c)
           e == [pc |-> "walk", args |-> c.args, dev |-> c.dev, key |-> all, vals |-> c.vals, within |-> c.within]
<1>1. c.pc = "pack" /\ Current > Len(launcher.params) /\ c # Idle
  BY DEF PackDevice, Idle
<1>2. CallTyped(c) /\ CallKeyed(c) /\ CallSlots(c)
  BY <1>1 DEF HitInv, CallInv, CallRight
<1>3. c = [pc |-> c.pc, args |-> c.args, dev |-> c.dev, key |-> c.key, vals |-> c.vals, within |-> c.within]
  BY <1>2 DEF CallTyped
<1>4. call' = [c EXCEPT !.pc = "walk", !.key = all]
  BY DEF PackDevice, DeviceKey
<1> HIDE DEF c, all
<1>5. call' = e
  BY <1>3, <1>4
<1>6. /\ e.pc = "walk" /\ e.args = c.args /\ e.dev = c.dev /\ e.key = all /\ e.vals = c.vals
      /\ e.within = c.within
  OBVIOUS
<1>7. e = [pc |-> e.pc, args |-> e.args, dev |-> e.dev, key |-> e.key, vals |-> e.vals, within |-> e.within]
  OBVIOUS
<1> HIDE DEF e
<1>8. CallTyped(e)
  BY <1>2, <1>6, <1>7 DEF CallTyped
<1>9. Len(c.within) = Len(launcher.params)
  <2>1. launcher \in Launchers
    BY DEF HitInv, LayoutInv, LayoutTypes
  <2>2. Len(launcher.params) \in Nat
    BY <2>1, FieldsOf
  <2>3. Len(c.within) \in Nat /\ Len(c.within) <= Len(launcher.params)
    BY <1>2 DEF CallTyped
  <2>4. Len(c.within) + 1 > Len(launcher.params)
    BY <1>1 DEF Current, c
  <2> QED BY <2>2, <2>3, <2>4
<1>10. \A n : KeyUpTo(e, n) = KeyUpTo(c, n)
  <2>1. \A i : Passed(e, i) = Passed(c, i)
    BY <1>6 DEF Passed
  <2>2. \A f : FieldContent(e, f) = FieldContent(c, f)
    BY <1>6, <2>1 DEF FieldContent
  <2> QED BY <2>2 DEF KeyUpTo
<1>11. all = KeyOf(e)
  <2>1. c.key = KeyUpTo(c, Len(launcher.params))
    BY <1>1, <1>2, <1>9 DEF CallKeyed
  <2>2. DeviceKey(e) = DeviceKey(c)
    BY <1>6 DEF DeviceKey
  <2> QED BY <1>10, <2>1, <2>2 DEF KeyOf, all
<1>12. \A i \in 1 .. Len(e.within) : ParamPacked(e, i)
  BY <1>2, <1>6 DEF CallKeyed, ParamPacked, Passed
<1>13. CallKeyed(e)
  BY <1>6, <1>9, <1>11, <1>12 DEF CallKeyed
<1>14. CallSlots(e)
  BY <1>2, <1>6, KeptSlots
<1> QED BY <1>5, <1>6, <1>8, <1>13, <1>14 DEF CallRight

(* A call that found its kernel, or compiled it, goes on unchanged.        *)
LEMMA LaunchKeeps ==
  ASSUME HitInv, call.pc = "walk", call' = [call EXCEPT !.pc = "launch"]
  PROVE  CallRight(call') /\ call'.pc = "launch" /\ call'.key = call.key
<1> DEFINE c == call
           e == [pc |-> "launch", args |-> c.args, dev |-> c.dev, key |-> c.key, vals |-> c.vals, within |-> c.within]
<1>1. CallTyped(c) /\ CallKeyed(c) /\ CallSlots(c)
  BY DEF HitInv, CallInv, CallRight, Idle
<1>2. c = [pc |-> c.pc, args |-> c.args, dev |-> c.dev, key |-> c.key, vals |-> c.vals, within |-> c.within]
  BY <1>1 DEF CallTyped
<1>3. c.pc = "walk" /\ call' = [c EXCEPT !.pc = "launch"]
  OBVIOUS
<1> HIDE DEF c
<1>4. call' = e
  BY <1>2, <1>3
<1>5. /\ e.pc = "launch" /\ e.args = c.args /\ e.dev = c.dev /\ e.key = c.key /\ e.vals = c.vals
      /\ e.within = c.within
  OBVIOUS
<1>6. e = [pc |-> e.pc, args |-> e.args, dev |-> e.dev, key |-> e.key, vals |-> e.vals, within |-> e.within]
  OBVIOUS
<1> HIDE DEF e
<1>7. CallTyped(e)
  BY <1>1, <1>5, <1>6 DEF CallTyped
<1>8. \A i : Passed(e, i) = Passed(c, i)
  BY <1>5 DEF Passed
<1>9. \A f : FieldContent(e, f) = FieldContent(c, f)
  BY <1>5, <1>8 DEF FieldContent
<1>10. KeyOf(e) = KeyOf(c)
  BY <1>5, <1>9 DEF KeyOf, KeyUpTo, DeviceKey
<1>11. \A i : ParamPacked(e, i) <=> ParamPacked(c, i)
  BY <1>5, <1>8 DEF ParamPacked
<1>12. CallKeyed(e)
  BY <1>1, <1>3, <1>5, <1>10, <1>11 DEF CallKeyed
<1>13. e.key = c.key
  BY <1>5
<1>14. CallSlots(e)
  BY <1>1, <1>5, KeptSlots
<1> QED BY <1>4, <1>5, <1>7, <1>12, <1>13, <1>14 DEF CallRight, c

(* What a miss compiles, it compiles for its key. *)
LEMMA MissCompiles ==
  ASSUME HitInv, call.pc = "walk", NEW again \in [DOMAIN launcher.params -> BOOLEAN],
         \A i \in DOMAIN again : again[i] \in Answers(Param(i), Passed(call, i))
  PROVE  Placed /\ CompiledFor(call.key, Compiled(call, again))
<1> DEFINE c == [args |-> call.args, dev |-> call.dev, within |-> call.within]
<1>1. CallTyped(call) /\ CallKeyed(call)
  BY DEF HitInv, CallInv, CallRight, Idle
<1>2. launcher \in Launchers
  BY DEF HitInv, LayoutInv, LayoutTypes
<1>3. DOMAIN launcher.params = 1 .. Len(launcher.params) /\ Len(launcher.params) \in Nat
  BY <1>2, FieldsOf
<1>4. Len(call.within) = Len(launcher.params) /\ call.key = KeyOf(call)
  BY <1>1 DEF CallKeyed
<1>5. call.within \in [DOMAIN launcher.params -> BOOLEAN]
  <2>1. call.within \in Seq(BOOLEAN)
    BY <1>1 DEF CallTyped
  <2>2. call.within \in [1 .. Len(call.within) -> BOOLEAN]
    BY <2>1, LenProperties
  <2> QED BY <1>3, <1>4, <2>2
<1>6. c \in Packings
  BY <1>1, <1>5 DEF CallTyped, Packings
<1>7. c.args = call.args /\ c.dev = call.dev /\ c.within = call.within
  OBVIOUS
<1> HIDE DEF c
<1>8. \A i : Passed(c, i) = Passed(call, i)
  BY <1>7 DEF Passed
<1>9. KeyOf(c) = KeyOf(call)
  <2>1. \A f : FieldContent(c, f) = FieldContent(call, f)
    BY <1>7, <1>8 DEF FieldContent
  <2> QED BY <1>7, <2>1 DEF KeyOf, KeyUpTo, DeviceKey
<1>10. PackedCall(c)
  <2>1. \A i \in DOMAIN launcher.params : ParamPacked(call, i)
    BY <1>1, <1>3, <1>4 DEF CallKeyed
  <2>2. \A i \in DOMAIN launcher.params : ParamPacked(c, i)
    BY <1>7, <1>8, <2>1 DEF ParamPacked
  <2> QED BY <1>1, <1>7, <2>2 DEF CallTyped, PackedCall
<1>11. Compiled(c, again) = Compiled(call, again)
  <2>1. \A i : RangeShown(c, i, again) = RangeShown(call, i, again)
    BY <1>7 DEF RangeShown
  <2>2. \A named : CallSets(c, named) = CallSets(call, named)
    BY <1>8 DEF CallSets
  <2>3. CallOptions(c) = CallOptions(call) /\ CallKnobs(c) = CallKnobs(call)
    BY <2>2 DEF CallOptions, CallKnobs
  <2>4. CompileKnobs(c) = CompileKnobs(call)
    BY <2>3 DEF CompileKnobs
  <2> QED BY <1>7, <1>8, <2>1, <2>3, <2>4 DEF Compiled
<1>12. CompiledBy(c, again, call.key, Compiled(call, again))
  BY <1>4, <1>8, <1>9, <1>10, <1>11 DEF CompiledBy
<1> QED BY <1>1, <1>6, <1>12 DEF CallTyped, CompiledFor

-----------------------------------------------------------------------------
(* The invariant holds before the first call. *)
LEMMA HitInitInv == Init => HitInv
<1> SUFFICES ASSUME Init PROVE HitInv
  OBVIOUS
<1>1. LayoutInv
  BY LayoutInitInv
<1>2. call = Idle /\ DOMAIN cache = {}
  BY DEF Init
<1> QED BY <1>1, <1>2 DEF HitInv, CallInv, CacheInv

(* Where the next state's call is right and its cache too. *)
LEMMA CallIsKept ==
  ASSUME UNCHANGED layout,
         call' = Idle \/ (CallRight(call')
                          /\ (call'.pc = "launch" => call'.key \in DOMAIN cache'))
  PROVE  CallInv'
<1>1. \A c : CallRight(c)' <=> CallRight(c)
  BY KeptCalls
<1> QED BY <1>1 DEF CallInv

(* Steps that compile nothing keep the records right. *)
LEMMA CacheIsKept ==
  ASSUME CacheInv, UNCHANGED layout,
         \A key \in DOMAIN cache' :
           \/ key \in DOMAIN cache /\ cache'[key] = cache[key]
           \/ Placed /\ CompiledFor(key, cache'[key])
  PROVE  CacheInv'
<1>1. /\ Placed' <=> Placed
      /\ \A k, r : CompiledFor(k, r)' <=> CompiledFor(k, r)
  BY KeptCalls
<1> QED BY <1>1 DEF CacheInv

(* The invariant is kept by every step. *)
LEMMA HitNextInv == HitInv /\ [Next]_vars => HitInv'
<1> SUFFICES ASSUME HitInv, [Next]_vars PROVE CallInv' /\ CacheInv'
  BY LayoutNextInv DEF HitInv
<1>1. CacheInv /\ launcher \in Launchers
  BY DEF HitInv, LayoutInv, LayoutTypes
<1>2. ASSUME UNCHANGED layout, UNCHANGED cache PROVE CacheInv'
  BY <1>1, <1>2, CacheIsKept
<1>3. CASE PlaceStep
  <2>1. ~Placed /\ UNCHANGED <<cache, call>>
    BY <1>3 DEF PlaceStep, Place, PlaceDevice, Placed
  <2>2. call = Idle
    BY <2>1 DEF HitInv, CallInv, CallRight, CallTyped
  <2>3. DOMAIN cache = {}
    BY <1>1, <2>1 DEF CacheInv
  <2> QED BY <2>1, <2>2, <2>3 DEF CallInv, CacheInv
<1>4. ASSUME NEW args \in Arguments(launcher), NEW dev \in CallDevices, Call(args, dev)
      PROVE  CallInv' /\ CacheInv'
  <2>1. UNCHANGED layout /\ UNCHANGED cache
    BY <1>4 DEF Call
  <2>2. CallRight(call') /\ call'.pc = "pack"
    BY <1>4, CallKeeps
  <2> QED BY <1>2, <2>1, <2>2, CallIsKept
<1>5. CASE Pack
  <2>1. UNCHANGED layout /\ UNCHANGED cache
    BY <1>5 DEF Pack
  <2>2. call' = Idle \/ (CallRight(call') /\ call'.pc = "pack")
    BY <1>5, PackKeeps
  <2> QED BY <1>2, <2>1, <2>2, CallIsKept
<1>6. CASE PackAuto
  <2>1. UNCHANGED layout /\ UNCHANGED cache
    BY <1>6 DEF PackAuto
  <2>2. call' = Idle \/ (CallRight(call') /\ call'.pc = "pack")
    BY <1>6, PackAutoKeeps
  <2> QED BY <1>2, <2>1, <2>2, CallIsKept
<1>7. CASE ReadFails \/ MissFails \/ Launch
  <2>1. UNCHANGED layout /\ UNCHANGED cache /\ call' = Idle
    BY <1>7 DEF ReadFails, MissFails, Launch
  <2> QED BY <1>2, <2>1, CallIsKept
<1>8. CASE PackDevice
  <2>1. UNCHANGED layout /\ UNCHANGED cache
    BY <1>8 DEF PackDevice
  <2>2. CallRight(call') /\ call'.pc = "walk"
    BY <1>8, DeviceKeeps
  <2> QED BY <1>2, <2>1, <2>2, CallIsKept
<1>9. CASE Hit
  <2>1. /\ UNCHANGED layout /\ UNCHANGED cache
        /\ call.pc = "walk" /\ call' = [call EXCEPT !.pc = "launch"] /\ call.key \in DOMAIN cache
    BY <1>9 DEF Hit
  <2>2. CallRight(call') /\ call'.pc = "launch" /\ call'.key = call.key
    BY <2>1, LaunchKeeps
  <2> QED BY <1>2, <2>1, <2>2, CallIsKept
<1>10. CASE Miss
  <2>1. /\ UNCHANGED layout
        /\ call.pc = "walk" /\ call' = [call EXCEPT !.pc = "launch"]
    BY <1>10 DEF Miss
  <2>2. PICK again \in [DOMAIN launcher.params -> BOOLEAN] :
          /\ \A i \in DOMAIN again : again[i] \in Answers(Param(i), Passed(call, i))
          /\ cache' = [k \in DOMAIN cache \union {call.key} |->
                         IF k = call.key THEN Compiled(call, again) ELSE cache[k]]
    BY <1>10 DEF Miss
  <2>3. Placed /\ CompiledFor(call.key, Compiled(call, again))
    BY <2>1, <2>2, MissCompiles
  <2>4. CallRight(call') /\ call'.pc = "launch" /\ call'.key = call.key
    BY <2>1, LaunchKeeps
  <2>5. call.key \in DOMAIN cache'
    BY <2>2
  <2>6. \A key \in DOMAIN cache' :
          \/ key \in DOMAIN cache /\ cache'[key] = cache[key]
          \/ Placed /\ CompiledFor(key, cache'[key])
    BY <2>2, <2>3
  <2> QED BY <1>1, <2>1, <2>4, <2>5, <2>6, CallIsKept, CacheIsKept
<1>11. CASE UNCHANGED vars
  <2>1. UNCHANGED layout /\ UNCHANGED cache /\ call' = call
    BY <1>11 DEF vars
  <2>2. call' = Idle \/ (CallRight(call')
                         /\ (call'.pc = "launch" => call'.key \in DOMAIN cache'))
    BY <2>1 DEF HitInv, CallInv
  <2> QED BY <1>2, <2>1, <2>2, CallIsKept
<1> QED BY <1>3, <1>4, <1>5, <1>6, <1>7, <1>8, <1>9, <1>10, <1>11 DEF Next

(* For launchers of any number of parameters, any annotations and any      *)
(* arguments that their calls pass: a kernel found under a call's key is   *)
(* the one that the call itself would compile, and was tuned for its       *)
(* exact values.                                                           *)
THEOREM HitsAreRight == Spec => []HitIsRight
<1>1. Init => HitInv
  BY HitInitInv
<1>2. HitInv /\ [Next]_vars => HitInv'
  BY HitNextInv
<1>3. HitInv => HitIsRight
  BY FoundIsRight
<1> QED BY <1>1, <1>2, <1>3, PTL DEF Spec

-----------------------------------------------------------------------------
(* The slots that a kernel takes *)

(* A parameter that Triton typed is passed as its type has it: an integer  *)
(* or a bool passes to a float's as the double that it converts to.        *)
LEMMA TypedPasses ==
  ASSUME NEW a, IsAnnotation(a), IsTyped(a), NEW v, IsValue(v),
         NEW d, d = DecodeTyped(a, v), d.kind # "refused"
  PROVE  AsParameter(TheType(a), v) = PackValue(TheType(a), d.bits)
<1> DEFINE t == TheType(a)
<1>1. t \in ArgumentTypes /\ Two64 \in Nat /\ Two64 >= 4 /\ v.n \in Int
  BY TypedIsFixed, TheTypeIs, HalfFacts DEF IsAnnotation, IsValue
<1>2. d.kind # "refused" => d # Refused
  BY DEF Refused, Decoded
<1>3. CASE t.cls = "float"
  <2>1. t \in {Float(32), Float(64)} /\ Float(32) # Float(64)
    BY <1>1, <1>3 DEF ArgumentTypes, ConstexprTypes, NoneType, BoolType, Float, Signed, Unsigned, Pointer, Type
  <2>2. d = DecodeTypedFloat(v)
    BY <1>3 DEF DecodeTyped
  <2>3. v.kind \in {"int", "bool", "float"}
    BY <1>2, <2>2 DEF DecodeTypedFloat
  <2>4. d.bits = IF v.kind = "float" THEN v.n ELSE DoubleOf[v.n]
    BY <2>2, <2>3 DEF DecodeTypedFloat, Decoded
  <2> HIDE DEF t
  <2> QED BY <2>1, <2>3, <2>4 DEF AsParameter, PackValue, t
<1>4. CASE t.cls # "float"
  <2>1. t # Float(32) /\ t # Float(64)
    BY <1>4 DEF Float, Type
  <2>2. d = DecodeTypedInt(t, v)
    BY <1>4 DEF DecodeTyped
  <2>3. v.kind \in {"int", "bool"} /\ d.bits = v.n % Two64
    <3>1. CASE v.kind = "bool"
      <4>1. d.bits = v.n /\ v.n \in {0, 1}
        BY <2>2, <3>1 DEF DecodeTypedInt, Decoded, IsValue
      <4>2. v.n % Two64 = v.n
        BY <1>1, <4>1, SmallRemainder
      <4> QED BY <3>1, <4>1, <4>2
    <3>2. CASE v.kind = "int"
      <4>1. /\ DecodeInt(v.n) # Refused
            /\ \/ d = Decoded("u64", DecodeInt(v.n).bits)
               \/ d = DecodeInt(v.n)
        BY <1>2, <2>2, <3>2 DEF DecodeTypedInt, Refused, Decoded
      <4>2. DecodeInt(v.n).kind # "refused"
        BY <4>1 DEF DecodeInt, Refused, Decoded
      <4>3. d.bits = DecodeInt(v.n).bits
        BY <4>1 DEF Decoded
      <4>4. DecodeInt(v.n).bits = v.n % Two64
        BY <1>1, <4>2, DecodedInt
      <4> QED BY <3>2, <4>3, <4>4
    <3>3. CASE v.kind \notin {"int", "bool"}
      BY <1>2, <2>2, <3>3 DEF DecodeTypedInt
    <3> QED BY <3>1, <3>2, <3>3
  <2> HIDE DEF t
  <2> QED BY <2>1, <2>3 DEF AsParameter, PackValue, t
<1> QED BY <1>3, <1>4

(* What is no float has no float's type. *)
LEMMA NotFloat ==
  ASSUME NEW d, d.kind \in {"tensor", "i64", "u64", "bool", "none"},
         NEW t, t = InferType(d) \/ TypeValid(t, d) \/ t.cls = "pointer"
  PROVE  t.cls # "float"
<1>1. CASE t = InferType(d)
  <2>1. InferType(d) \in {Pointer(d.dtype), BoolType, Signed(32), Signed(64), Unsigned(64), NoneType}
    BY DEF InferType
  <2> QED BY <1>1, <2>1 DEF Pointer, BoolType, Signed, Unsigned, NoneType, Type
<1>2. CASE TypeValid(t, d)
  BY <1>2 DEF TypeValid
<1> QED BY <1>1, <1>2

(* So is any other of a type that it has. *)
LEMMA UntypedPasses ==
  ASSUME NEW a, a.kind = "argument", ~IsTyped(a), NEW v, IsValue(v), NEW w,
         NEW d, d = Decode(a, v, w), d.kind # "refused",
         NEW t, \/ t = InferType(d)
                \/ t \in ArgumentTypes /\ TypeValid(t, d)
                \/ t.cls = "pointer"
  PROVE  AsParameter(t, v) = PackValue(t, d.bits)
<1>1. Two64 \in Nat /\ Two64 >= 4 /\ v.n \in Int
  BY HalfFacts DEF IsValue
<1>2. t.cls # "float" => t # Float(32) /\ t # Float(64)
  BY DEF Float, Type
<1>3. \A n \in 0 .. Two64 - 1 : n % Two64 = n
  <2> SUFFICES ASSUME NEW n \in 0 .. Two64 - 1 PROVE n % Two64 = n
    OBVIOUS
  <2>1. n \in -Two64 .. Two64 - 1 /\ ~(n < 0)
    BY <1>1
  <2> QED BY <1>1, <2>1, SmallRemainder
<1>4. CASE v.kind = "tensor"
  <2>1. d.kind = "tensor" /\ d.bits = v.n
    BY <1>4 DEF Decode, DecodeTensor
  <2>2. t.cls # "float"
    BY <2>1, NotFloat
  <2>3. v.n \in 0 .. Two64 - 1
    BY <1>4 DEF IsValue
  <2> QED BY <1>2, <1>3, <1>4, <2>1, <2>2, <2>3 DEF AsParameter, PackValue
<1>5. CASE v.kind # "tensor"
  <2>1. d = DecodeScalar(v) /\ DecodeScalar(v).kind # "refused"
    <3>1. d = IF a.tensorOnly /\ ~(a.noneOk /\ v.kind = "none") THEN Refused ELSE DecodeScalar(v)
      BY <1>5 DEF Decode
    <3> QED BY <3>1 DEF Refused, Decoded
  <2>2. /\ v.kind \in {"int", "bool", "float", "none"}
        /\ v.kind = "int" => d = DecodeInt(v.n)
    BY <2>1, ScalarTells
  <2>3. CASE v.kind = "int"
    <3>1. d.bits = v.n % Two64 /\ d.kind \in {"i64", "u64"}
      BY <1>1, <2>1, <2>2, <2>3, DecodedInt
    <3>2. t.cls # "float"
      BY <3>1, NotFloat
    <3> QED BY <1>2, <2>3, <3>1, <3>2 DEF AsParameter, PackValue
  <2>4. CASE v.kind = "bool"
    <3>1. d.kind = "bool" /\ d.bits = v.n /\ v.n \in {0, 1}
      BY <2>1, <2>4 DEF DecodeScalar, Decoded, IsValue
    <3>2. t.cls # "float"
      BY <3>1, NotFloat
    <3>3. v.n % Two64 = v.n
      BY <1>1, <1>3, <3>1
    <3> QED BY <1>2, <2>4, <3>1, <3>2, <3>3 DEF AsParameter, PackValue
  <2>5. CASE v.kind = "float"
    <3>1. d.kind = "fp64" /\ d.bits = v.n /\ v.n \in 0 .. Two64 - 1
      BY <2>1, <2>5 DEF DecodeScalar, Decoded, IsValue
    <3>2. v.n % Two64 = v.n
      BY <1>3, <3>1
    <3>3. Float(32) # Float(64)
      BY DEF Float, Type
    <3> QED BY <2>5, <3>1, <3>2, <3>3 DEF AsParameter, PackValue
  <2>6. CASE v.kind = "none"
    <3>1. d.kind = "none" /\ d.bits = 0
      BY <2>1, <2>6 DEF DecodeScalar, Decoded
    <3>2. t.cls # "float"
      BY <3>1, NotFloat
    <3> QED BY <1>2, <2>6, <3>1, <3>2 DEF AsParameter, PackValue
  <2> QED BY <2>2, <2>3, <2>4, <2>5, <2>6
<1> QED BY <1>4, <1>5

(* What a parameter, packed, is to its kernel: one that takes a value in a *)
(* slot, as that of its type, or one that is a constant of its signature.  *)
Passes(a, v, d, input) ==
  /\ input.type # Constexpr <=> Pushes(a, d)
  /\ Pushes(a, d) => AsParameter(input.type, v) = PackValue(TypeOf(a, d), d.bits)

(* An argument of a type that was coded passes as the type that is         *)
(* compiled.                                                               *)
LEMMA KeyedPasses ==
  ASSUME NEW a, a.kind = "argument", NEW v, NEW d, NEW t \in ArgumentTypes, t = TypeOf(a, d),
         AsParameter(t, v) = PackValue(t, d.bits)
  PROVE  Passes(a, v, d, KeyedInput(a, t, d))
<1>1. t # Constexpr
  BY DEF ArgumentTypes, ConstexprTypes, NoneType, BoolType, Float, Signed, Unsigned, Pointer, Type, Constexpr
<1>2. KeyedInput(a, t, d).type = IF IsOne(a, t, d) \/ t = NoneType THEN Constexpr ELSE t
  BY DEF KeyedInput
<1>3. Pushes(a, d) <=> ~(IsOne(a, t, d) \/ t = NoneType)
  BY DEF Pushes
<1> QED BY <1>1, <1>2, <1>3 DEF Passes

(* A public argument. *)
LEMMA PublicPasses ==
  ASSUME NEW a, IsAnnotation(a), a.kind = "argument", a.how = "public",
         launcher.keysRange \in BOOLEAN, NEW v, IsValue(v), NEW w, WasPacked(a, v, w)
  PROVE  Passes(a, v, Decode(a, v, w), ArgumentInput(a, v, w))
<1> DEFINE d == Decode(a, v, w)
           t == TypeOf(a, d)
<1>1. w \in BOOLEAN /\ RangeAgrees(a, v, w, w) /\ Accepts(a, d) /\ d # Refused /\ Checks(a, d)
  BY DEF WasPacked, RangeAgrees, Skipped, Accepts
<1>2. t \in ArgumentTypes /\ ArgumentInput(a, v, w) = KeyedInput(a, t, d)
  BY <1>1, InputOfArgument
<1>3. d.kind # "refused"
  BY <1>1, AcceptedKind
<1>4. t = IF Fixed(a) THEN TheType(a) ELSE InferType(d)
  BY ArgumentTypeOf
<1>5. AsParameter(t, v) = PackValue(t, d.bits)
  <2>1. CASE IsTyped(a)
    <3>1. d = DecodeTyped(a, v)
      BY <2>1 DEF Decode
    <3>2. t = TheType(a)
      BY <1>4, <2>1, TypedIsFixed
    <3> HIDE DEF d, t
    <3> QED BY <1>3, <2>1, <3>1, <3>2, TypedPasses
  <2>2. CASE ~IsTyped(a)
    <3>1. t = InferType(d) \/ TypeValid(t, d)
      <4>1. Fixed(a) => a.types # {} /\ OneType(a)
        BY DEF Fixed, Inferred
      <4>2. Fixed(a) => TypeValid(TheType(a), d)
        BY <1>1, <2>2, <4>1 DEF Checks
      <4> HIDE DEF d, t
      <4> QED BY <1>4, <4>2
    <3> HIDE DEF t
    <3> QED BY <1>2, <1>3, <2>2, <3>1, UntypedPasses
  <2> QED BY <2>1, <2>2
<1> HIDE DEF t
<1>6. Passes(a, v, d, KeyedInput(a, t, d))
  BY <1>2, <1>5, KeyedPasses DEF t
<1> QED BY <1>2, <1>6

(* A baked one: its value is of its type. *)
LEMMA BakedPasses ==
  ASSUME NEW a, IsAnnotation(a), a.kind = "argument", a.how = "baked",
         TypeValid(TheType(a), Decode(a, a.value, TRUE)),
         launcher.keysRange \in BOOLEAN, NEW v, v = a.value, NEW w, WasPacked(a, v, w)
  PROVE  Passes(a, v, Decode(a, v, w), ArgumentInput(a, v, w))
<1> DEFINE d == Decode(a, v, w)
           t == TheType(a)
<1>1. IsValue(v) /\ v.kind # "tensor" /\ OneType(a) /\ a.types \subseteq ArgumentTypes
  BY DEF IsAnnotation
<1>2. w = TRUE /\ d # Refused
  BY <1>1 DEF WasPacked, Skipped, Accepts
<1>3. Fixed(a) /\ ~IsTyped(a)
  <2>1. OneType(a) => ~Inferred(a)
    BY FS_EmptySet DEF OneType, Inferred
  <2> QED BY <1>1, <2>1 DEF Fixed, IsTyped
<1>4. t \in ArgumentTypes
  BY <1>1, <1>3, TheTypeIs
<1>5. d.kind # "refused" /\ TypeValid(t, d)
  BY <1>1, <1>2, AcceptedKind
<1>6. TypeOf(a, d) = t
  BY <1>3, ArgumentTypeOf
<1> HIDE DEF t
<1>7. Reads(v, w, t, d)
  BY <1>1, <1>2, <1>3, <1>4, <1>5, UntypedReads
<1>8. AsParameter(t, v) = PackValue(t, d.bits)
  BY <1>1, <1>3, <1>4, <1>5, UntypedPasses
<1>9. ~(IsInteger(t) /\ d.kind = "bool")
  BY <1>5 DEF TypeValid, IsInteger
<1>10. ArgumentInput(a, v, w) = KeyedInput(a, t, d)
  <2> HIDE DEF d
  <2>1. t = TheType(a)
    BY DEF t
  <2>2. w \in BOOLEAN /\ w = (v.kind # "tensor" \/ w)
    BY <1>1, <1>2
  <2> QED BY <1>1, <1>3, <1>4, <1>7, <1>9, <2>1, <2>2, InputOfReads
<1>11. Passes(a, v, d, KeyedInput(a, t, d))
  <2> HIDE DEF d
  <2> QED BY <1>4, <1>6, <1>8, KeyedPasses
<1> QED BY <1>10, <1>11

(* A bound one: a pointer, or None. *)
LEMMA BoundPasses ==
  ASSUME NEW a, IsAnnotation(a), a.kind = "argument", a.how \in {"tensor", "pointer"},
         TheType(a).cls \in {"none", "pointer"},
         NEW v, v = a.value, NEW w, WasPacked(a, v, w)
  PROVE  Passes(a, v, Decode(a, v, w), ArgumentInput(a, None, w))
<1> DEFINE d == Decode(a, v, w)
           t == TheType(a)
<1>1. IsValue(v) /\ OneType(a) /\ a.types \subseteq ArgumentTypes
      /\ \A s \in a.types, fact \in Facts : ~IsAuto(a, s, fact)
  BY DEF IsAnnotation
<1>2. d # Refused
  BY DEF WasPacked, Skipped, Accepts
<1>3. Fixed(a) /\ ~IsTyped(a)
  <2>1. OneType(a) => ~Inferred(a)
    BY FS_EmptySet DEF OneType, Inferred
  <2> QED BY <1>1, <2>1 DEF Fixed, IsTyped
<1>4. t \in ArgumentTypes
  BY <1>1, <1>3, TheTypeIs
<1>5. d.kind # "refused"
  BY <1>1, <1>2, AcceptedKind
<1>6. TypeOf(a, d) = t
  BY <1>3, ArgumentTypeOf
<1>7. ArgumentInput(a, None, w) = BoundAs(a)
  BY <1>1, BoundInput
<1> HIDE DEF d
<1>8. ~IsInteger(t) /\ "one" \notin Applicable(t)
  BY DEF IsInteger, Applicable
<1>9. Pushes(a, d) <=> t # NoneType
  BY <1>6, <1>8 DEF Pushes, IsOne
<1>10. BoundAs(a).type = IF t = NoneType THEN Constexpr ELSE t
  BY <1>8 DEF BoundAs
<1>11. t # Constexpr
  BY <1>4 DEF ArgumentTypes, ConstexprTypes, NoneType, BoolType, Float, Signed, Unsigned, Pointer, Type, Constexpr
<1>12. t # NoneType => t.cls = "pointer"
  BY <1>4 DEF ArgumentTypes, ConstexprTypes, NoneType, BoolType, Float, Signed, Unsigned, Pointer, Type
<1> HIDE DEF t
<1>13. t # NoneType => AsParameter(t, v) = PackValue(t, d.bits)
  BY <1>1, <1>3, <1>5, <1>12, UntypedPasses DEF d
<1> QED BY <1>6, <1>7, <1>9, <1>10, <1>11, <1>13 DEF Passes, d

(* Every parameter that a call packed passes as what its own arguments     *)
(* compile to takes it.                                                    *)
LEMMA ParamPasses ==
  ASSUME launcher \in Launchers, NEW c, CallTyped(c), NEW i \in DOMAIN launcher.params,
         ParamPacked(c, i)
  PROVE  Passes(Param(i), Passed(c, i), ParamDecoded(c, i),
                ParamInput(Param(i), Passed(c, i), c.within[i]))
<1> DEFINE a == Param(i)
           v == Passed(c, i)
           w == c.within[i]
<1>1. IsAnnotation(a) /\ launcher.keysRange \in BOOLEAN
  BY AnnotationsTyped DEF Param
<1>2. a.how \in {"public", "baked", "tensor", "pointer"}
  BY CallsTyped DEF Param
<1>3. a.kind = "argument" =>
        /\ a.how = "baked" => TypeValid(TheType(a), Decode(a, a.value, TRUE))
        /\ a.how \in {"tensor", "pointer"} => TheType(a).cls \in {"none", "pointer"}
  BY FixedFit DEF Param, FixedFits
<1>4. WasPacked(a, v, w) /\ ParamDecoded(c, i) = Decode(a, v, w)
  BY DEF ParamPacked, ParamDecoded
<1>5. a.how # "public" => v = a.value
  BY DEF Passed
<1>6. a.kind = "argument" => IsValue(v)
  BY PassedValue
<1> HIDE DEF a, v, w
<1>7. CASE a.kind = "argument" /\ a.how = "public"
  <2>1. ParamInput(a, v, w) = ArgumentInput(a, v, w)
    BY <1>7 DEF ParamInput
  <2>2. Passes(a, v, Decode(a, v, w), ArgumentInput(a, v, w))
    BY <1>1, <1>4, <1>6, <1>7, PublicPasses
  <2> QED BY <1>4, <2>1, <2>2 DEF a, v, w
<1>8. CASE a.kind = "argument" /\ a.how = "baked"
  <2>1. ParamInput(a, v, w) = ArgumentInput(a, v, w)
    BY <1>8 DEF ParamInput
  <2>2. Passes(a, v, Decode(a, v, w), ArgumentInput(a, v, w))
    BY <1>1, <1>3, <1>4, <1>5, <1>8, BakedPasses
  <2> QED BY <1>4, <2>1, <2>2 DEF a, v, w
<1>9. CASE a.kind = "argument" /\ a.how \in {"tensor", "pointer"}
  <2>1. ParamInput(a, v, w) = ArgumentInput(a, None, w)
    BY <1>9 DEF ParamInput
  <2>2. Passes(a, v, Decode(a, v, w), ArgumentInput(a, None, w))
    BY <1>1, <1>3, <1>4, <1>5, <1>9, BoundPasses
  <2> QED BY <1>4, <2>1, <2>2 DEF a, v, w
<1>10. CASE a.kind # "argument"
  <2>1. ParamInput(a, v, w).type = Constexpr
    <3>1. a.kind \in {"constexpr", "dynamic"} /\ a.how \notin {"tensor", "pointer"}
      BY <1>1, <1>10 DEF IsAnnotation
    <3>2. CASE a.kind = "constexpr"
      BY <3>1, <3>2 DEF ParamInput
    <3>3. CASE a.kind = "dynamic"
      BY <3>1, <3>3 DEF ParamInput
    <3> QED BY <3>1, <3>2, <3>3
  <2>2. ~Pushes(a, Decode(a, v, w))
    BY <1>10 DEF Pushes
  <2> QED BY <1>4, <2>1, <2>2 DEF Passes, a, v, w
<1> QED BY <1>2, <1>7, <1>8, <1>9, <1>10

(* What a call packed is what a kernel found for it takes.                 *)
LEMMA FoundTakes == HitInv => SlotsMatch
<1> SUFFICES ASSUME HitInv, call.pc = "launch"
             PROVE  LET input == cache[call.key].input
                        runtime == InOrder({i \in DOMAIN input : input[i].type # Constexpr})
                    IN call.vals = [j \in DOMAIN runtime |->
                                      AsParameter(input[runtime[j]].type, Passed(call, runtime[j]))]
  BY DEF SlotsMatch
<1> DEFINE c == call
           n == Len(launcher.params)
           input == cache[c.key].input
           R == {i \in DOMAIN input : input[i].type # Constexpr}
           S == SlotsUpTo(c, n)
           f == SlotValues(c, n)
           slots == [j \in DOMAIN InOrder(R) |->
                       AsParameter(input[InOrder(R)[j]].type, Passed(c, InOrder(R)[j]))]
<1>1. c.pc = "launch" /\ CallTyped(c) /\ CallKeyed(c) /\ CallSlots(c)
  BY DEF HitInv, CallInv, CallRight, Idle
<1>2. launcher \in Launchers
  BY DEF HitInv, LayoutInv, LayoutTypes
<1>3. n \in Nat /\ DOMAIN launcher.params = 1 .. n
  BY <1>2, FieldsOf
<1>4. Len(c.within) = n
  BY <1>1 DEF CallKeyed
<1>5. input = [i \in DOMAIN launcher.params |-> ParamInput(Param(i), Passed(c, i), c.within[i])]
  <2>1. input = Wanted.input
    BY FoundIsRight DEF HitIsRight
  <2>2. \A i : RangeShown(c, i, c.within) = c.within[i]
    BY DEF RangeShown
  <2> QED BY <2>1, <2>2 DEF Wanted, Compiled
<1>6. Slotted(c.vals, S, f)
  BY <1>1, <1>4 DEF CallSlots
<1> HIDE DEF c, n, input
<1>7. ASSUME NEW i \in 1 .. n
      PROVE  /\ i \in R <=> i \in S
             /\ i \in S => AsParameter(input[i].type, Passed(c, i)) = f[i]
  <2>1. ParamPacked(c, i)
    BY <1>1, <1>4, <1>7 DEF CallKeyed
  <2>2. Passes(Param(i), Passed(c, i), ParamDecoded(c, i),
               ParamInput(Param(i), Passed(c, i), c.within[i]))
    BY <1>1, <1>2, <1>3, <2>1, ParamPasses
  <2>3. input[i] = ParamInput(Param(i), Passed(c, i), c.within[i]) /\ i \in DOMAIN input
    BY <1>3, <1>5, <1>7
  <2>4. i \in S <=> Pushes(Param(i), ParamDecoded(c, i))
    BY <1>7 DEF SlotsUpTo
  <2>5. f[i] = PackValue(TypeOf(Param(i), ParamDecoded(c, i)), ParamDecoded(c, i).bits)
    BY <1>7 DEF SlotValues, SlotValue
  <2> HIDE DEF S, f
  <2> QED BY <2>2, <2>3, <2>4, <2>5 DEF Passes
<1>8. R = S /\ S \in SUBSET (1 .. n)
  <2>1. R \subseteq 1 .. n
    BY <1>3, <1>5
  <2>2. S \subseteq 1 .. n
    BY DEF SlotsUpTo
  <2> HIDE DEF R, S
  <2> QED BY <1>7, <2>1, <2>2
<1> DEFINE m == Cardinality(S)
<1>9. Tuple(InOrder(R), m) /\ \A i \in S : InOrder(R)[Cardinality({j \in S : j < i}) + 1] = i
  <2> HIDE DEF R, S
  <2> QED BY <1>3, <1>8, InOrderRank
<1>10. Tuple(c.vals, m) /\ \A k \in 1 .. m :
         \E i \in S : k = Cardinality({j \in S : j < i}) + 1 /\ c.vals[k] = f[i]
  BY <1>6 DEF Slotted
<1>11. DOMAIN InOrder(R) = 1 .. m
  <2> HIDE DEF R, m
  <2> QED BY <1>9, TupleLen
<1> HIDE DEF R, S, f, m
<1>12. ASSUME NEW k \in 1 .. m PROVE c.vals[k] = slots[k]
  <2>1. PICK i \in S : k = Cardinality({j \in S : j < i}) + 1 /\ c.vals[k] = f[i]
    BY <1>10, <1>12
  <2>2. InOrder(R)[k] = i
    BY <1>9, <2>1
  <2>3. slots[k] = AsParameter(input[i].type, Passed(c, i))
    BY <1>11, <1>12, <2>2
  <2>4. i \in 1 .. n
    BY <1>8
  <2> QED BY <1>7, <2>1, <2>3, <2>4
<1>13. c.vals = [k \in 1 .. m |-> c.vals[k]]
  BY <1>10 DEF Tuple
<1>14. c.vals = slots
  BY <1>11, <1>12, <1>13
<1> QED BY <1>14 DEF c, input, R

(* For the same launchers and arguments: what C packs for a kernel is what *)
(* the kernel was compiled to take, a slot for each parameter that is no   *)
(* constant of its signature, in their order, with the bits that the       *)
(* parameter's type has of the value.                                      *)
THEOREM SlotsAreRight == Spec => []SlotsMatch
<1>1. Init => HitInv
  BY HitInitInv
<1>2. HitInv /\ [Next]_vars => HitInv'
  BY HitNextInv
<1>3. HitInv => SlotsMatch
  BY FoundTakes
<1> QED BY <1>1, <1>2, <1>3, PTL DEF Spec

-----------------------------------------------------------------------------
(* What a plan makes of an option *)

(* The sources of a parameter's two sides; one that has none has defaults. *)
Defaults(p) ==
  IF \E s \in AnnotationSource(p.inline) \union AnnotationSource(p.extra) : s.kind = "constexpr"
    THEN ConstexprSource ELSE Argument
Side(raw, q) == IF raw.says = "source" THEN raw.source ELSE q
LeftOf(p)  == Side(p.inline, Defaults(p))
RightOf(p) == Side(p.extra, Defaults(p))

(* The sources that are merged are these. *)
LEMMA PairIs ==
  ASSUME NEW p, NEW pair \in Pair(p)
  PROVE  pair = <<LeftOf(p), RightOf(p)>> /\ LeftOf(p).kind = RightOf(p).kind
<1> DEFINE side(sources) == IF sources = {} THEN {Defaults(p)} ELSE sources
<1>1. side(AnnotationSource(p.inline)) = {LeftOf(p)}
  BY DEF AnnotationSource, LeftOf, Side
<1>2. side(AnnotationSource(p.extra)) = {RightOf(p)}
  BY DEF AnnotationSource, RightOf, Side
<1>3. pair \in {q \in side(AnnotationSource(p.inline)) \X side(AnnotationSource(p.extra)) :
                   q[1].kind = q[2].kind}
  BY Zenon DEF Pair, Defaults
<1> HIDE DEF side
<1>4. pair \in {q \in {LeftOf(p)} \X {RightOf(p)} : q[1].kind = q[2].kind}
  BY <1>1, <1>2, <1>3, Zenon
<1> QED BY <1>4

(* The defaults are sources, too.                                          *)
LEMMA SidesAre ==
  ASSUME NEW p, IsParameter(p)
  PROVE  IsSource(LeftOf(p)) /\ IsSource(RightOf(p))
<1>1. IsSource(Argument)
  BY DEF IsSource, Argument, SourceOf, AnySpecialize, GivenTypes
<1>2. IsSource(ConstexprSource)
  BY DEF IsSource, ConstexprSource, SourceOf, AnySpecialize, GivenTypes
<1>3. IsSource(Defaults(p))
  BY <1>1, <1>2 DEF Defaults
<1> QED BY <1>3 DEF IsParameter, IsRaw, LeftOf, RightOf, Side

(* A draft has a merged type, value and bind; its other fields follow.     *)
LEMMA DraftIs ==
  ASSUME NEW p, NEW d \in Drafts(p)
  PROVE  /\ d = Draft(p, LeftOf(p), RightOf(p), d.type, d.value, d.bind)
         /\ LeftOf(p).kind = RightOf(p).kind
         /\ d.type \in MergeType(LeftOf(p).type, RightOf(p).type)
         /\ d.value \in MergeField(LeftOf(p).value, RightOf(p).value)
         /\ d.bind \in MergeField(LeftOf(p).bind, RightOf(p).bind)
         /\ ModesMerge(p, LeftOf(p), RightOf(p))
<1> DEFINE l == LeftOf(p)
           r == RightOf(p)
<1>1. PICK pair \in {q \in Pair(p) : ModesMerge(p, q[1], q[2])} : d \in DraftsOf(p, pair[1], pair[2])
  BY DEF Drafts
<1>2. pair[1] = l /\ pair[2] = r /\ l.kind = r.kind /\ ModesMerge(p, l, r)
  <2>1. pair \in Pair(p) /\ ModesMerge(p, pair[1], pair[2])
    BY <1>1
  <2>2. pair[1] = l /\ pair[2] = r /\ l.kind = r.kind
    BY <2>1, PairIs
  <2> QED BY <2>1, <2>2
<1>3. d \in DraftsOf(p, l, r)
  BY <1>1, <1>2
<1>4. PICK type \in MergeType(l.type, r.type), value \in MergeField(l.value, r.value),
           bind \in MergeField(l.bind, r.bind) :
        d = Draft(p, l, r, type, value, bind)
  BY <1>3 DEF DraftsOf
<1>5. d.type = type /\ d.value = value /\ d.bind = bind
  BY <1>4 DEF Draft
<1>6. /\ type \in MergeType(l.type, r.type) /\ value \in MergeField(l.value, r.value)
      /\ bind \in MergeField(l.bind, r.bind)
  BY <1>4
<1> QED BY <1>2, <1>4, <1>5, <1>6, Zenon

(* Fields of two sources merge to one of them, in one way. *)
LEMMA MergedField ==
  ASSUME NEW left, NEW right, NEW x \in MergeField(left, right)
  PROVE  x \in {left, right} /\ MergeField(left, right) = {x}
  BY DEF MergeField

(* And so do their types. *)
LEMMA MergedType ==
  ASSUME NEW left, NEW right, NEW x \in MergeType(left, right)
  PROVE  x \in {left, right} /\ MergeType(left, right) = {x}
  BY DEF MergeField, MergeType

(* A fact's mode, merged and settled, is one of three. *)
LEMMA SettledModes ==
  ASSUME NEW p, IsParameter(p), NEW fact \in Facts,
         NEW m \in MergedModes(p, LeftOf(p), RightOf(p), fact)
  PROVE  SettledMode(p, m, fact) \in {"auto", "never", "assume"}
<1> DEFINE Said == {"unset", "auto", "never", "assume"}
<1>1. ModeOf(LeftOf(p).specialize, fact) \in Said /\ ModeOf(RightOf(p).specialize, fact) \in Said
  BY SidesAre DEF IsSource, ModeOf
<1>2. DecoratorMode(p, fact) \in Said
  BY DEF DecoratorMode
<1>3. \A x, y \in Said : MergeMode(x, y) \subseteq Said
  BY DEF MergeMode
<1>4. PICK q \in MergeMode(ModeOf(LeftOf(p).specialize, fact), ModeOf(RightOf(p).specialize, fact)) :
        m \in MergeMode(q, DecoratorMode(p, fact))
  BY DEF MergedModes
<1>5. m \in Said
  BY <1>1, <1>2, <1>3, <1>4
<1> QED BY <1>5 DEF SettledMode

(* What is merged of two sources is a source again, but for its modes.     *)
DraftIsTyped(p, d) ==
  /\ d.kind \in {"argument", "constexpr"} /\ d.modes \in Modes
  /\ {d.ptrRange, d.powerOfTwo} \subseteq BOOLEAN
  /\ CanonicalTypes(d) \subseteq ArgumentTypes
  /\ d.value # <<>> => IsValue(d.value[1])
  /\ d.bind \in {<<>>, <<"tensor">>, <<"pointer">>}
  /\ d.kind = "argument" => ~d.powerOfTwo
  /\ d.kind = "constexpr" => d.bind = <<>> /\ ~d.ptrRange /\ d.modes = [fact \in Facts |-> "auto"]
  /\ p.tritonTyped => /\ d.kind = "argument"
                      /\ Cardinality(CanonicalTypes(d)) = 1 /\ NoneType \notin CanonicalTypes(d)

(* So it is, of whatever a kernel, its decorators and its extra           *)
(* annotations say of a parameter (_merge_annotations).                    *)
LEMMA DraftTyped ==
  ASSUME NEW p, IsParameter(p), NEW d \in Drafts(p)
  PROVE  DraftIsTyped(p, d)
<1> DEFINE l == LeftOf(p)
           r == RightOf(p)
<1>1. IsSource(l) /\ IsSource(r)
  BY SidesAre
<1>2. /\ d = Draft(p, l, r, d.type, d.value, d.bind) /\ l.kind = r.kind
      /\ d.type \in MergeType(l.type, r.type) /\ d.value \in MergeField(l.value, r.value)
      /\ d.bind \in MergeField(l.bind, r.bind) /\ ModesMerge(p, l, r)
  BY DraftIs
<1>3. /\ d.kind = l.kind /\ d.ptrRange = (l.ptrRange \/ r.ptrRange)
      /\ d.powerOfTwo = (l.powerOfTwo \/ r.powerOfTwo) /\ d.modes = DraftModes(p, l, r)
  BY <1>2 DEF Draft
<1>4. d.type \in {l.type, r.type} /\ d.value \in {l.value, r.value} /\ d.bind \in {l.bind, r.bind}
  BY <1>2, MergedField, MergedType
<1>5. p.tritonTyped => l = p.inline.source
  BY DEF IsParameter, LeftOf, Side
<1>6. d.modes \in Modes
  <2>1. ASSUME NEW fact \in Facts
        PROVE  d.modes[fact] \in {"auto", "never", "assume"}
    <3>1. CASE l.kind = "constexpr"
      BY <1>3, <2>1, <3>1 DEF DraftModes
    <3>2. CASE l.kind # "constexpr"
      <4>1. l.kind = "argument"
        BY <1>1, <3>2 DEF IsSource
      <4>2. PICK some \in MergedModes(p, l, r, fact) : TRUE
        BY <1>2, <2>1, <4>1 DEF ModesMerge
      <4> DEFINE c == CHOOSE m \in MergedModes(p, l, r, fact) : TRUE
      <4>3. c \in MergedModes(p, l, r, fact)
        BY <4>2
      <4>4. d.modes[fact] = SettledMode(p, c, fact)
        BY <1>3, <2>1, <3>2 DEF DraftModes
      <4> HIDE DEF c
      <4> QED BY <2>1, <4>3, <4>4, SettledModes
    <3> QED BY <3>1, <3>2
  <2>2. d.modes = [fact \in Facts |-> d.modes[fact]]
    BY <1>3 DEF DraftModes
  <2> QED BY <2>1, <2>2 DEF Modes
<1>7. CanonicalTypes(d) \subseteq ArgumentTypes
  BY <1>1, <1>4 DEF CanonicalTypes, GivenTypes, IsSource
<1>8. d.kind = "constexpr" => d.modes = [fact \in Facts |-> "auto"]
  BY <1>3 DEF DraftModes
<1>9. p.tritonTyped => /\ d.kind = "argument"
                       /\ Cardinality(CanonicalTypes(d)) = 1 /\ NoneType \notin CanonicalTypes(d)
  <2> SUFFICES ASSUME p.tritonTyped
               PROVE  d.kind = "argument" /\ CanonicalTypes(d) = GivenTypes(l)
    BY <1>5 DEF IsParameter
  <2>1. l.kind = "argument" /\ Cardinality(GivenTypes(l)) = 1
    BY <1>5 DEF IsParameter
  <2>2. l.type # <<>>
    BY <2>1, FS_EmptySet DEF GivenTypes
  <2>3. d.type = l.type
    BY <1>2, <2>2 DEF MergeType, MergeField
  <2> QED BY <1>3, <2>1, <2>3 DEF CanonicalTypes, GivenTypes
<1>10. /\ d.kind \in {"argument", "constexpr"} /\ {d.ptrRange, d.powerOfTwo} \subseteq BOOLEAN
       /\ d.value # <<>> => IsValue(d.value[1])
       /\ d.bind \in {<<>>, <<"tensor">>, <<"pointer">>}
       /\ d.kind = "argument" => ~d.powerOfTwo
       /\ d.kind = "constexpr" => d.bind = <<>> /\ ~d.ptrRange
  BY <1>1, <1>2, <1>3, <1>4 DEF IsSource
<1> QED BY <1>6, <1>7, <1>8, <1>9, <1>10 DEF DraftIsTyped

(* What is merged of a parameter, if it is not refused. *)
LEMMA MergedIs ==
  ASSUME NEW p, NEW a \in MergeAnnotations(p)
  PROVE  \E d \in Drafts(p) : \E types \in EffectiveTypes(d) :
           Allowed(p, d, types) /\ a = Merged(p, d, types)
  BY DEF MergeAnnotations

(* The type of a baked argument is the one given or, of none or several,   *)
(* the inferred one; the value is of it.                                   *)
BakedTypeIs(d, t) ==
  /\ Fits(BakedValue(d), t) /\ InferredScalarType(BakedValue(d)) # {}
  /\ IF Cardinality(CanonicalTypes(d)) = 1 THEN t \in CanonicalTypes(d)
     ELSE t \in InferredScalarType(BakedValue(d))

(* One type is left of a baked argument, and its value is of it.           *)
LEMMA BakedArgumentIs ==
  ASSUME NEW d, d.kind = "argument", IsBaked(d), NEW types \in EffectiveTypes(d)
  PROVE  \E t : types = {t} /\ BakedTypeIs(d, t)
  BY DEF EffectiveTypes, BakedArgumentTypes, BakedTypeIs

(* Otherwise the types are among those given; a baked constexpr has one.   *)
LEMMA GivenIs ==
  ASSUME NEW d, NEW types \in EffectiveTypes(d)
  PROVE  /\ ~IsBaked(d) => types = CanonicalTypes(d)
         /\ (IsBaked(d) /\ d.kind # "argument") => types \subseteq CanonicalTypes(d)
<1>1. CASE ~IsBaked(d)
  BY <1>1 DEF EffectiveTypes
<1>2. CASE IsBaked(d) /\ d.kind # "argument"
  <2>1. types \in BakedConstexprTypes(d)
    BY <1>2 DEF EffectiveTypes
  <2> QED BY <1>2, <2>1 DEF BakedConstexprTypes
<1> QED BY <1>1, <1>2

(* A baked value is no tensor. *)
LEMMA BakedIsScalar ==
  ASSUME NEW d, IsBaked(d), IsValue(BakedValue(d)), CanonicalTypes(d) \subseteq ArgumentTypes,
         NEW types \in EffectiveTypes(d)
  PROVE  /\ BakedValue(d).kind \in {"none", "bool", "float", "int", "object"}
         /\ d.kind = "argument" => BakedValue(d).kind # "object"
<1> DEFINE v == BakedValue(d)
<1>1. v.kind \in {"tensor", "int", "bool", "float", "none", "object"}
  BY DEF IsValue
<1>2. v.kind \in {"tensor", "object"} => InferredScalarType(v) = {}
  BY DEF InferredScalarType
<1>3. v.kind = "tensor" => \A t \in ArgumentTypes : ~Fits(v, t)
  <2> SUFFICES ASSUME v.kind = "tensor", NEW t \in ArgumentTypes
               PROVE  ~Fits(v, t)
    OBVIOUS
  <2>1. t.cls \in {"none", "bool", "float", "signed", "unsigned", "pointer"}
    BY DEF ArgumentTypes, ConstexprTypes, NoneType, BoolType, Float, Signed, Unsigned, Pointer, Type
  <2> QED BY <2>1 DEF Fits
<1>4. d.kind = "argument" => v.kind \notin {"tensor", "object"}
  BY <1>2, BakedArgumentIs DEF BakedTypeIs
<1>5. d.kind # "argument" => v.kind # "tensor"
  <2> SUFFICES ASSUME d.kind # "argument", v.kind = "tensor"
               PROVE  FALSE
    OBVIOUS
  <2>1. types \in BakedConstexprTypes(d)
    BY DEF EffectiveTypes
  <2> QED BY <1>2, <1>3, <2>1 DEF BakedConstexprTypes
<1> QED BY <1>1, <1>4, <1>5

(* The classes and the bits of types. *)
LEMMA TypeClasses ==
  ASSUME NEW t \in ArgumentTypes
  PROVE  /\ t.cls \in {"none", "bool", "float", "signed", "unsigned", "pointer"}
         /\ t.cls \in {"signed", "unsigned"} => t.bits \in {8, 16, 32, 64}
         /\ t.cls = "none" => t = NoneType
         /\ t.cls = "bool" => t = BoolType
         /\ t.cls = "pointer" => t \notin ConstexprTypes
         /\ t.cls # "pointer" => t \in ConstexprTypes \union {Float(32)}
  BY DEF ArgumentTypes, ConstexprTypes, NoneType, BoolType, Float, Signed, Unsigned, Pointer, Type

(* A value that fits a type (scalar_types.fits) is of it when C decodes it (type_valid). *)
LEMMA FitsDecodes ==
  ASSUME NEW v, IsValue(v), NEW t \in ArgumentTypes, Fits(v, t)
  PROVE  /\ TypeValid(t, DecodeScalar(v)) /\ DecodeScalar(v).kind # "refused"
         /\ t.cls # "pointer" /\ v.kind \in {"int", "bool", "float", "none"}
         /\ IsInteger(t) => v.kind = "int"
<1> DEFINE d == DecodeScalar(v)
<1>1. v.n \in Int
  BY DEF IsValue
<1>2. CASE t.cls \in {"none", "bool"}
  <2>1. v.kind = t.cls
    BY <1>2 DEF Fits
  <2>2. d.kind = t.cls
    BY <1>2, <2>1 DEF DecodeScalar, Decoded
  <2> QED BY <1>2, <2>1, <2>2 DEF TypeValid, IsInteger
<1>3. CASE t.cls = "float"
  <2>1. v.kind = "float" /\ (t.bits = 64 \/ v.n \notin Overflows)
    BY <1>3 DEF Fits
  <2>2. d.kind = "fp64" /\ d.bits = v.n
    BY <2>1 DEF DecodeScalar, Decoded
  <2> QED BY <1>3, <2>1, <2>2 DEF TypeValid, IsInteger
<1>4. CASE t.cls \in {"signed", "unsigned"}
  <2>1. t.bits \in {8, 16, 32, 64}
    BY <1>4, TypeClasses
  <2> DEFINE s == Size(t.bits)
  <2>2. s \in Nat /\ s >= 4 /\ s % 2 = 0 /\ s <= Two64
    <3>1. /\ s \in Nat /\ s >= 4 /\ s % 2 = 0 /\ Two64 % s = 0
          /\ Two64 \in Nat /\ Two64 > 0
      BY <2>1, SizeFacts, HalfFacts
    <3> HIDE DEF s
    <3>2. ~(Two64 < s)
      BY <3>1
    <3> QED BY <3>1, <3>2
  <2>3. /\ v.kind = "int"
        /\ v.n \in IF t.cls = "signed" THEN -(s \div 2) .. s \div 2 - 1 ELSE 0 .. s - 1
    BY <1>4 DEF Fits
  <2>4. d = DecodeInt(v.n)
    BY <2>3 DEF DecodeScalar
  <2> HIDE DEF s
  <2>5. -Half <= v.n /\ v.n < Two64 /\ (t.cls = "signed" => v.n < Half)
    <3>1. s \div 2 <= Half /\ s \div 2 \in Nat
      BY <2>2, HalfFacts
    <3> QED BY <1>1, <1>4, <2>2, <2>3, <3>1, HalfFacts
  <2>6. d.kind # "refused"
    BY <1>1, <2>4, <2>5, HalfFacts DEF DecodeInt, Decoded
  <2>7. /\ d.bits \in 0 .. Two64 - 1 /\ d.bits = v.n % Two64
        /\ \/ d.kind = "i64" /\ v.n \in -Half .. Half - 1 /\ AsSigned(d.bits) = v.n
           \/ d.kind = "u64" /\ v.n \in Half .. Two64 - 1 /\ d.bits = v.n
    BY <1>1, <2>4, <2>6, DecodedInt
  <2> HIDE DEF d
  <2>8. CASE t.cls = "signed"
    <3>1. d.kind = "i64" /\ AsSigned(d.bits) = v.n
      BY <1>1, <2>5, <2>7, <2>8, HalfFacts
    <3> QED BY <2>3, <2>6, <2>8, <3>1 DEF TypeValid, IsInteger, s, d
  <2>9. CASE t.cls = "unsigned"
    <3>1. v.n >= 0 /\ v.n < s
      BY <1>1, <2>2, <2>3, <2>9
    <3>2. d.bits = v.n
      BY <1>1, <2>2, <2>7, <3>1, HalfFacts
    <3>3. TypeValid(t, d)
      BY <2>7, <2>9, <3>1, <3>2 DEF TypeValid, s
    <3> QED BY <2>3, <2>6, <2>9, <3>3 DEF IsInteger, d
  <2> QED BY <1>4, <2>8, <2>9
<1>5. t.cls # "pointer"
  BY DEF Fits
<1> QED BY <1>2, <1>3, <1>4, <1>5, TypeClasses

(* The inferred type of a scalar is the one its decoded value has in C.    *)
LEMMA InferredTypes ==
  ASSUME NEW v, IsValue(v), NEW t \in InferredScalarType(v)
  PROVE  t = InferType(DecodeScalar(v)) /\ t \in ArgumentTypes
<1>1. t = InferType(DecodeScalar(v))
  BY DEF InferredScalarType, DecodeScalar, InferType, Decoded
<1>2. v.kind = "int" => InferType(DecodeScalar(v)) \in {Signed(32), Signed(64), Unsigned(64), BoolType,
                                                        Float(32), NoneType} \union {Pointer(DecodeScalar(v).dtype)}
  BY DEF InferType
<1>3. v.kind = "int" => DecodeScalar(v).dtype = 0
  BY DEF DecodeScalar, DecodeInt, Decoded, Refused
<1>4. t \in {Signed(32), Signed(64), Unsigned(64), BoolType, Float(32), NoneType, Pointer(0)}
  BY <1>1, <1>2, <1>3 DEF InferredScalarType
<1> QED BY <1>1, <1>4 DEF ArgumentTypes, ConstexprTypes

(* What the value of a baked argument decides is a mode, too.              *)
LEMMA BakedModesIn ==
  ASSUME NEW d, d.modes \in Modes, NEW t
  PROVE  /\ BakedModes(d, t) \in Modes
         /\ BakedModes(d, t)["range"] = d.modes["range"]
         /\ BakedModes(d, t)["one"] =
              IF d.modes["one"] = "auto" /\ "one" \in Applicable(t)
                THEN IF BakedValue(d).n = 1 THEN "assume" ELSE "never" ELSE d.modes["one"]
         /\ BakedModes(d, t)["aligned"] =
              IF d.modes["aligned"] = "auto" /\ "aligned" \in Applicable(t)
                THEN IF BakedModes(d, t)["one"] # "assume" /\ BakedValue(d).n % Divisor = 0
                       THEN "assume" ELSE "never"
              ELSE d.modes["aligned"]
<1> DEFINE m == d.modes
           one == IF m["one"] = "auto" /\ "one" \in Applicable(t)
                    THEN IF BakedValue(d).n = 1 THEN "assume" ELSE "never" ELSE m["one"]
           aligned == IF m["aligned"] = "auto" /\ "aligned" \in Applicable(t)
                        THEN IF one # "assume" /\ BakedValue(d).n % Divisor = 0
                               THEN "assume" ELSE "never" ELSE m["aligned"]
<1>1. BakedModes(d, t) = [m EXCEPT !["one"] = one, !["aligned"] = aligned]
  BY DEF BakedModes
<1>2. one \in {"auto", "never", "assume"} /\ aligned \in {"auto", "never", "assume"}
  BY DEF Modes, Facts
<1> HIDE DEF one, aligned
<1>3. /\ BakedModes(d, t) \in Modes /\ BakedModes(d, t)["range"] = m["range"]
      /\ BakedModes(d, t)["one"] = one /\ BakedModes(d, t)["aligned"] = aligned
  BY <1>1, <1>2 DEF Modes, Facts
<1> QED BY <1>3 DEF one, aligned

(* A parameter's annotation, but for a bound value and an autotune key.    *)
IsMerged(a) ==
  /\ a = [name |-> a.name, kind |-> a.kind, types |-> a.types, modes |-> a.modes,
          powerOfTwo |-> a.powerOfTwo, exactKey |-> a.exactKey, tritonTyped |-> a.tritonTyped,
          tensorOnly |-> a.tensorOnly, noneOk |-> a.noneOk, ptrRange |-> a.ptrRange,
          how |-> a.how, value |-> a.value]
  /\ a.kind \in {"argument", "constexpr"} /\ a.modes \in Modes
  /\ {a.powerOfTwo, a.exactKey, a.tritonTyped, a.tensorOnly, a.noneOk, a.ptrRange} \subseteq BOOLEAN
  /\ a.types \subseteq (IF a.kind = "argument" THEN ArgumentTypes ELSE ConstexprTypes)
  /\ a.tritonTyped => a.kind = "argument" /\ OneType(a) /\ NoneType \notin a.types
  /\ a.how \in {"public", "baked", "tensor", "pointer"}
  /\ a.how = "baked" => /\ IsValue(a.value) /\ a.value.kind # "tensor"
                        /\ a.kind = "argument" => OneType(a) /\ FixedFits(a)
  /\ a.how \in {"tensor", "pointer"} => a.kind = "argument"

(* What the merge does not refuse of a kernel's parameter.                 *)
LEMMA MergedTyped ==
  ASSUME NEW p, IsParameter(p), NEW d \in Drafts(p), NEW types \in EffectiveTypes(d),
         Allowed(p, d, types)
  PROVE  IsMerged(Merged(p, d, types))
<1> DEFINE a == Merged(p, d, types)
           v == BakedValue(d)
<1>1. DraftIsTyped(p, d)
  BY DraftTyped
<1>2. /\ a.kind = d.kind /\ a.types = types /\ a.powerOfTwo = d.powerOfTwo /\ a.exactKey = FALSE
      /\ a.modes = (IF d.kind = "argument" /\ IsBaked(d)
                      THEN BakedModes(d, CHOOSE t \in types : TRUE) ELSE d.modes)
      /\ a.tritonTyped = (p.tritonTyped /\ d.kind = "argument") /\ a.ptrRange = d.ptrRange
      /\ a.tensorOnly = (TensorKinds(p) # {}) /\ a.noneOk = (TensorKinds(p) = {"optional"})
      /\ a.how = (IF IsBaked(d) THEN "baked" ELSE IF IsBound(d) THEN d.bind[1] ELSE "public")
      /\ a.value = (IF IsBaked(d) THEN v ELSE None)
  BY DEF Merged
<1>3. /\ \A t \in CanonicalTypes(d) : Supported(t, d.kind) /\ t \in ArgumentTypes
      /\ ~(IsBaked(d) /\ IsBound(d)) /\ (TensorKinds(p) # {} => ~IsBaked(d))
  BY <1>1 DEF Allowed, TensorAllows, DraftIsTyped
<1>4. /\ d.kind \in {"argument", "constexpr"} /\ d.modes \in Modes /\ {d.ptrRange, d.powerOfTwo} \subseteq BOOLEAN
      /\ d.bind \in {<<>>, <<"tensor">>, <<"pointer">>} /\ (d.kind = "constexpr" => d.bind = <<>>)
      /\ IsBaked(d) => IsValue(v)
      /\ p.tritonTyped => Cardinality(CanonicalTypes(d)) = 1 /\ NoneType \notin CanonicalTypes(d)
  BY <1>1 DEF DraftIsTyped, IsBaked, BakedValue
<1>5. p.tritonTyped \in BOOLEAN
  BY DEF IsParameter
<1>6. a.modes \in Modes
  BY <1>2, <1>4, BakedModesIn
<1>7. a.how \in {"public", "baked", "tensor", "pointer"} /\ (a.how \in {"tensor", "pointer"} => a.kind = "argument")
  <2>1. IsBound(d) => d.bind[1] \in {"tensor", "pointer"} /\ d.kind = "argument"
    BY <1>4 DEF IsBound
  <2> QED BY <1>2, <2>1
<1>8. IsBaked(d) => v.kind \in {"none", "bool", "float", "int", "object"}
  BY <1>3, <1>4, BakedIsScalar
<1>9. a = [name |-> a.name, kind |-> a.kind, types |-> a.types, modes |-> a.modes,
          powerOfTwo |-> a.powerOfTwo, exactKey |-> a.exactKey, tritonTyped |-> a.tritonTyped,
          tensorOnly |-> a.tensorOnly, noneOk |-> a.noneOk, ptrRange |-> a.ptrRange,
          how |-> a.how, value |-> a.value]
  BY DEF Merged
<1> HIDE DEF a, v
<1> DEFINE Shape ==
             /\ a.kind \in {"argument", "constexpr"} /\ a.modes \in Modes
             /\ {a.powerOfTwo, a.exactKey, a.tritonTyped, a.tensorOnly, a.noneOk, a.ptrRange} \subseteq BOOLEAN
             /\ a.how \in {"public", "baked", "tensor", "pointer"}
             /\ a.how \in {"tensor", "pointer"} => a.kind = "argument"
           Decided ==
             /\ a.types \subseteq (IF a.kind = "argument" THEN ArgumentTypes ELSE ConstexprTypes)
             /\ a.tritonTyped => a.kind = "argument" /\ OneType(a) /\ NoneType \notin a.types
             /\ a.how = "baked" => /\ IsValue(a.value) /\ a.value.kind # "tensor"
                                   /\ a.kind = "argument" => OneType(a) /\ FixedFits(a)
<1>10. Shape
  BY <1>2, <1>4, <1>5, <1>6, <1>7
<1>11. a.how = "baked" <=> IsBaked(d)
  BY <1>2, <1>4 DEF IsBound
<1>12. CASE d.kind = "argument" /\ IsBaked(d)
  <2>1. PICK t : types = {t} /\ BakedTypeIs(d, t)
    BY <1>12, BakedArgumentIs
  <2>2. t \in ArgumentTypes /\ Fits(v, t)
    BY <1>3, <1>4, <1>12, <2>1, InferredTypes DEF BakedTypeIs, v
  <2>3. p.tritonTyped => t # NoneType
    BY <1>4, <2>1 DEF BakedTypeIs
  <2>4. OneType(a) /\ TheType(a) = t
    <3>1. a.types = {t}
      BY <1>2, <2>1
    <3>2. Cardinality({t}) = 1
      BY FS_Singleton
    <3> QED BY <3>1, <3>2 DEF OneType, TheType
  <2>5. /\ TypeValid(t, DecodeScalar(v)) /\ v.kind \in {"int", "bool", "float", "none"}
    BY <1>4, <1>12, <2>2, FitsDecodes
  <2>6. Decode(a, v, TRUE) = DecodeScalar(v)
    BY <1>2, <1>3, <1>12, <2>5 DEF Decode, IsTyped
  <2>7. FixedFits(a)
    BY <1>2, <1>12, <2>4, <2>5, <2>6 DEF FixedFits
  <2>8. Decided
    BY <1>2, <1>4, <1>12, <2>1, <2>2, <2>3, <2>4, <2>5, <2>7
  <2> QED BY <1>10, <1>9, <2>8 DEF IsMerged, a
<1>13. CASE d.kind = "argument" /\ ~IsBaked(d)
  <2>1. types = CanonicalTypes(d)
    BY <1>13, GivenIs
  <2>2. p.tritonTyped => OneType(a) /\ NoneType \notin a.types
    BY <1>2, <1>4, <2>1 DEF OneType
  <2>3. Decided
    BY <1>2, <1>3, <1>13, <1>11, <2>1, <2>2
  <2> QED BY <1>10, <1>9, <2>3 DEF IsMerged, a
<1>14. CASE d.kind = "constexpr"
  <2>1. types \subseteq CanonicalTypes(d)
    <3>1. CASE IsBaked(d)
      BY <1>14, <3>1, GivenIs
    <3>2. CASE ~IsBaked(d)
      BY <3>2, GivenIs
    <3> QED BY <3>1, <3>2
  <2>2. types \subseteq ConstexprTypes
    <3> SUFFICES ASSUME NEW t \in types PROVE t \in ConstexprTypes
      OBVIOUS
    <3>1. t \in ArgumentTypes /\ Supported(t, "constexpr")
      BY <1>3, <1>14, <2>1
    <3>2. t.cls # "pointer" /\ t # Float(32)
      BY <3>1 DEF Supported, IsInteger, NoneType, BoolType, Float, Type
    <3> QED BY <3>1, <3>2, TypeClasses
  <2>3. Decided
    BY <1>2, <1>4, <1>8, <1>14, <1>11, <2>2
  <2> QED BY <1>10, <1>9, <2>3 DEF IsMerged, a
<1> QED BY <1>4, <1>12, <1>13, <1>14

(* What is allowed of a value that comes at the bind. *)
BoundMerged(a) ==
  a.how \in {"tensor", "pointer"} =>
    /\ a.how = "pointer" => Cardinality(a.types) = 1
    /\ a.how = "tensor" => a.types = {} \/ Cardinality(a.types) = 1
    /\ \A t \in a.types : t.cls = "pointer" \/ (a.how = "tensor" /\ t.cls = "none")
    /\ \A fact \in Facts : a.modes[fact] = "auto" => \A t \in BranchesOf(a.types) : fact \notin Applicable(t)

(* The merge leaves one type, or none, to a parameter that is bound, a    *)
(* pointer's or None's.                                                    *)
LEMMA BoundIs ==
  ASSUME NEW p, IsParameter(p), NEW d \in Drafts(p), NEW types \in EffectiveTypes(d),
         Allowed(p, d, types)
  PROVE  BoundMerged(Merged(p, d, types))
<1> DEFINE a == Merged(p, d, types)
<1>1. DraftIsTyped(p, d)
  BY DraftTyped
<1>2. /\ a.types = types
      /\ a.modes = (IF d.kind = "argument" /\ IsBaked(d)
                      THEN BakedModes(d, CHOOSE t \in types : TRUE) ELSE d.modes)
      /\ a.how = (IF IsBaked(d) THEN "baked" ELSE IF IsBound(d) THEN d.bind[1] ELSE "public")
  BY DEF Merged
<1> HIDE DEF a
<1> SUFFICES ASSUME a.how \in {"tensor", "pointer"}
             PROVE  BoundMerged(a)
  BY DEF BoundMerged, a
<1>3. ~IsBaked(d) /\ IsBound(d) /\ d.bind = <<a.how>> /\ d.kind = "argument" /\ a.modes = d.modes
  BY <1>1, <1>2 DEF DraftIsTyped, IsBound
<1>4. BindAllows(d, types)
  BY <1>3 DEF Allowed
<1> QED BY <1>2, <1>3, <1>4 DEF BindAllows, BoundMerged

(* Annotate adds whether an autotune layer keys on the parameter.          *)
LEMMA AnnotateIs ==
  ASSUME NEW o, NEW i \in DOMAIN o.params, IsParameter(o.params[i]), NEW a \in Annotate(o, i)
  PROVE  /\ IsMerged(a) /\ BoundMerged(a)
         /\ \E b \in MergeAnnotations(o.params[i]) :
              \E exact \in BOOLEAN : a = [b EXCEPT !.exactKey = exact]
<1>1. PICK b \in MergeAnnotations(o.params[i]) : a = [b EXCEPT !.exactKey = o.params[i].name \in o.exactKeys]
  BY DEF Annotate
<1>2. PICK d \in Drafts(o.params[i]) : \E types \in EffectiveTypes(d) :
           Allowed(o.params[i], d, types) /\ b = Merged(o.params[i], d, types)
  BY MergedIs
<1>3. PICK types \in EffectiveTypes(d) :
           Allowed(o.params[i], d, types) /\ b = Merged(o.params[i], d, types)
  BY <1>2
<1>4. IsMerged(b) /\ BoundMerged(b)
  BY <1>3, MergedTyped, BoundIs
<1> DEFINE exact == o.params[i].name \in o.exactKeys
<1>5. exact \in BOOLEAN /\ a = [b EXCEPT !.exactKey = exact]
  BY <1>1
<1> HIDE DEF exact
<1>6. b = [name |-> b.name, kind |-> b.kind, types |-> b.types, modes |-> b.modes,
           powerOfTwo |-> b.powerOfTwo, exactKey |-> b.exactKey, tritonTyped |-> b.tritonTyped,
           tensorOnly |-> b.tensorOnly, noneOk |-> b.noneOk, ptrRange |-> b.ptrRange,
           how |-> b.how, value |-> b.value]
  BY <1>3 DEF Merged
<1>7. a = [name |-> b.name, kind |-> b.kind, types |-> b.types, modes |-> b.modes,
           powerOfTwo |-> b.powerOfTwo, exactKey |-> exact, tritonTyped |-> b.tritonTyped,
           tensorOnly |-> b.tensorOnly, noneOk |-> b.noneOk, ptrRange |-> b.ptrRange,
           how |-> b.how, value |-> b.value]
  BY <1>5, <1>6
<1>8. BoundMerged(a)
  BY <1>4, <1>7 DEF BoundMerged
<1>9. IsMerged(a)
  <2>1. /\ a.kind = b.kind /\ a.types = b.types /\ a.modes = b.modes /\ a.powerOfTwo = b.powerOfTwo
        /\ a.exactKey = exact /\ a.tritonTyped = b.tritonTyped /\ a.tensorOnly = b.tensorOnly
        /\ a.noneOk = b.noneOk /\ a.ptrRange = b.ptrRange /\ a.how = b.how /\ a.value = b.value
    BY <1>7
  <2>2. OneType(a) = OneType(b) /\ TheType(a) = TheType(b)
    BY <2>1 DEF OneType, TheType
  <2>3. a.how = "baked" /\ a.kind = "argument" => FixedFits(a) = FixedFits(b)
    <3>1. IsTyped(a) = IsTyped(b)
      BY <2>1, <2>2 DEF IsTyped
    <3>2. a.kind = "argument" => Decode(a, a.value, TRUE) = Decode(b, b.value, TRUE)
      BY <2>1, <2>2, <3>1 DEF Decode, DecodeTyped
    <3> QED BY <2>1, <2>2, <3>2 DEF FixedFits
  <2>4. a = [name |-> a.name, kind |-> a.kind, types |-> a.types, modes |-> a.modes,
             powerOfTwo |-> a.powerOfTwo, exactKey |-> a.exactKey, tritonTyped |-> a.tritonTyped,
             tensorOnly |-> a.tensorOnly, noneOk |-> a.noneOk, ptrRange |-> a.ptrRange,
             how |-> a.how, value |-> a.value]
    BY <1>7
  <2> QED BY <1>4, <1>5, <2>1, <2>2, <2>3, <2>4 DEF IsMerged
<1> QED BY <1>1, <1>5, <1>8, <1>9

(* Four things are finitely many. *)
LEMMA FiniteFour ==
  ASSUME NEW a, NEW b, NEW c, NEW d
  PROVE  IsFiniteSet({a, b, c, d})
<1>1. IsFiniteSet({a} \union {b}) /\ IsFiniteSet({c} \union {d})
  BY FS_Singleton, FS_Union
<1>2. {a, b, c, d} = ({a} \union {b}) \union ({c} \union {d})
  OBVIOUS
<1> DEFINE left == {a} \union {b}
           right == {c} \union {d}
<1> HIDE DEF left, right
<1>3. IsFiniteSet(left \union right)
  BY <1>1, FS_Union, Zenon DEF left, right
<1> QED BY <1>2, <1>3, Zenon DEF left, right

(* There are finitely many types. *)
LEMMA TypesFinite == IsFiniteSet(ArgumentTypes)
<1> DEFINE pointers == {Pointer(dtype) : dtype \in 0 .. 31}
<1>1. IsFiniteSet(pointers)
  <2>1. [dtype \in 0 .. 31 |-> Pointer(dtype)] \in Surjection(0 .. 31, pointers)
    BY DEF Surjection
  <2>2. IsFiniteSet(0 .. 31)
    <3>1. 0 \in Int /\ 31 \in Int
      OBVIOUS
    <3> QED BY <3>1, FS_Interval, Zenon
  <2> HIDE DEF pointers
  <2> QED BY <2>1, <2>2, FS_Surjection
<1> DEFINE others == {NoneType, BoolType, Float(64), Float(32)}
           signed == {Signed(8), Signed(16), Signed(32), Signed(64)}
           unsigned == {Unsigned(8), Unsigned(16), Unsigned(32), Unsigned(64)}
<1>2. IsFiniteSet(others) /\ IsFiniteSet(signed) /\ IsFiniteSet(unsigned)
  BY FiniteFour
<1>3. ArgumentTypes = (others \union signed) \union (unsigned \union pointers)
  BY DEF ArgumentTypes, ConstexprTypes
<1> HIDE DEF others, signed, unsigned, pointers
<1>4. IsFiniteSet(others \union signed) /\ IsFiniteSet(unsigned \union pointers)
  BY <1>1, <1>2, FS_Union
<1> QED BY <1>3, <1>4, FS_Union

(* A set of types that has size 1 has one. *)
LEMMA OneIsSingle ==
  ASSUME NEW types, types \subseteq ArgumentTypes, Cardinality(types) = 1
  PROVE  \E t : types = {t}
<1>1. IsFiniteSet(types)
  BY TypesFinite, FS_Subset
<1> QED BY <1>1, FS_Singleton

(* A bound parameter's annotation when its value is there: it has one type,*)
(* and none of its facts is left to a call.                                *)
LEMMA BoundTyped ==
  ASSUME NEW o, NEW a, IsMerged(a), BoundMerged(a),
         Named(a) => IsValue(o.bindValues[a.name]), NEW b \in BindOne(o, a)
  PROVE  /\ IsAnnotation(b) /\ FixedFits(b) /\ b.kind # "dynamic"
         /\ b.how \in {"public", "baked", "tensor", "pointer"}
         /\ b.how = a.how /\ (~Named(a) => b = a)
<1> DEFINE v == o.bindValues[a.name]
<1>1. CASE ~Named(a)
  <2>1. b = a
    BY <1>1 DEF BindOne, Named
  <2>2. a.how \notin {"tensor", "pointer"}
    BY <1>1 DEF Named
  <2>3. IsAnnotation(a)
    BY <2>2 DEF IsMerged, IsAnnotation
  <2>4. FixedFits(a)
    BY <2>2 DEF IsMerged, FixedFits
  <2> QED BY <1>1, <2>1, <2>3, <2>4 DEF IsMerged
<1>2. CASE Named(a)
  <2> DEFINE types == IF a.how = "tensor" THEN BoundTypes(a, v) ELSE a.types
  <2>1. a.how \in {"tensor", "pointer"} /\ IsValue(v) /\ a.kind = "argument"
    BY <1>2 DEF Named, IsMerged
  <2>2. b = [a EXCEPT !.types = types, !.value = v]
    <3>1. CASE a.how = "tensor"
      BY <3>1 DEF BindOne, BindTensor
    <3>2. CASE a.how = "pointer"
      <4>1. b = [a EXCEPT !.value = v]
        BY <3>2 DEF BindOne
      <4>2. types = a.types
        BY <3>2
      <4> HIDE DEF types, v
      <4> QED BY <4>1, <4>2 DEF IsMerged
    <3> QED BY <2>1, <3>1, <3>2
  <2>3. PICK t : /\ types = {t} /\ t \in ArgumentTypes /\ t.cls \in {"none", "pointer"}
                 /\ a.types = {} \/ a.types = {t}
                 /\ \A fact \in Facts : a.modes[fact] = "auto" => fact \notin Applicable(t)
    <3>1. /\ a.types \subseteq ArgumentTypes /\ \A t \in a.types : t.cls \in {"none", "pointer"}
          /\ \A fact \in Facts : a.modes[fact] = "auto" => \A t \in BranchesOf(a.types) : fact \notin Applicable(t)
      BY <2>1 DEF IsMerged, BoundMerged
    <3>2. CASE a.types = {}
      <4>1. a.how = "tensor"
        BY <2>1, <3>2, FS_EmptySet DEF BoundMerged
      <4>2. PICK t \in {NoneType, Pointer(v.dtype)} : types = {t}
        BY <3>2, <4>1 DEF BoundTypes
      <4>3. v.dtype \in 0 .. 31
        BY <2>1 DEF IsValue
      <4>4. t \in ArgumentTypes
        BY <4>2, <4>3 DEF ArgumentTypes, ConstexprTypes
      <4>5. t.cls \in {"none", "pointer"}
        BY <4>2 DEF NoneType, Pointer, Type
      <4>6. \A fact \in Facts : a.modes[fact] = "auto" => fact \notin {"one", "aligned", "range"}
        <5>1. Signed(32) \in BranchesOf(a.types) /\ Pointer(0) \in BranchesOf(a.types)
          BY <3>2 DEF BranchesOf
        <5>2. Applicable(Signed(32)) = {"one", "aligned"} /\ Applicable(Pointer(0)) = {"aligned", "range"}
          BY DEF Applicable, IsInteger, Signed, Pointer, Type
        <5> QED BY <3>1, <5>1, <5>2
      <4> QED BY <3>2, <4>2, <4>4, <4>5, <4>6 DEF Facts
    <3>3. CASE a.types # {}
      <4>1. Cardinality(a.types) = 1
        BY <2>1, <3>3 DEF BoundMerged
      <4>2. types = a.types
        BY <3>3 DEF BoundTypes
      <4>3. PICK t : a.types = {t}
        BY <3>1, <4>1, OneIsSingle, Zenon
      <4>4. BranchesOf(a.types) = {t}
        BY <4>3 DEF BranchesOf
      <4> HIDE DEF types
      <4> QED BY <3>1, <4>2, <4>3, <4>4
    <3> QED BY <3>2, <3>3
  <2> HIDE DEF types, v
  <2>4. /\ b.kind = a.kind /\ b.types = {t} /\ b.modes = a.modes /\ b.powerOfTwo = a.powerOfTwo
        /\ b.exactKey = a.exactKey /\ b.tritonTyped = a.tritonTyped /\ b.tensorOnly = a.tensorOnly
        /\ b.noneOk = a.noneOk /\ b.ptrRange = a.ptrRange /\ b.how = a.how /\ b.value = v
    BY <2>2, <2>3 DEF IsMerged
  <2>5. OneType(b) /\ TheType(b) = t
    <3>1. Cardinality({t}) = 1
      BY FS_Singleton
    <3> QED BY <2>4, <3>1 DEF OneType, TheType
  <2>6. b.tritonTyped => NoneType \notin b.types
    <3>1. a.tritonTyped => OneType(a) /\ NoneType \notin a.types
      BY DEF IsMerged
    <3>2. OneType(a) => a.types # {}
      BY FS_EmptySet DEF OneType
    <3> QED BY <2>3, <2>4, <3>1, <3>2
  <2>7. \A u \in b.types, fact \in Facts : ~IsAuto(b, u, fact)
    BY <2>3, <2>4 DEF IsAuto
  <2>8. IsAnnotation(b)
    <3>1. /\ a.modes \in Modes
          /\ {a.powerOfTwo, a.exactKey, a.tritonTyped, a.tensorOnly, a.noneOk, a.ptrRange} \subseteq BOOLEAN
      BY DEF IsMerged
    <3> QED BY <2>1, <2>3, <2>4, <2>5, <2>6, <2>7, <3>1 DEF IsAnnotation
  <2>9. FixedFits(b)
    BY <2>1, <2>3, <2>4, <2>5 DEF FixedFits
  <2> QED BY <1>2, <2>1, <2>4, <2>8, <2>9
<1> QED BY <1>1, <1>2

(* A source and a raw annotation without a value. *)
Blank(s) == [s EXCEPT !.value = <<>>]
BlankRaw(raw) == [raw EXCEPT !.source = Blank(raw.source)]

(* Only the value is taken away.                                           *)
LEMMA BlankIs ==
  ASSUME NEW s, IsSource(s)
  PROVE  /\ Blank(s).kind = s.kind /\ Blank(s).type = s.type /\ Blank(s).specialize = s.specialize
         /\ Blank(s).value = <<>> /\ Blank(s).bind = s.bind /\ Blank(s).ptrRange = s.ptrRange
         /\ Blank(s).powerOfTwo = s.powerOfTwo
         /\ IsSource(Blank(s))
<1>1. s = [kind |-> s.kind, type |-> s.type, specialize |-> s.specialize, value |-> s.value,
           bind |-> s.bind, ptrRange |-> s.ptrRange, powerOfTwo |-> s.powerOfTwo]
  BY DEF IsSource
<1>2. Blank(s) = [kind |-> s.kind, type |-> s.type, specialize |-> s.specialize, value |-> <<>>,
                  bind |-> s.bind, ptrRange |-> s.ptrRange, powerOfTwo |-> s.powerOfTwo]
  BY <1>1 DEF Blank
<1>3. /\ Blank(s).kind = s.kind /\ Blank(s).type = s.type /\ Blank(s).specialize = s.specialize
      /\ Blank(s).value = <<>> /\ Blank(s).bind = s.bind /\ Blank(s).ptrRange = s.ptrRange
      /\ Blank(s).powerOfTwo = s.powerOfTwo
  BY <1>2
<1>4. GivenTypes(Blank(s)) = GivenTypes(s)
  BY <1>3 DEF GivenTypes
<1>5. Blank(s) = [kind |-> Blank(s).kind, type |-> Blank(s).type, specialize |-> Blank(s).specialize,
                  value |-> Blank(s).value, bind |-> Blank(s).bind, ptrRange |-> Blank(s).ptrRange,
                  powerOfTwo |-> Blank(s).powerOfTwo]
  BY <1>2
<1>6. IsSource(Blank(s))
  BY <1>3, <1>4, <1>5 DEF IsSource
<1> QED BY <1>3, <1>6

(* One that has none is as it was. *)
LEMMA BlankKeeps ==
  ASSUME NEW s, IsSource(s), s.value = <<>>
  PROVE  Blank(s) = s
<1>1. s = [kind |-> s.kind, type |-> s.type, specialize |-> s.specialize, value |-> s.value,
           bind |-> s.bind, ptrRange |-> s.ptrRange, powerOfTwo |-> s.powerOfTwo]
  BY DEF IsSource
<1>2. Blank(s) = [kind |-> s.kind, type |-> s.type, specialize |-> s.specialize, value |-> <<>>,
                  bind |-> s.bind, ptrRange |-> s.ptrRange, powerOfTwo |-> s.powerOfTwo]
  BY <1>1 DEF Blank
<1> QED BY <1>1, <1>2

(* The parameter whose value the calls pass is one, too: only the values of*)
(* its sources are gone.                                                   *)
LEMMA UnbakedIs ==
  ASSUME NEW p, IsParameter(p), NEW u, u = Unbaked(p)
  PROVE  /\ IsParameter(u) /\ u.tritonTyped = p.tritonTyped /\ u.doNotSpecialize = p.doNotSpecialize
         /\ u.doNotSpecializeOnAlignment = p.doNotSpecializeOnAlignment
         /\ u.inline.says = p.inline.says /\ u.inline.source = Blank(p.inline.source)
         /\ u.extra.says = p.extra.says /\ u.extra.source = Blank(p.extra.source)
<1>1. p = [name |-> p.name, inline |-> p.inline, extra |-> p.extra, isConstexpr |-> p.isConstexpr,
           tritonTyped |-> p.tritonTyped, doNotSpecialize |-> p.doNotSpecialize,
           doNotSpecializeOnAlignment |-> p.doNotSpecializeOnAlignment]
  BY DEF IsParameter
<1>2. u = [p EXCEPT !.inline = BlankRaw(p.inline), !.extra = BlankRaw(p.extra)]
  BY DEF Unbaked, BlankRaw, Blank
<1>3. u = [name |-> p.name, inline |-> BlankRaw(p.inline), extra |-> BlankRaw(p.extra),
           isConstexpr |-> p.isConstexpr, tritonTyped |-> p.tritonTyped,
           doNotSpecialize |-> p.doNotSpecialize,
           doNotSpecializeOnAlignment |-> p.doNotSpecializeOnAlignment]
  BY <1>1, <1>2
<1>4. ASSUME NEW raw, IsRaw(raw)
      PROVE  /\ BlankRaw(raw) = [says |-> raw.says, source |-> Blank(raw.source)]
             /\ IsRaw(BlankRaw(raw)) /\ BlankRaw(raw).says = raw.says
             /\ BlankRaw(raw).source = Blank(raw.source)
  <2>1. raw = [says |-> raw.says, source |-> raw.source] /\ IsSource(raw.source)
    BY <1>4 DEF IsRaw
  <2>2. BlankRaw(raw) = [says |-> raw.says, source |-> Blank(raw.source)]
    BY <2>1 DEF BlankRaw
  <2>3. IsSource(Blank(raw.source))
    BY <2>1, BlankIs
  <2>4. raw.says \in {"nothing", "tensor", "optional", "source"}
    BY <1>4 DEF IsRaw
  <2>5. IsRaw(BlankRaw(raw))
    BY <2>2, <2>3, <2>4 DEF IsRaw
  <2> QED BY <2>2, <2>5
<1>5. IsRaw(p.inline) /\ IsRaw(p.extra)
  BY DEF IsParameter
<1>6. IsRaw(u.inline) /\ IsRaw(u.extra)
  BY <1>3, <1>4, <1>5
<1>7. /\ u.inline.says = p.inline.says /\ u.inline.source = Blank(p.inline.source)
      /\ u.extra.says = p.extra.says /\ u.extra.source = Blank(p.extra.source)
      /\ u.tritonTyped = p.tritonTyped /\ u.doNotSpecialize = p.doNotSpecialize
      /\ u.doNotSpecializeOnAlignment = p.doNotSpecializeOnAlignment
  BY <1>3, <1>4, <1>5
<1>8. /\ u.inline.source.kind = p.inline.source.kind
      /\ GivenTypes(u.inline.source) = GivenTypes(p.inline.source)
  <2>1. IsSource(p.inline.source)
    BY <1>5 DEF IsRaw
  <2> QED BY <1>7, <2>1, BlankIs DEF GivenTypes
<1>9. u = [name |-> u.name, inline |-> u.inline, extra |-> u.extra, isConstexpr |-> u.isConstexpr,
           tritonTyped |-> u.tritonTyped, doNotSpecialize |-> u.doNotSpecialize,
           doNotSpecializeOnAlignment |-> u.doNotSpecializeOnAlignment]
  BY <1>3
<1>10. IsParameter(u)
  BY <1>6, <1>7, <1>8, <1>9 DEF IsParameter
<1> QED BY <1>7, <1>10

(* Its sources are those of the parameter, without their values. *)
LEMMA SidesUnbaked ==
  ASSUME NEW p, IsParameter(p), NEW u, u = Unbaked(p)
  PROVE  LeftOf(u) = Blank(LeftOf(p)) /\ RightOf(u) = Blank(RightOf(p))
<1>1. /\ u.inline.says = p.inline.says /\ u.inline.source = Blank(p.inline.source)
      /\ u.extra.says = p.extra.says /\ u.extra.source = Blank(p.extra.source)
  BY UnbakedIs
<1>2. /\ Blank(p.inline.source).kind = p.inline.source.kind
      /\ Blank(p.extra.source).kind = p.extra.source.kind
  BY BlankIs DEF IsParameter, IsRaw
<1>3. \A q : (\E s \in AnnotationSource(q.inline) \union AnnotationSource(q.extra) : s.kind = "constexpr")
         <=> \/ q.inline.says = "source" /\ q.inline.source.kind = "constexpr"
             \/ q.extra.says = "source" /\ q.extra.source.kind = "constexpr"
  BY DEF AnnotationSource
<1>4. Defaults(u) = Defaults(p)
  BY <1>1, <1>2, <1>3 DEF Defaults
<1>5. Blank(Defaults(p)) = Defaults(p)
  <2>1. Defaults(p) \in {Argument, ConstexprSource}
    BY DEF Defaults
  <2>2. IsSource(Argument) /\ IsSource(ConstexprSource)
    BY DEF IsSource, Argument, ConstexprSource, SourceOf, AnySpecialize, GivenTypes
  <2>3. Argument.value = <<>> /\ ConstexprSource.value = <<>>
    BY DEF Argument, ConstexprSource, SourceOf
  <2> QED BY <2>1, <2>2, <2>3, BlankKeeps
<1> QED BY <1>1, <1>4, <1>5 DEF LeftOf, RightOf, Side

(* So are its drafts. *)
LEMMA DraftUnbaked ==
  ASSUME NEW p, IsParameter(p), NEW d \in Drafts(p), NEW e \in Drafts(Unbaked(p))
  PROVE  e.kind = d.kind /\ e.type = d.type /\ e.bind = d.bind /\ e.value = <<>> /\ e.modes = d.modes
<1> DEFINE u == Unbaked(p)
           l == LeftOf(p)
           r == RightOf(p)
           l0 == LeftOf(u)
           r0 == RightOf(u)
<1>1. /\ d = Draft(p, l, r, d.type, d.value, d.bind)
      /\ d.type \in MergeType(l.type, r.type) /\ d.bind \in MergeField(l.bind, r.bind)
  BY DraftIs
<1>2. /\ e = Draft(u, l0, r0, e.type, e.value, e.bind)
      /\ e.type \in MergeType(l0.type, r0.type) /\ e.bind \in MergeField(l0.bind, r0.bind)
      /\ e.value \in MergeField(l0.value, r0.value)
  BY DraftIs
<1>3. /\ l0.kind = l.kind /\ l0.type = l.type /\ l0.specialize = l.specialize /\ l0.value = <<>> /\ l0.bind = l.bind
      /\ r0.kind = r.kind /\ r0.type = r.type /\ r0.specialize = r.specialize /\ r0.value = <<>> /\ r0.bind = r.bind
  BY SidesAre, SidesUnbaked, BlankIs
<1>4. /\ u.tritonTyped = p.tritonTyped /\ u.doNotSpecialize = p.doNotSpecialize
      /\ u.doNotSpecializeOnAlignment = p.doNotSpecializeOnAlignment
  BY UnbakedIs
<1> HIDE DEF u, l, r, l0, r0
<1>5. e.value = <<>>
  BY <1>2, <1>3, MergedField
<1>6. e.type = d.type
  <2>1. MergeType(l0.type, r0.type) = MergeType(l.type, r.type)
    BY <1>3
  <2>2. MergeType(l.type, r.type) = {d.type}
    BY <1>1, MergedType
  <2> QED BY <1>2, <2>1, <2>2
<1>7. e.bind = d.bind
  <2>1. MergeField(l0.bind, r0.bind) = MergeField(l.bind, r.bind)
    BY <1>3
  <2>2. MergeField(l.bind, r.bind) = {d.bind}
    BY <1>1, MergedField
  <2> QED BY <1>2, <2>1, <2>2
<1>8. DraftModes(u, l0, r0) = DraftModes(p, l, r)
  <2>1. \A fact \in Facts : DecoratorMode(u, fact) = DecoratorMode(p, fact)
    BY <1>4 DEF DecoratorMode
  <2>2. \A fact \in Facts : MergedModes(u, l0, r0, fact) = MergedModes(p, l, r, fact)
    BY <1>3, <2>1, Zenon DEF MergedModes
  <2>3. \A m, fact : SettledMode(u, m, fact) = SettledMode(p, m, fact)
    BY <1>4 DEF SettledMode
  <2> DEFINE Mode(q, x, y, fact) ==
               IF x.kind = "constexpr" THEN "auto"
               ELSE SettledMode(q, CHOOSE m \in MergedModes(q, x, y, fact) : TRUE, fact)
  <2>4. \A fact \in Facts : Mode(u, l0, r0, fact) = Mode(p, l, r, fact)
    BY <1>3, <2>2, <2>3, Zenon
  <2>5. /\ DraftModes(u, l0, r0) = [fact \in Facts |-> Mode(u, l0, r0, fact)]
        /\ DraftModes(p, l, r) = [fact \in Facts |-> Mode(p, l, r, fact)]
    BY Zenon DEF DraftModes
  <2> HIDE DEF Mode
  <2> QED BY <2>4, <2>5
<1>9. e.kind = l0.kind /\ d.kind = l.kind /\ e.modes = DraftModes(u, l0, r0) /\ d.modes = DraftModes(p, l, r)
  BY <1>1, <1>2 DEF Draft
<1> QED BY <1>3, <1>5, <1>6, <1>7, <1>8, <1>9

(* The modes that a baked value decides say of it what C's code and        *)
(* Triton's specialization say of the same value when a call passes it.    *)
LEMMA BakedKeyed ==
  ASSUME NEW d, d.modes \in Modes, NEW t, t.cls # "pointer",
         NEW a, a.modes = d.modes, NEW b, b.modes = BakedModes(d, t), NEW e,
         IsInteger(t) => /\ e.kind # "bool"
                         /\ e.bits = 1 <=> BakedValue(d).n = 1
                         /\ e.bits % Divisor = 0 <=> BakedValue(d).n % Divisor = 0
  PROVE  KeyedInput(a, t, e) = KeyedInput(b, t, e)
<1>1. CASE ~IsInteger(t)
  <2>1. ~IsOne(a, t, e) /\ ~IsOne(b, t, e)
    BY <1>1 DEF IsOne
  <2>2. Applicable(t) = {}
    BY <1>1 DEF Applicable
  <2>3. \A q : {fact \in {"aligned", "range"} \intersect Applicable(t) : KeyedFact(q, t, e, fact)} = {}
    BY <2>2
  <2> QED BY <2>1, <2>3 DEF KeyedInput
<1>2. CASE IsInteger(t)
  <2>1. Applicable(t) = {"one", "aligned"}
    BY <1>2 DEF Applicable
  <2>2. /\ b.modes["one"] = IF d.modes["one"] = "auto"
                              THEN IF e.bits = 1 THEN "assume" ELSE "never" ELSE d.modes["one"]
        /\ b.modes["aligned"] = IF d.modes["aligned"] = "auto"
                                  THEN IF b.modes["one"] # "assume" /\ e.bits % Divisor = 0
                                         THEN "assume" ELSE "never"
                                ELSE d.modes["aligned"]
    BY <1>2, <2>1, BakedModesIn
  <2>3. d.modes["one"] \in {"auto", "never", "assume"} /\ d.modes["aligned"] \in {"auto", "never", "assume"}
    BY DEF Modes, Facts
  <2>4. IsOne(a, t, e) <=> IsOne(b, t, e)
    BY <1>2, <2>2, <2>3 DEF IsOne
  <2>5. ASSUME ~IsOne(b, t, e) PROVE b.modes["one"] # "assume"
    BY <1>2, <2>5 DEF IsOne
  <2>6. ASSUME ~IsOne(b, t, e) PROVE KeyedFact(a, t, e, "aligned") <=> KeyedFact(b, t, e, "aligned")
    <3>1. \A q : AlignedCode(q, t, e) <=> q.modes["aligned"] = "auto" /\ e.bits % Divisor = 0
      BY <1>2 DEF AlignedCode
    <3> QED BY <2>2, <2>3, <2>5, <2>6, <3>1 DEF KeyedFact
  <2>7. \A q : {fact \in {"aligned", "range"} \intersect Applicable(t) : KeyedFact(q, t, e, fact)}
                 = IF KeyedFact(q, t, e, "aligned") THEN {"aligned"} ELSE {}
    BY <2>1
  <2> QED BY <2>4, <2>6, <2>7 DEF KeyedInput
<1> QED BY <1>1, <1>2

(* A baked argument and the annotation that it had, did calls pass it.     *)
BakedFrom(p, d, t, b) ==
  /\ IsParameter(p) /\ d \in Drafts(p) /\ d.kind = "argument" /\ IsBaked(d)
  /\ {t} \in EffectiveTypes(d) /\ Allowed(p, d, {t})
  /\ b.kind = "argument" /\ b.how = "baked" /\ b.value = BakedValue(d)
  /\ b.types = {t} /\ b.modes = BakedModes(d, t) /\ b.tensorOnly = FALSE

(* The value is of the type that it is baked as. *)
LEMMA BakedReads ==
  ASSUME NEW p, NEW d, NEW t, NEW b, BakedFrom(p, d, t, b), IsAnnotation(b)
  PROVE  LET e == DecodeScalar(b.value) IN
         /\ IsValue(b.value) /\ t \in ArgumentTypes /\ t.cls # "pointer" /\ Reads(b.value, TRUE, t, e)
         /\ IsInteger(t) => e.kind # "bool"
         /\ Cardinality(CanonicalTypes(d)) = 1 => CanonicalTypes(d) = {t}
         /\ Cardinality(CanonicalTypes(d)) # 1 => Infers(b.value, t)
<1> DEFINE v == b.value
           e == DecodeScalar(v)
<1>1. DraftIsTyped(p, d)
  BY DraftTyped DEF BakedFrom
<1>2. /\ v = BakedValue(d) /\ IsValue(v) /\ IsBaked(d) /\ d.kind = "argument" /\ {t} \in EffectiveTypes(d)
      /\ CanonicalTypes(d) \subseteq ArgumentTypes
  BY <1>1 DEF BakedFrom, DraftIsTyped, IsBaked, BakedValue
<1>3. BakedTypeIs(d, t)
  BY <1>2, BakedArgumentIs
<1>4. t \in ArgumentTypes /\ Fits(v, t)
  BY <1>2, <1>3, InferredTypes DEF BakedTypeIs
<1>5. /\ TypeValid(t, e) /\ e.kind # "refused" /\ t.cls # "pointer"
      /\ v.kind \in {"int", "bool", "float", "none"} /\ (IsInteger(t) => v.kind = "int")
  BY <1>2, <1>4, FitsDecodes
<1>6. ~IsTyped(b) /\ b.kind = "argument" /\ b.tensorOnly = FALSE
  BY DEF BakedFrom, IsTyped
<1> HIDE DEF v
<1>7. Decode(b, v, TRUE) = e
  BY <1>5, <1>6 DEF Decode
<1> HIDE DEF e
<1>8. Reads(v, TRUE, t, e)
  BY <1>2, <1>4, <1>5, <1>6, <1>7, UntypedReads
<1>9. IsInteger(t) => e.kind # "bool"
  BY <1>5, <1>8 DEF Reads
<1>10. CASE Cardinality(CanonicalTypes(d)) = 1
  <2>1. t \in CanonicalTypes(d)
    BY <1>3, <1>10 DEF BakedTypeIs
  <2>2. PICK u : CanonicalTypes(d) = {u}
    BY <1>2, <1>10, OneIsSingle
  <2> QED BY <1>2, <1>4, <1>5, <1>8, <1>9, <1>10, <2>1, <2>2 DEF v, e
<1>11. CASE Cardinality(CanonicalTypes(d)) # 1
  <2>1. t \in InferredScalarType(v)
    BY <1>2, <1>3, <1>11 DEF BakedTypeIs
  <2>2. t = InferType(e)
    BY <1>2, <2>1, InferredTypes DEF e
  <2>3. Infers(v, t)
    BY <1>2, <1>5, <1>6, <1>7, <2>2, InferTells
  <2> QED BY <1>2, <1>4, <1>5, <1>8, <1>9, <1>11, <2>3 DEF v, e
<1> QED BY <1>10, <1>11

(* The annotation that passes it has the types and the modes that are      *)
(* given, and no tensor's.                                                 *)
LEMMA PassedIs ==
  ASSUME NEW p, NEW d, NEW t, NEW b, BakedFrom(p, d, t, b), NEW a \in MergeAnnotations(Unbaked(p))
  PROVE  /\ IsAnnotation(a) /\ a.kind = "argument" /\ a.how = "public"
         /\ a.types = CanonicalTypes(d) /\ a.modes = d.modes
<1> DEFINE u == Unbaked(p)
<1>1. IsParameter(p) /\ IsParameter(u)
  BY UnbakedIs DEF BakedFrom
<1>2. PICK e \in Drafts(u) :
        \E types \in EffectiveTypes(e) : Allowed(u, e, types) /\ a = Merged(u, e, types)
  BY MergedIs
<1> PICK types \in EffectiveTypes(e) : Allowed(u, e, types) /\ a = Merged(u, e, types)
  BY <1>2
<1>3. e.kind = d.kind /\ e.type = d.type /\ e.bind = d.bind /\ e.value = <<>> /\ e.modes = d.modes
  BY <1>1, DraftUnbaked DEF BakedFrom
<1>4. ~IsBaked(e) /\ ~IsBound(e) /\ CanonicalTypes(e) = CanonicalTypes(d) /\ d.kind = "argument"
  <2>1. ~(IsBaked(d) /\ IsBound(d)) /\ IsBaked(d) /\ d.kind = "argument"
    BY DEF BakedFrom, Allowed
  <2> QED BY <1>3, <2>1 DEF IsBaked, IsBound, CanonicalTypes
<1>5. types = CanonicalTypes(d)
  BY <1>4, GivenIs
<1>6. a.kind = "argument" /\ a.how = "public" /\ a.types = types /\ a.modes = d.modes
  BY <1>3, <1>4 DEF Merged
<1>7. IsMerged(a)
  BY <1>1, MergedTyped
<1> HIDE DEF u
<1>8. IsAnnotation(a)
  BY <1>6, <1>7 DEF IsMerged, IsAnnotation
<1> QED BY <1>5, <1>6, <1>8

(* A value that is no pointer has no range to be shown. *)
LEMMA ShownScalar ==
  ASSUME NEW a, IsAnnotation(a), a.kind = "argument", NEW v, IsValue(v),
         launcher.keysRange \in BOOLEAN, NEW w \in BOOLEAN, w = (v.kind # "tensor" \/ w),
         NEW e, NEW t \in ArgumentTypes, Reads(v, w, t, e), IsInteger(t) => e.kind # "bool",
         IF Fixed(a) THEN t = TheType(a) ELSE Infers(v, t)
  PROVE  ArgumentInput(a, v, w) = KeyedInput(a, t, e)
<1>1. ~(IsInteger(t) /\ e.kind = "bool")
  OBVIOUS
<1> QED BY <1>1, InputOfReads

(* Baked, it compiles as when calls pass it. *)
LEMMA BakedCompiles ==
  ASSUME NEW p, NEW d, NEW t, NEW b, BakedFrom(p, d, t, b), IsAnnotation(b),
         launcher.keysRange \in BOOLEAN, NEW a \in MergeAnnotations(Unbaked(p))
  PROVE  ArgumentInput(a, b.value, TRUE) = ArgumentInput(b, b.value, TRUE)
<1> DEFINE v == b.value
           e == DecodeScalar(v)
<1>1. /\ IsValue(v) /\ t \in ArgumentTypes /\ t.cls # "pointer" /\ Reads(v, TRUE, t, e)
      /\ IsInteger(t) => e.kind # "bool"
      /\ Cardinality(CanonicalTypes(d)) = 1 => CanonicalTypes(d) = {t}
      /\ Cardinality(CanonicalTypes(d)) # 1 => Infers(v, t)
  BY BakedReads
<1>2. /\ IsAnnotation(a) /\ a.kind = "argument" /\ a.how = "public"
      /\ a.types = CanonicalTypes(d) /\ a.modes = d.modes
  BY PassedIs
<1>3. /\ b.kind = "argument" /\ b.types = {t} /\ b.modes = BakedModes(d, t) /\ v = BakedValue(d)
      /\ d.modes \in Modes
  <2>1. d.modes \in Modes
    BY DraftTyped DEF BakedFrom, DraftIsTyped
  <2> QED BY <2>1 DEF BakedFrom
<1> DEFINE w == TRUE
<1>4. w \in BOOLEAN /\ w = (v.kind # "tensor" \/ w) /\ Reads(v, w, t, e)
  BY <1>1
<1> HIDE DEF v, e, w
<1>5. IF Fixed(a) THEN t = TheType(a) ELSE Infers(v, t)
  <2>1. CASE Cardinality(CanonicalTypes(d)) = 1
    <3>1. a.types = {t}
      BY <1>1, <1>2, <2>1
    <3>2. Fixed(a) /\ TheType(a) = t
      BY <1>2, <2>1, <3>1 DEF Fixed, Inferred, OneType, TheType
    <3> QED BY <3>2
  <2>2. CASE Cardinality(CanonicalTypes(d)) # 1
    BY <1>1, <1>2, <2>2 DEF Fixed, OneType
  <2> QED BY <2>1, <2>2
<1>6. ArgumentInput(a, v, w) = KeyedInput(a, t, e)
  BY <1>1, <1>2, <1>4, <1>5, ShownScalar
<1>7. Fixed(b) /\ TheType(b) = t
  <2>1. Cardinality({t}) = 1
    BY FS_Singleton
  <2> QED BY <1>3, <2>1 DEF Fixed, Inferred, OneType, TheType
<1>8. ArgumentInput(b, v, w) = KeyedInput(b, t, e)
  BY <1>1, <1>3, <1>4, <1>7, ShownScalar
<1>9. KeyedInput(a, t, e) = KeyedInput(b, t, e)
  <2>1. IsInteger(t) => /\ e.kind # "bool"
                        /\ e.bits = 1 <=> v.n = 1
                        /\ e.bits % Divisor = 0 <=> v.n % Divisor = 0
    BY <1>1 DEF Reads
  <2> QED BY <1>1, <1>2, <1>3, <2>1, BakedKeyed
<1> QED BY <1>6, <1>8, <1>9 DEF v, w

(* A plan's parameters are those of its kernel, merged and bound, and its  *)
(* options are checked.                                                    *)
LEMMA PlanIs ==
  ASSUME NEW o, NEW l \in BuildPlan(o)
  PROVE  \E m \in Annotated(o) : \E ps \in BoundAll(o, m) : PlanAllows(o) /\ l = Plan(o, ps)
<1>1. PICK m \in {q \in Annotated(o) : PlanAllows(o)} : l \in {Plan(o, ps) : ps \in BoundAll(o, m)}
  BY DEF BuildPlan
<1>2. m \in Annotated(o) /\ PlanAllows(o)
  BY <1>1
<1>3. PICK ps \in BoundAll(o, m) : l = Plan(o, ps)
  BY <1>1
<1> QED BY <1>2, <1>3

(* The annotations of a kernel are those of its parameters, one each.      *)
LEMMA AnnotatedIs ==
  ASSUME NEW o, NEW m \in Annotated(o)
  PROVE  m = [i \in DOMAIN o.params |-> m[i]] /\ \A i \in DOMAIN o.params : m[i] \in Annotate(o, i)
<1> DEFINE sets == [i \in DOMAIN o.params |-> Annotate(o, i)]
<1>1. DOMAIN sets = DOMAIN o.params /\ \A i \in DOMAIN o.params : sets[i] = Annotate(o, i)
  OBVIOUS
<1>2. (\A i \in DOMAIN sets : sets[i] # {}) /\ m = [i \in DOMAIN sets |-> CHOOSE a \in sets[i] : TRUE]
  BY Zenon DEF Annotated
<1> HIDE DEF sets
<1> QED BY <1>1, <1>2

(* Every parameter is bound, or left, on its own.                          *)
LEMMA BoundAllIs ==
  ASSUME NEW o, NEW m, NEW ps \in BoundAll(o, m)
  PROVE  /\ ps = [i \in DOMAIN m |-> ps[i]] /\ \A i \in DOMAIN m : ps[i] \in BindOne(o, m[i])
         /\ BindNamesFit(o, m)
<1> DEFINE sets == [i \in DOMAIN m |-> BindOne(o, m[i])]
<1>1. DOMAIN sets = DOMAIN m /\ \A i \in DOMAIN m : sets[i] = BindOne(o, m[i])
  OBVIOUS
<1>2. /\ \A i \in DOMAIN sets : sets[i] # {}
      /\ ps = [i \in DOMAIN sets |-> CHOOSE a \in sets[i] : TRUE]
      /\ BindNamesFit(o, m)
  BY Zenon DEF BoundAll
<1> HIDE DEF sets
<1> QED BY <1>1, <1>2

(* Declared values that have slots are parameters, too. *)
LEMMA DynamicParamsAre ==
  ASSUME NEW o, IsOption(o), NEW ps
  PROVE  \E k : /\ Tuple(DynamicParams(o, ps), k)
                /\ \A j \in 1 .. k : LET q == DynamicParams(o, ps)[j] IN
                     /\ IsAnnotation(q) /\ FixedFits(q) /\ q.kind = "dynamic" /\ q.how = "public" /\ q.types = {}
<1> DEFINE S == {j \in DOMAIN o.dynamic : o.dynamic[j] \notin Names(ps)}
           slots == InOrder(S)
           k == Cardinality(S)
<1>1. Len(o.dynamic) \in Nat /\ S \in SUBSET (1 .. Len(o.dynamic))
  BY DEF IsOption
<1>2. Tuple(slots, k)
  BY <1>1, InOrderRank
<1>3. DOMAIN slots = 1 .. k /\ k \in Nat
  BY <1>2, TupleLen DEF Tuple
<1> DEFINE q(j) == [kind |-> "dynamic", name |-> o.dynamic[slots[j]],
                    types |-> {}, modes |-> [fact \in Facts |-> "auto"], powerOfTwo |-> FALSE,
                    exactKey |-> FALSE, tritonTyped |-> FALSE, tensorOnly |-> FALSE, noneOk |-> FALSE,
                    ptrRange |-> FALSE, how |-> "public", value |-> None]
<1>4. DynamicParams(o, ps) = [j \in DOMAIN slots |-> q(j)]
  BY DEF DynamicParams
<1>5. ASSUME NEW j
      PROVE  /\ q(j).kind = "dynamic" /\ q(j).how = "public" /\ q(j).types = {}
             /\ IsAnnotation(q(j)) /\ FixedFits(q(j))
  <2>1. /\ q(j).kind = "dynamic" /\ q(j).how = "public" /\ q(j).types = {} /\ q(j).powerOfTwo = FALSE
        /\ q(j).exactKey = FALSE /\ q(j).tritonTyped = FALSE /\ q(j).tensorOnly = FALSE
        /\ q(j).noneOk = FALSE /\ q(j).ptrRange = FALSE /\ q(j).modes = [fact \in Facts |-> "auto"]
    OBVIOUS
  <2> HIDE DEF q
  <2>2. q(j).modes \in Modes
    BY <2>1 DEF Modes
  <2> QED BY <2>1, <2>2 DEF IsAnnotation, FixedFits
<1> HIDE DEF q, slots, k
<1>6. DynamicParams(o, ps) = [j \in 1 .. k |-> DynamicParams(o, ps)[j]]
      /\ \A j \in 1 .. k : DynamicParams(o, ps)[j] = q(j)
  BY <1>3, <1>4
<1> QED BY <1>3, <1>5, <1>6 DEF Tuple

(* The parameters of a plan: first the kernel's.                           *)
KernelParam(o, l, i) ==
  /\ i \in DOMAIN o.params
  /\ \E a \in Annotate(o, i) :
       (Named(a) => IsValue(o.bindValues[a.name])) /\ l.params[i] \in BindOne(o, a)
  /\ l.params[i].how = "baked" => l.asPassed[i] = MergeAnnotations(Unbaked(o.params[i]))
DynamicParam(l, i) ==
  /\ IsAnnotation(l.params[i]) /\ FixedFits(l.params[i])
  /\ l.params[i].kind = "dynamic" /\ l.params[i].how = "public" /\ l.params[i].types = {}

(* The plan lists the kernel's parameters, then the dynamic options.       *)
LEMMA PlannedParams ==
  ASSUME NEW o, IsOption(o), NEW l \in BuildPlan(o)
  PROVE  /\ \E n : Tuple(l.params, n)
         /\ \A i \in DOMAIN l.params : KernelParam(o, l, i) \/ DynamicParam(l, i)
<1>1. PICK m \in Annotated(o) : \E ps \in BoundAll(o, m) : PlanAllows(o) /\ l = Plan(o, ps)
  BY PlanIs
<1>2. PICK ps \in BoundAll(o, m) : PlanAllows(o) /\ l = Plan(o, ps)
  BY <1>1
<1> DEFINE n == Len(o.params)
           dynamic == DynamicParams(o, ps)
<1>3. n \in Nat /\ DOMAIN o.params = 1 .. n
  BY DEF IsOption
<1>4. m = [i \in 1 .. n |-> m[i]] /\ \A i \in 1 .. n : m[i] \in Annotate(o, i)
  BY <1>3, AnnotatedIs
<1>5. DOMAIN m = 1 .. n
  BY <1>4
<1>6. ps = [i \in 1 .. n |-> ps[i]] /\ (\A i \in 1 .. n : ps[i] \in BindOne(o, m[i])) /\ BindNamesFit(o, m)
  BY <1>5, BoundAllIs
<1>7. PICK k : /\ Tuple(dynamic, k)
               /\ \A j \in 1 .. k : LET q == dynamic[j] IN
                    IsAnnotation(q) /\ FixedFits(q) /\ q.kind = "dynamic" /\ q.how = "public" /\ q.types = {}
  BY DynamicParamsAre
<1>8. Tuple(ps, n)
  BY <1>3, <1>6 DEF Tuple
<1> HIDE DEF n, dynamic
<1>9. l.params = ps \o dynamic
      /\ l.asPassed = [i \in DOMAIN o.params |->
                         IF ps[i].how = "baked" THEN MergeAnnotations(Unbaked(o.params[i])) ELSE {}]
  BY <1>2 DEF Plan, dynamic
<1>10. /\ Tuple(l.params, n + k)
       /\ \A i \in 1 .. n : l.params[i] = ps[i]
       /\ \A j \in 1 .. k : l.params[n + j] = dynamic[j]
  <2>1. Tuple(dynamic, k)
    BY <1>7
  <2>2. Follow(ps \o dynamic, ps, n, dynamic, k)
    BY <1>8, <2>1, Joined
  <2> QED BY <1>9, <2>2, Zenon DEF Follow
<1>11. ASSUME NEW i \in 1 .. n PROVE KernelParam(o, l, i)
  <2>1. m[i] \in Annotate(o, i) /\ l.params[i] \in BindOne(o, m[i]) /\ l.params[i] = ps[i]
    BY <1>4, <1>6, <1>10
  <2>2. Named(m[i]) => IsValue(o.bindValues[m[i].name])
    <3>1. Named(m[i]) => m[i].name \in DOMAIN o.bindValues
      BY <1>5, <1>6 DEF BindNamesFit
    <3> QED BY <3>1 DEF IsOption
  <2>3. l.params[i].how = "baked" => l.asPassed[i] = MergeAnnotations(Unbaked(o.params[i]))
    BY <1>3, <1>9, <2>1
  <2> QED BY <1>3, <2>1, <2>2, <2>3 DEF KernelParam
<1>12. ASSUME NEW i \in 1 .. n + k, i \notin 1 .. n PROVE DynamicParam(l, i)
  <2>1. k \in Nat
    BY <1>7 DEF Tuple
  <2>2. i - n \in 1 .. k /\ n + (i - n) = i
    BY <1>3, <1>12, <2>1
  <2>3. l.params[i] = dynamic[i - n]
    BY <1>10, <2>2
  <2> QED BY <1>7, <2>2, <2>3 DEF DynamicParam
<1>13. DOMAIN l.params = 1 .. n + k
  BY <1>10, TupleLen
<1> QED BY <1>10, <1>11, <1>12, <1>13

-----------------------------------------------------------------------------
(* A plan that C and the compile are written for.                          *)
PlanIsTyped(l) ==
  /\ l.params \in Seq({l.params[i] : i \in DOMAIN l.params})
  /\ {l.fixedDevice, l.keysRange} \subseteq BOOLEAN
  /\ l.grid.mode \in {"object", "dims", "cpp", "py"} /\ l.grid.n \in Nat
  /\ \A i \in DOMAIN l.params :
       /\ IsAnnotation(l.params[i]) /\ FixedFits(l.params[i])
       /\ l.params[i].how \in {"public", "baked", "tensor", "pointer"}
       /\ IsDynamic(l, i) => l.params[i].how = "public"
       /\ \A t \in l.params[i].types : t.bits \in {0, 1, 8, 16, 32, 64}

(* What is assumed of launchers is what the merge of the annotations, the  *)
(* bind and the plan see to: whatever the options are, a plan's parameters *)
(* have annotations of the kinds that C and the compile are written for, a *)
(* baked value is of its type and a bound one has a pointer's, or None's.  *)
THEOREM PlansAreTyped ==
  \A o : IsOption(o) => \A l \in BuildPlan(o) : PlanIsTyped(l)
<1> SUFFICES ASSUME NEW o, IsOption(o), NEW l \in BuildPlan(o)
             PROVE  PlanIsTyped(l)
  OBVIOUS
<1>1. /\ l.params \in Seq({l.params[i] : i \in DOMAIN l.params})
  <2>1. PICK n : Tuple(l.params, n)
    BY PlannedParams
  <2>2. DOMAIN l.params = 1 .. n
    BY <2>1, TupleLen
  <2>3. \A i \in 1 .. n : l.params[i] \in {l.params[j] : j \in DOMAIN l.params}
    BY <2>2
  <2> QED BY <2>1, <2>3, TupleIsSeq
<1>2. /\ {l.fixedDevice, l.keysRange} \subseteq BOOLEAN
      /\ l.grid.mode \in {"object", "dims", "cpp", "py"} /\ l.grid.n \in Nat
  <2>1. PICK m \in Annotated(o) : \E ps \in BoundAll(o, m) : PlanAllows(o) /\ l = Plan(o, ps)
    BY PlanIs
  <2>2. PICK ps \in BoundAll(o, m) : PlanAllows(o) /\ l = Plan(o, ps)
    BY <2>1
  <2>3. l.fixedDevice = (o.bindDevice # <<>>) /\ l.keysRange = o.keysRange /\ l.grid = GridOf(o)
    BY <2>2 DEF Plan
  <2>4. o.gridCpp # <<>> => o.gridCpp[1] \in Nat
    BY DEF IsOption
  <2>5. o.gridArg # <<>> => o.gridArg[1] \in Nat
    <3>1. \A n \in Range(o.gridArg) : n \in 1 .. 3
      BY <2>2 DEF PlanAllows, CheckValues
    <3>2. o.gridArg # <<>> => o.gridArg[1] \in Range(o.gridArg)
      BY DEF IsOption, Range
    <3> QED BY <3>1, <3>2
  <2>6. GridOf(o).mode \in {"object", "dims", "cpp", "py"} /\ GridOf(o).n \in Nat
    BY <2>4, <2>5 DEF GridOf
  <2> QED BY <2>3, <2>6 DEF IsOption
<1>3. ASSUME NEW i \in DOMAIN l.params
      PROVE  /\ IsAnnotation(l.params[i]) /\ FixedFits(l.params[i])
             /\ l.params[i].how \in {"public", "baked", "tensor", "pointer"}
             /\ IsDynamic(l, i) => l.params[i].how = "public"
  <2>1. CASE KernelParam(o, l, i)
    <3>1. i \in DOMAIN o.params /\ IsParameter(o.params[i])
      BY <2>1 DEF KernelParam, IsOption
    <3>2. PICK a \in Annotate(o, i) :
            (Named(a) => IsValue(o.bindValues[a.name])) /\ l.params[i] \in BindOne(o, a)
      BY <2>1 DEF KernelParam
    <3>3. IsMerged(a) /\ BoundMerged(a)
      BY <3>1, AnnotateIs
    <3> QED BY <3>2, <3>3, BoundTyped DEF IsDynamic
  <2>2. CASE DynamicParam(l, i)
    BY <2>2 DEF DynamicParam
  <2> QED BY <2>1, <2>2, PlannedParams
<1>4. ASSUME NEW i \in DOMAIN l.params, NEW t \in l.params[i].types
      PROVE  t.bits \in {0, 1, 8, 16, 32, 64}
  <2>1. t \in ArgumentTypes
    BY <1>3 DEF IsAnnotation, ArgumentTypes
  <2> QED BY <2>1 DEF ArgumentTypes, ConstexprTypes, NoneType, BoolType, Float, Signed, Unsigned, Pointer, Type
<1> QED BY <1>1, <1>2, <1>3, <1>4 DEF PlanIsTyped

(* A baked argument of a plan was merged with its value. *)
LEMMA BakedWas ==
  ASSUME NEW o, NEW i \in DOMAIN o.params, IsParameter(o.params[i]), NEW a \in Annotate(o, i),
         a.how = "baked", a.kind = "argument"
  PROVE  \E d, t : BakedFrom(o.params[i], d, t, a)
<1> DEFINE p == o.params[i]
           exact == p.name \in o.exactKeys
<1>1. PICK b \in MergeAnnotations(p) : a = [b EXCEPT !.exactKey = exact]
  BY DEF Annotate
<1>2. PICK d \in Drafts(p) : \E types \in EffectiveTypes(d) : Allowed(p, d, types) /\ b = Merged(p, d, types)
  BY MergedIs
<1>3. PICK types \in EffectiveTypes(d) : Allowed(p, d, types) /\ b = Merged(p, d, types)
  BY <1>2
<1> HIDE DEF p, exact
<1>4. /\ b.kind = d.kind /\ b.types = types
      /\ b.modes = (IF d.kind = "argument" /\ IsBaked(d)
                      THEN BakedModes(d, CHOOSE t \in types : TRUE) ELSE d.modes)
      /\ b.tensorOnly = (TensorKinds(p) # {})
      /\ b.how = (IF IsBaked(d) THEN "baked" ELSE IF IsBound(d) THEN d.bind[1] ELSE "public")
      /\ b.value = (IF IsBaked(d) THEN BakedValue(d) ELSE None)
  BY <1>3 DEF Merged
<1>5. IsMerged(b)
  BY <1>3, MergedTyped DEF p
<1>6. /\ a.kind = b.kind /\ a.types = b.types /\ a.modes = b.modes /\ a.tensorOnly = b.tensorOnly
      /\ a.how = b.how /\ a.value = b.value
  BY <1>1, <1>5 DEF IsMerged
<1>7. d.kind = "argument" /\ IsBaked(d)
  <2>1. d.bind \in {<<>>, <<"tensor">>, <<"pointer">>}
    BY DraftTyped DEF DraftIsTyped, p
  <2>2. ~IsBaked(d) => b.how # "baked"
    BY <1>4, <2>1 DEF IsBound
  <2> QED BY <1>4, <1>6, <2>2
<1>8. PICK t : types = {t} /\ BakedTypeIs(d, t)
  BY <1>7, BakedArgumentIs
<1>9. TensorKinds(p) = {}
  BY <1>3, <1>7 DEF Allowed, TensorAllows
<1>10. a.types = {t} /\ a.modes = BakedModes(d, t) /\ a.value = BakedValue(d) /\ a.tensorOnly = FALSE
  <2>1. (CHOOSE u \in types : TRUE) = t
    BY <1>8
  <2> QED BY <1>4, <1>6, <1>7, <1>8, <1>9, <2>1
<1> QED BY <1>3, <1>7, <1>8, <1>10 DEF BakedFrom, p

(* What a launch finds was compiled of a baked argument as of one that is  *)
(* passed.                                                                 *)
LEMMA FoundAsPassed == HitInv => BakedAsPassed
<1> SUFFICES ASSUME HitInv, call.pc = "launch",
                    NEW i \in DOMAIN launcher.params, Param(i).how = "baked", Param(i).kind = "argument",
                    NEW a \in launcher.asPassed[i]
             PROVE  ParamInput(a, Param(i).value, TRUE) = cache[call.key].input[i]
  BY DEF BakedAsPassed
<1> DEFINE b == Param(i)
           v == Param(i).value
           w == call.within[i]
<1>1. call # Idle
  BY DEF Idle
<1>2. /\ CallTyped(call) /\ CallKeyed(call) /\ launcher \in Launchers
      /\ Len(call.within) = Len(launcher.params)
  BY <1>1 DEF HitInv, CallInv, CallRight, LayoutInv, LayoutTypes, CallKeyed
<1>3. cache[call.key].input = Wanted.input
  BY FoundIsRight DEF HitIsRight
<1>4. cache[call.key].input[i] = ParamInput(b, v, w)
  <2>1. Passed(call, i) = v
    BY DEF Passed
  <2>2. RangeShown(call, i, call.within) = w
    BY DEF RangeShown
  <2>3. Wanted.input[i] = ParamInput(b, Passed(call, i), RangeShown(call, i, call.within))
    BY DEF Wanted, Compiled
  <2> QED BY <1>3, <2>1, <2>2, <2>3
<1>5. IsAnnotation(b) /\ launcher.keysRange \in BOOLEAN
  BY <1>2, AnnotationsTyped DEF Param
<1>6. w = TRUE
  <2>1. i \in 1 .. Len(call.within)
    BY <1>2, FieldsOf
  <2>2. ParamPacked(call, i)
    BY <1>2, <2>1 DEF CallKeyed
  <2>3. v.kind # "tensor"
    BY <1>5 DEF IsAnnotation
  <2>4. Passed(call, i) = v
    BY DEF Passed
  <2> QED BY <2>2, <2>3, <2>4 DEF ParamPacked, WasPacked
<1>7. PICK o \in Options : launcher \in BuildPlan(o)
  BY <1>2, LaunchersPlanned
<1>8. IsOption(o)
  BY OptionsTyped
<1>9. KernelParam(o, launcher, i)
  BY <1>7, <1>8, PlannedParams DEF DynamicParam, Param
<1>10. /\ i \in DOMAIN o.params /\ IsParameter(o.params[i])
       /\ a \in MergeAnnotations(Unbaked(o.params[i]))
  BY <1>8, <1>9 DEF KernelParam, IsOption, Param
<1>11. PICK c \in Annotate(o, i) : (Named(c) => IsValue(o.bindValues[c.name])) /\ b \in BindOne(o, c)
  BY <1>9 DEF KernelParam, Param
<1>12. b \in Annotate(o, i)
  <2>1. IsMerged(c) /\ BoundMerged(c)
    BY <1>10, AnnotateIs
  <2>2. b.how = c.how /\ (~Named(c) => b = c)
    BY <1>11, <2>1, BoundTyped
  <2> QED BY <2>2 DEF Named
<1>13. PICK d, t : BakedFrom(o.params[i], d, t, b)
  BY <1>10, <1>12, BakedWas
<1> HIDE DEF w
<1>14. ArgumentInput(a, b.value, TRUE) = ArgumentInput(b, b.value, TRUE)
  BY <1>5, <1>10, <1>13, BakedCompiles
<1>15. a.kind = "argument" /\ a.how = "public"
  BY <1>10, <1>13, PassedIs
<1>16. ParamInput(a, v, TRUE) = ArgumentInput(a, v, TRUE) /\ ParamInput(b, v, TRUE) = ArgumentInput(b, v, TRUE)
  BY <1>15 DEF ParamInput
<1> QED BY <1>4, <1>6, <1>14, <1>16

-----------------------------------------------------------------------------
(* That a value is baked changes nothing of what is compiled: what the     *)
(* merge of its annotations decides is what C and Triton would specialize. *)
THEOREM BakedIsAsPassed == Spec => []BakedAsPassed
<1>1. Init => HitInv
  BY HitInitInv
<1>2. HitInv /\ [Next]_vars => HitInv'
  BY HitNextInv
<1>3. HitInv => BakedAsPassed
  BY FoundAsPassed
<1> QED BY <1>1, <1>2, <1>3, PTL DEF Spec
=============================================================================
