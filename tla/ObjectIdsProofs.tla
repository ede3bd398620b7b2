--------------------------- MODULE ObjectIdsProofs ---------------------------
(***************************************************************************)
(* The object ids are right for any number of threads, slots, addresses    *)
(* and values (see ObjectIds and ObjectIdsProps).                          *)
(*                                                                         *)
(* Everything rests on two facts.  An address somebody refers to keeps its *)
(* object, so what was true of the object stays true of the address; and   *)
(* only the holder of the interner's lock gives ids, the next one being    *)
(* the number of ids given, so that a given id is below that number.       *)
(***************************************************************************)
EXTENDS ObjectIdsProps, TLAPS, FiniteSetTheorems

Known == {v \in Values : ids[v] # NoId}

(* The holder of the interner's lock is about to give the next id. *)
TakerHolds ==
  \A t \in Threads :
    /\ At(t, "take") => taking = t /\ call[t].id = Cardinality(Known)
    /\ taking = t => At(t, "take")

(* Given ids are below the number of ids given. *)
IdsDense == \A v \in Values : ids[v] # NoId => ids[v] < Cardinality(Known)

(* A call about to remember, or done, has the interner's id. *)
AnswersTrue ==
  \A t \in Threads : At(t, "remember") \/ At(t, "done") =>
    call[t].id \in Nat /\ call[t].id = ids[Value(t)]

(* A call that asks for content has an object with content. *)
ContentAsked == \A t \in Threads : At(t, "content") => HasContent(Value(t))

(* Between two calls a thread refers to nothing. *)
IdleIsIdle == \A t \in Threads : At(t, "idle") => Obj(t) = NoAddr

CallsRight == TakerHolds /\ AnswersTrue /\ ContentAsked /\ IdleIsIdle

IInv ==
  /\ TypeOK /\ CallsRight /\ IdsDense
  /\ IdsDistinct /\ MemoTrue /\ TableTrue

-----------------------------------------------------------------------------
(* A value is its kind and its name. *)
LEMMA ValueIsKindName ==
  ASSUME NEW v \in Values, NEW w \in Values, v.kind = w.kind, v.name = w.name
  PROVE  v = w
  BY ValuesHaveKinds

(* A value with content has a key, and no other value has it. *)
LEMMA ContentKeyNames ==
  ASSUME NEW v \in Values, HasContent(v)
  PROVE  /\ ContentKey(v) \in ContentKeys
         /\ \A w \in Values : ContentKey(w) = ContentKey(v) => w = v
<1>1. ContentKey(v) \in ContentKeys
  BY ValuesHaveKinds DEF HasContent, ContentKey, ContentKeys, ContentTag
<1>2. ASSUME NEW w \in Values, ContentKey(w) = ContentKey(v) PROVE w = v
  <2>1. w.kind = v.kind /\ w.name = v.name
    BY <1>2 DEF ContentKey, ContentTag
  <2>2. QED BY <2>1, ValueIsKindName
<1>3. QED BY <1>1, <1>2

(* The number of ids given is a natural number. *)
LEMMA KnownFinite == IsFiniteSet(Known) /\ Cardinality(Known) \in Nat
<1>1. Known \subseteq Values BY DEF Known
<1>2. IsFiniteSet(Known) BY <1>1, ValuesFinite, FS_Subset
<1>3. QED BY <1>2, FS_CardinalityType

LEMMA InitIInv == Init => IInv
<1> SUFFICES ASSUME Init PROVE IInv OBVIOUS
<1>1. TypeOK
  BY DEF Init, TypeOK, Idle, NoEntry, NoId, Ids, Pcs, At, Obj, Value
<1>2. CallsRight
  BY NoThreadNew 
  DEF Init, CallsRight, TakerHolds, AnswersTrue, ContentAsked, IdleIsIdle, Idle, At, Obj
<1>3. IdsDense /\ IdsDistinct BY DEF Init, IdsDense, IdsDistinct, NoId
<1>4. MemoTrue BY DEF Init, MemoTrue
<1>5. TableTrue BY ContentKeyNames DEF Init, TableTrue, NoEntry, NoId
<1>6. QED BY <1>1, <1>2, <1>3, <1>4, <1>5 DEF IInv

-----------------------------------------------------------------------------
Calls == [pc : Pcs, slot : Slots \union {NoAddr},
          obj : Addrs \union {NoAddr}, id : Ids, new : BOOLEAN]

(* A call record the invariant allows a thread to have, outside the lock. *)
Allowed(c) ==
  /\ c \in Calls /\ c.pc # "take"
  /\ c.pc # "idle" => c.obj \in Addrs /\ heap[c.obj] # NoValue /\ c.slot \in Slots
  /\ c.pc \in {"remember", "done"} => c.id \in Nat /\ c.id = ids[heap[c.obj]]
  /\ c.pc = "content" => HasContent(heap[c.obj])
  /\ c.pc = "idle" => c.obj = NoAddr

(* A step of a call outside the interner's lock that changes nothing else. *)
LEMMA CallStep ==
  ASSUME IInv, NEW t \in Threads, NEW c, Allowed(c), ~At(t, "take"),
         call' = [call EXCEPT ![t] = c],
         UNCHANGED <<heap, memo, same, content, ids, taking>>
  PROVE  IInv'
<1>0. TypeOK /\ CallsRight BY DEF IInv
<1>1. call \in [Threads -> Calls] BY <1>0 DEF TypeOK, Calls
<1>2. call' \in [Threads -> Calls] /\ call'[t] = c
  BY <1>1 DEF Allowed
<1>3. \A u \in Threads \ {t} : call'[u] = call[u] BY <1>1
<1>4. TypeOK'
  BY <1>0, <1>2, <1>3 DEF TypeOK, Calls, Allowed, At, Obj, Value
<1>5. Known' = Known BY DEF Known
<1>6. TakerHolds'
  <2>1. TakerHolds BY <1>0 DEF CallsRight
  <2>2. QED BY <1>2, <1>3, <1>5, <2>1 DEF TakerHolds, At, Allowed
<1>7. AnswersTrue'
  <2>1. AnswersTrue BY <1>0 DEF CallsRight
  <2>2. QED BY <1>2, <1>3, <2>1 DEF AnswersTrue, At, Allowed, Obj, Value
<1>8. ContentAsked'
  <2>1. ContentAsked BY <1>0 DEF CallsRight
  <2>2. QED BY <1>2, <1>3, <2>1 DEF ContentAsked, At, Allowed, Obj, Value
<1>a. IdleIsIdle'
  BY <1>0, <1>2, <1>3 DEF CallsRight, IdleIsIdle, At, Allowed, Obj
<1>9. IdsDense' /\ IdsDistinct' BY <1>5 DEF IInv, IdsDense, IdsDistinct
<1>10. MemoTrue' /\ TableTrue' BY DEF IInv, MemoTrue, TableTrue
<1>11. QED BY <1>4, <1>6, <1>7, <1>8, <1>a, <1>9, <1>10 DEF IInv, CallsRight

(* Every step of a call but those under a lock. *)
CallMoves(t) ==
  \/ \E s \in Slots, a \in Addrs : Ask(t, s, a)
  \/ MemoHit(t) \/ MemoMiss(t) \/ SameHit(t) \/ SameMiss(t)
  \/ ContentHit(t) \/ ContentMiss(t) \/ InternKnows(t) \/ InternRefuses(t)
  \/ InternMisses(t) \/ Fails(t) \/ Done(t)

(* A miss: on to the next tier with the same object. *)
LEMMA GotoIInv ==
  ASSUME IInv, NEW t \in Threads, ~At(t, "take"), ~At(t, "idle"),
         NEW p \in {"same", "content", "intern", "lock"}, Goto(t, p),
         p = "content" => HasContent(Value(t)),
         UNCHANGED <<heap, memo, same, content, ids, taking>>
  PROVE  IInv'
<1> DEFINE c == [call[t] EXCEPT !.pc = p]
<1>1. call[t] \in Calls BY DEF IInv, TypeOK, Calls
<1>2. call[t].obj \in Addrs /\ call[t].slot \in Slots /\ heap[call[t].obj] # NoValue
  BY DEF IInv, TypeOK, Obj, Value
<1>3. Allowed(c) BY <1>1, <1>2 DEF Allowed, Calls, Pcs, Obj, Value
<1>4. call' = [call EXCEPT ![t] = c] BY DEF Goto
<1>5. QED BY <1>3, <1>4, CallStep

(* An answer: the id that the interner has for the object's value. *)
LEMMA FoundIInv ==
  ASSUME IInv, NEW t \in Threads, ~At(t, "take"), ~At(t, "idle"),
         NEW id, NEW new \in BOOLEAN, Found(t, id, new),
         id \in Nat, id = ids[Value(t)],
         UNCHANGED <<heap, memo, same, content, ids, taking>>
  PROVE  IInv'
<1> DEFINE c == [call[t] EXCEPT !.pc = "remember", !.id = id, !.new = new]
<1>1. call[t] \in Calls BY DEF IInv, TypeOK, Calls
<1>2. call[t].obj \in Addrs /\ call[t].slot \in Slots /\ heap[call[t].obj] # NoValue
  BY DEF IInv, TypeOK, Obj, Value
<1>3. Allowed(c) BY <1>1, <1>2 DEF Allowed, Calls, Pcs, Ids, Obj, Value
<1>4. call' = [call EXCEPT ![t] = c]
  BY <1>1 DEF Found, IInv, TypeOK
<1>5. QED BY <1>3, <1>4, CallStep

LEMMA CallMovesIInv ==
  ASSUME IInv, NEW t \in Threads, CallMoves(t)
  PROVE  IInv'
<1>0. TypeOK /\ CallsRight /\ MemoTrue /\ TableTrue BY DEF IInv
<1>1. call \in [Threads -> Calls] /\ call[t] \in Calls BY <1>0 DEF TypeOK, Calls
<1>2. Allowed(Idle) BY DEF Allowed, Idle, Calls, Pcs, Ids, NoId
<1>3. ~At(t, "idle") =>
        Obj(t) \in Addrs /\ Value(t) # NoValue /\ call[t].slot \in Slots
      /\ Value(t) \in Values
  BY <1>0 DEF TypeOK, Obj, Value
<1>a. CASE \E s \in Slots, a \in Addrs : Ask(t, s, a)
  <2>1. PICK s \in Slots, a \in Addrs : Ask(t, s, a) BY <1>a
  <2> DEFINE c == [Idle EXCEPT !.pc = "memo", !.slot = s, !.obj = a]
  <2>2. Allowed(c) BY <2>1 DEF Allowed, Idle, Calls, Pcs, Ids, NoId, Ask
  <2>3. call' = [call EXCEPT ![t] = c] /\ ~At(t, "take")
        /\ UNCHANGED <<heap, memo, same, content, ids, taking>>
    BY <2>1 DEF Ask, At, objtab, intern
  <2>4. QED BY <2>2, <2>3, CallStep
<1>b. CASE MemoHit(t)
  <2> DEFINE c == [call[t] EXCEPT !.pc = "done", !.id = memo[call[t].slot].id]
  <2>0. call[t].pc = "memo" /\ memo[call[t].slot].obj = call[t].obj
    BY <1>b DEF MemoHit, At, Obj
  <2>1. /\ call[t].obj \in Addrs /\ call[t].slot \in Slots
        /\ heap[call[t].obj] # NoValue
    BY <2>0, <1>3 DEF At, Obj, Value
  <2>2. memo[call[t].slot].id \in Nat
    BY <2>1, <1>0 DEF TypeOK
  <2>3. ids[heap[call[t].obj]] = memo[call[t].slot].id
    BY <2>0, <2>1, <1>0, NoAddrNew DEF MemoTrue
  <2>4. Allowed(c)
    BY <2>1, <2>2, <2>3, <1>1 DEF Allowed, Calls, Pcs, Ids
  <2>5. call' = [call EXCEPT ![t] = c] /\ ~At(t, "take")
        /\ UNCHANGED <<heap, memo, same, content, ids, taking>>
    BY <1>b, <1>1 DEF MemoHit, At, objtab, intern
  <2>6. QED BY <2>4, <2>5, CallStep
<1>c. CASE MemoMiss(t)
  <2>1. CASE Value(t).kind = "str"
    BY <1>c, <2>1, GotoIInv DEF MemoMiss, At, HasContent, objtab, intern
  <2>2. CASE Value(t).kind # "str"
    BY <1>c, <2>2, GotoIInv DEF MemoMiss, At, objtab, intern
  <2>3. QED BY <2>1, <2>2
<1>d. CASE SameHit(t)
  <2>1. same[Obj(t)] \in Nat
    BY <1>d, <1>0, <1>3 DEF SameHit, At, TypeOK, Ids
  <2>2. same[Obj(t)] = ids[Value(t)]
    BY <1>d, <1>0, <1>3 DEF SameHit, At, TableTrue, Value
  <2>3. QED BY <1>d, <2>1, <2>2, FoundIInv DEF SameHit, At, objtab, intern
<1>e. CASE SameMiss(t)
  <2>1. CASE HasContent(Value(t))
    BY <1>e, <2>1, GotoIInv DEF SameMiss, At, objtab, intern
  <2>2. CASE ~HasContent(Value(t))
    BY <1>e, <2>2, GotoIInv DEF SameMiss, At, objtab, intern
  <2>3. QED BY <2>1, <2>2
<1>f. CASE ContentHit(t)
  <2> DEFINE k == ContentKey(Value(t))
  <2>1. HasContent(Value(t)) BY <1>f, <1>0 DEF ContentHit, CallsRight, ContentAsked
  <2>2. Value(t) \in Values BY <1>f, <1>3 DEF ContentHit, At
  <2>3. k \in ContentKeys BY <2>1, <2>2, ContentKeyNames
  <2>4. content[k].id \in Nat
    BY <1>f, <2>3, <1>0 DEF ContentHit, TypeOK, Ids
  <2>5. content[k].id = ids[Value(t)]
    BY <1>f, <2>1, <2>2, <1>0 DEF ContentHit, TableTrue
  <2>6. QED BY <1>f, <2>4, <2>5, FoundIInv DEF ContentHit, At, objtab, intern
<1>g. CASE ContentMiss(t)
  BY <1>g, GotoIInv DEF ContentMiss, At, objtab, intern
<1>h. CASE InternKnows(t)
  <2>1. ids[Value(t)] \in Nat
    BY <1>h, <1>3, <1>0 DEF InternKnows, At, TypeOK, Ids
  <2>2. QED BY <1>h, <2>1, FoundIInv DEF InternKnows, At, objtab, intern
<1>i. CASE InternMisses(t)
  BY <1>i, GotoIInv DEF InternMisses, At, objtab, intern
<1>j. CASE InternRefuses(t) \/ Fails(t) \/ Done(t)
  <2>1. call' = [call EXCEPT ![t] = Idle] /\ ~At(t, "take")
        /\ UNCHANGED <<heap, memo, same, content, ids, taking>>
    BY <1>j DEF InternRefuses, Fails, Done, At, objtab, intern
  <2>2. QED BY <2>1, <1>2, CallStep
<1>k. QED
  BY <1>a, <1>b, <1>c, <1>d, <1>e, <1>f, <1>g, <1>h, <1>i, <1>j DEF CallMoves

-----------------------------------------------------------------------------
(* An object's birth or death at an address nobody refers to. *)
LEMMA HeapStep ==
  ASSUME IInv, NEW a \in Addrs, ~Referenced(a), NEW x \in Values \union {NoValue},
         heap' = [heap EXCEPT ![a] = x],
         UNCHANGED <<memo, same, content, ids, taking, call>>
  PROVE  IInv'
<1>0. TypeOK /\ CallsRight /\ MemoTrue /\ TableTrue BY DEF IInv
<1>1. heap' \in [Addrs -> Values \union {NoValue}]
      /\ \A b \in Addrs \ {a} : heap'[b] = heap[b]
  BY <1>0 DEF TypeOK
<1>2. \A t \in Threads : ~At(t, "idle") => Obj(t) \in Addrs \ {a}
  BY <1>0 DEF TypeOK, Referenced
<1>3. TypeOK' BY <1>0, <1>1, <1>2 DEF TypeOK, At, Obj, Value
<1>4. Known' = Known BY DEF Known
<1>5. TakerHolds' BY <1>0, <1>4 DEF CallsRight, TakerHolds, At
<1>6. AnswersTrue'
  BY <1>0, <1>1, <1>2 DEF CallsRight, AnswersTrue, At, Obj, Value
<1>7. ContentAsked'
  BY <1>0, <1>1, <1>2 DEF CallsRight, ContentAsked, At, Obj, Value
<1>a. IdleIsIdle' BY <1>0 DEF CallsRight, IdleIsIdle, At, Obj
<1>8. IdsDense' /\ IdsDistinct' BY <1>4 DEF IInv, IdsDense, IdsDistinct
<1>9. MemoTrue'
  <2>1. \A s \in Slots : memo[s].obj # NoAddr => memo[s].obj \in Addrs \ {a}
    BY <1>0 DEF TypeOK, Referenced
  <2>2. QED BY <1>0, <1>1, <2>1 DEF MemoTrue
<1>10. TableTrue'
  <2>1. \A b \in Addrs : same[b] # NoId => b # a BY DEF Referenced
  <2>2. \A k \in ContentKeys : content[k].ref # NoAddr => content[k].ref \in Addrs \ {a}
    BY <1>0 DEF TypeOK, Referenced
  <2>3. QED BY <1>0, <1>1, <2>1, <2>2 DEF TableTrue
<1>11. QED BY <1>3, <1>5, <1>6, <1>7, <1>a, <1>8, <1>9, <1>10 DEF IInv, CallsRight

LEMMA NewIInv ==
  ASSUME IInv, NEW a \in Addrs, NEW v \in Values, New(a, v)
  PROVE  IInv'
<1>0. TypeOK /\ MemoTrue /\ TableTrue BY DEF IInv
<1>1. ~Referenced(a)
  <2>0. heap[a] = NoValue BY DEF New
  <2>1. ~\E t \in Threads : Obj(t) = a
    <3>1. SUFFICES ASSUME NEW t \in Threads, Obj(t) = a PROVE FALSE OBVIOUS
    <3>2. At(t, "idle") BY <1>0, <2>0, <3>1 DEF TypeOK, Value
    <3>3. Obj(t) = NoAddr BY <3>2 DEF IInv, CallsRight, IdleIsIdle
    <3>4. QED BY <3>1, <3>3, NoAddrNew
  <2>2. ~\E s \in Slots : memo[s].obj = a
    BY <1>0, <2>0, NoAddrNew DEF MemoTrue
  <2>3. same[a] = NoId BY <1>0, <2>0 DEF TableTrue
  <2>4. ~\E k \in ContentKeys : content[k].ref = a
    BY <1>0, <2>0, NoAddrNew DEF TableTrue
  <2>5. QED BY <2>1, <2>2, <2>3, <2>4 DEF Referenced
<1>2. QED BY <1>1, HeapStep DEF New, objtab, intern

LEMMA DiesIInv ==
  ASSUME IInv, NEW a \in Addrs, Dies(a)
  PROVE  IInv'
BY HeapStep DEF Dies, objtab, intern

LEMMA InternLocksIInv ==
  ASSUME IInv, NEW t \in Threads, InternLocks(t)
  PROVE  IInv'
<1>0. TypeOK /\ CallsRight BY DEF IInv
<1> DEFINE c == [call[t] EXCEPT !.pc = "take", !.id = Cardinality(Known)]
<1>1. call' = [call EXCEPT ![t] = c] /\ taking = NoThread /\ taking' = t
      /\ call[t].pc = "lock" /\ UNCHANGED <<heap, memo, same, content, ids>>
  BY DEF InternLocks, Known, At, objtab
<1>2. call \in [Threads -> Calls] BY <1>0 DEF TypeOK, Calls
<1>3. c \in Calls /\ c.pc = "take" /\ c.obj = call[t].obj /\ c.slot = call[t].slot
      /\ c.id = Cardinality(Known)
  BY <1>2, KnownFinite DEF Calls, Pcs, Ids
<1>4. call' \in [Threads -> Calls] /\ call'[t] = c
      /\ \A u \in Threads \ {t} : call'[u] = call[u]
  BY <1>1, <1>2, <1>3
<1>5. TypeOK'
  BY <1>0, <1>1, <1>3, <1>4 DEF TypeOK, Calls, At, Obj, Value
<1>6. Known' = Known BY <1>1 DEF Known
<1>7. TakerHolds'
  <2>1. TakerHolds BY <1>0 DEF CallsRight
  <2>2. \A u \in Threads : ~At(u, "take") BY <1>1, <2>1, NoThreadNew DEF TakerHolds
  <2>3. QED BY <1>1, <1>3, <1>4, <1>6, <2>2 DEF TakerHolds, At
<1>8. AnswersTrue' /\ ContentAsked' /\ IdleIsIdle'
  BY <1>0, <1>1, <1>3, <1>4
  DEF CallsRight, AnswersTrue, ContentAsked, IdleIsIdle, At, Obj, Value
<1>9. IdsDense' /\ IdsDistinct' BY <1>1, <1>6 DEF IInv, IdsDense, IdsDistinct
<1>10. MemoTrue' /\ TableTrue' BY <1>1 DEF IInv, MemoTrue, TableTrue
<1>11. QED BY <1>5, <1>7, <1>8, <1>9, <1>10 DEF IInv, CallsRight

LEMMA InternTakesIInv ==
  ASSUME IInv, NEW t \in Threads, InternTakes(t)
  PROVE  IInv'
<1>0. TypeOK /\ CallsRight /\ IdsDense /\ IdsDistinct /\ MemoTrue /\ TableTrue
  BY DEF IInv
<1>1. /\ call[t].pc = "take" /\ taking' = NoThread /\ taking = t
      /\ call[t].id = Cardinality(Known)
      /\ UNCHANGED <<heap, memo, same, content>>
  BY <1>0 DEF InternTakes, At, CallsRight, TakerHolds, objtab
<1> DEFINE v  == Value(t)
           id == IF ids[v] = NoId THEN Cardinality(Known) ELSE ids[v]
           c  == [call[t] EXCEPT !.pc = "remember", !.id = id, !.new = TRUE]
<1>2. call \in [Threads -> Calls] BY <1>0 DEF TypeOK, Calls
<1>3. v \in Values /\ heap[call[t].obj] = v /\ call[t].obj \in Addrs
  BY <1>0, <1>1 DEF TypeOK, At, Obj, Value
<1>4. id \in Nat BY <1>0, <1>3, KnownFinite DEF TypeOK, Ids
<1>5. ids' = [ids EXCEPT ![v] = id] /\ call' = [call EXCEPT ![t] = c]
  BY <1>1, <1>2 DEF InternTakes, Found
<1>6. c \in Calls /\ c.pc = "remember" /\ c.obj = call[t].obj /\ c.slot = call[t].slot
      /\ c.id = id
  BY <1>2, <1>4 DEF Calls, Pcs, Ids
<1>7. call' \in [Threads -> Calls] /\ call'[t] = c
      /\ \A u \in Threads \ {t} : call'[u] = call[u]
  BY <1>2, <1>5, <1>6
<1>8. /\ ids' \in [Values -> Ids] /\ ids'[v] = id
      /\ \A w \in Values : ids[w] # NoId => ids'[w] = ids[w]
      /\ \A w \in Values \ {v} : ids'[w] = ids[w]
  BY <1>0, <1>3, <1>4, <1>5 DEF TypeOK, Ids
<1>a. (ids[v] = NoId => id = Cardinality(Known)) /\ (ids[v] # NoId => id = ids[v])
  OBVIOUS
<1> HIDE DEF c, id, v
<1>9. TypeOK'
  BY <1>0, <1>1, <1>6, <1>7, <1>8 DEF TypeOK, Calls, At, Obj, Value
<1>10. TakerHolds'
  BY <1>0, <1>1, <1>6, <1>7, NoThreadNew DEF CallsRight, TakerHolds, At
<1>11. AnswersTrue'
  <2>1. \A u \in Threads : call[u].id \in Nat => call[u].id # NoId BY DEF NoId
  <2>2. \A u \in Threads : ~At(u, "idle") => Value(u) \in Values
    BY <1>0 DEF TypeOK, Obj, Value
  <2>3. QED
    BY <1>0, <1>1, <1>3, <1>4, <1>6, <1>7, <1>8, <2>1, <2>2
    DEF CallsRight, AnswersTrue, At, Obj, Value
<1>12. ContentAsked' /\ IdleIsIdle'
  BY <1>0, <1>1, <1>6, <1>7 DEF CallsRight, ContentAsked, IdleIsIdle, At, Obj, Value
<1>13. IdsDense' /\ IdsDistinct'
  <2>1. CASE ids[v] # NoId
    <3>1. ids' = ids BY <2>1, <1>0, <1>5, <1>a DEF TypeOK
    <3>2. Known' = Known BY <3>1 DEF Known
    <3>3. QED BY <3>1, <3>2, <1>0 DEF IdsDense, IdsDistinct
  <2>2. CASE ids[v] = NoId
    <3>1. Known' = Known \union {v}
      <4>1. id # NoId BY <1>4 DEF NoId
      <4>2. \A w \in Values : ids'[w] # NoId <=> (ids[w] # NoId \/ w = v)
        BY <4>1, <1>8
      <4>3. QED BY <4>2, <1>3 DEF Known
    <3>2. v \notin Known BY <2>2 DEF Known
    <3>3. Cardinality(Known') = Cardinality(Known) + 1
      BY <3>1, <3>2, KnownFinite, FS_AddElement
    <3>4. id = Cardinality(Known) BY <2>2, <1>a
    <3>5. \A w \in Values : ids[w] # NoId => ids[w] \in 0 .. Cardinality(Known) - 1
      BY <1>0, KnownFinite DEF TypeOK, Ids, IdsDense
    <3>6. IdsDense'
      <4>1. SUFFICES ASSUME NEW w \in Values, ids'[w] # NoId
                     PROVE  ids'[w] < Cardinality(Known)'
        BY DEF IdsDense
      <4>2. CASE w = v BY <4>2, <1>8, <3>3, <3>4, KnownFinite
      <4>3. CASE w # v
        <5>1. ids'[w] = ids[w] BY <4>3, <1>8
        <5>2. QED BY <5>1, <4>1, <3>3, <3>5, KnownFinite
      <4>4. QED BY <4>2, <4>3
    <3>7. IdsDistinct'
      <4>1. SUFFICES ASSUME NEW x \in Values, NEW y \in Values, x # y,
                            ids'[x] # NoId, ids'[x] = ids'[y]
                     PROVE  FALSE
        BY DEF IdsDistinct
      <4>2. CASE x # v /\ y # v BY <4>1, <4>2, <1>0, <1>8 DEF IdsDistinct
      <4>3. CASE x = v \/ y = v BY <4>1, <4>3, <1>8, <3>4, <3>5, KnownFinite
      <4>4. QED BY <4>2, <4>3
    <3>8. QED BY <3>6, <3>7
  <2>3. QED BY <2>1, <2>2
<1>14. MemoTrue'
  <2>1. \A s \in Slots : memo[s].id # NoId BY <1>0 DEF TypeOK, NoId
  <2>2. \A s \in Slots : memo[s].obj # NoAddr => heap[memo[s].obj] \in Values
    BY <1>0 DEF TypeOK, MemoTrue
  <2>3. QED BY <1>0, <1>1, <1>8, <2>1, <2>2 DEF MemoTrue
<1>15. TableTrue'
  <2>1. \A a \in Addrs : same[a] # NoId => heap[a] \in Values
    BY <1>0 DEF TypeOK, TableTrue
  <2>2. QED BY <1>0, <1>1, <1>8, <2>1 DEF TableTrue
<1>16. QED
  BY <1>9, <1>10, <1>11, <1>12, <1>13, <1>14, <1>15 DEF IInv, CallsRight

LEMMA RememberIInv ==
  ASSUME IInv, NEW t \in Threads, NEW tabled \in BOOLEAN, NEW named \in BOOLEAN,
         Remember(t, tabled, named)
  PROVE  IInv'
<1>0. TypeOK /\ CallsRight /\ MemoTrue /\ TableTrue BY DEF IInv
<1> DEFINE v   == Value(t)
           id  == call[t].id
           s0  == call[t].slot
           key == ContentKey(v)
           ref == IF v.kind = "str" THEN Obj(t) ELSE NoAddr
           c   == [call[t] EXCEPT !.pc = "done"]
<1>1. /\ call[t].pc = "remember" /\ UNCHANGED <<heap, ids, taking>>
      /\ memo' = [memo EXCEPT ![s0] = [obj |-> Obj(t), id |-> id]]
      /\ call' = [call EXCEPT ![t] = c]
  BY DEF Remember, At, Goto, intern
<1>2. call \in [Threads -> Calls] BY <1>0 DEF TypeOK, Calls
<1>3. Obj(t) \in Addrs /\ v # NoValue /\ s0 \in Slots /\ v \in Values
      /\ heap[Obj(t)] = v
  BY <1>0, <1>1 DEF TypeOK, At, Obj, Value
<1>4. id \in Nat /\ id = ids[v]
  BY <1>0, <1>1 DEF CallsRight, AnswersTrue, At
<1>5. c \in Calls /\ c.pc = "done" /\ c.obj = call[t].obj /\ c.slot = s0 /\ c.id = id
  BY <1>2 DEF Calls, Pcs
<1>6. call' \in [Threads -> Calls] /\ call'[t] = c
      /\ \A u \in Threads \ {t} : call'[u] = call[u]
  BY <1>1, <1>2, <1>5
<1>7. memo' \in [Slots -> [obj : Addrs \union {NoAddr}, id : Nat]]
      /\ memo'[s0] = [obj |-> Obj(t), id |-> id]
      /\ \A s \in Slots \ {s0} : memo'[s] = memo[s]
  BY <1>0, <1>1, <1>3, <1>4 DEF TypeOK
<1>8. /\ same' \in [Addrs -> Ids]
      /\ \A a \in Addrs : same'[a] = same[a] \/ (a = Obj(t) /\ same'[a] = id)
  BY <1>0, <1>3, <1>4 DEF Remember, TypeOK, Ids
<1>9. /\ content' \in [ContentKeys -> [ref : Addrs \union {NoAddr}, id : Ids]]
      /\ \A k \in ContentKeys :
           \/ content'[k] = content[k]
           \/ /\ k = key /\ HasContent(v)
              /\ content'[k].id = id /\ content'[k].ref \in {Obj(t), NoAddr}
  <2>1. CASE content' = content BY <2>1, <1>0 DEF TypeOK
  <2>2. CASE /\ HasContent(v)
             /\ content' = [content EXCEPT ![key] = [ref |-> ref, id |-> id]]
    <3>1. key \in ContentKeys BY <2>2, <1>3, ContentKeyNames
    <3>2. ref \in {Obj(t), NoAddr} OBVIOUS
    <3>3. [ref |-> ref, id |-> id] \in [ref : Addrs \union {NoAddr}, id : Ids]
      BY <3>2, <1>3, <1>4 DEF Ids
    <3>4. QED BY <2>2, <3>1, <3>2, <3>3, <1>0 DEF TypeOK
  <2>3. QED BY <2>1, <2>2 DEF Remember
<1>10. TypeOK'
  BY <1>0, <1>1, <1>5, <1>6, <1>7, <1>8, <1>9 DEF TypeOK, Calls, At, Obj, Value
<1>11. Known' = Known BY <1>1 DEF Known
<1>12. CallsRight'
  BY <1>0, <1>1, <1>4, <1>5, <1>6, <1>11
  DEF CallsRight, TakerHolds, AnswersTrue, ContentAsked, IdleIsIdle, At, Obj, Value
<1>13. IdsDense' /\ IdsDistinct' BY <1>1, <1>11 DEF IInv, IdsDense, IdsDistinct
<1>14. MemoTrue' BY <1>0, <1>1, <1>3, <1>4, <1>7 DEF MemoTrue
<1>15. TableTrue'
  <2>1. \A a \in Addrs : same'[a] # NoId => heap[a] # NoValue /\ ids[heap[a]] = same'[a]
    BY <1>0, <1>3, <1>4, <1>8 DEF TableTrue
  <2>2. ASSUME NEW w \in Values, HasContent(w), content'[ContentKey(w)].id # NoId
        PROVE  ids[w] = content'[ContentKey(w)].id
    <3>1. ContentKey(w) \in ContentKeys BY <2>2, ContentKeyNames
    <3>2. CASE content'[ContentKey(w)] = content[ContentKey(w)]
      BY <2>2, <3>2, <1>0 DEF TableTrue
    <3>3. CASE /\ ContentKey(w) = key /\ HasContent(v) /\ content'[ContentKey(w)].id = id
      <4>1. w = v BY <3>3, <1>3, ContentKeyNames
      <4>2. QED BY <4>1, <3>3, <1>4
    <3>4. QED BY <3>1, <3>2, <3>3, <1>9
  <2>3. \A k \in ContentKeys : content'[k].ref # NoAddr => heap[content'[k].ref] # NoValue
    BY <1>0, <1>3, <1>9 DEF TableTrue
  <2>4. QED BY <1>1, <2>1, <2>2, <2>3 DEF TableTrue
<1>16. QED
  BY <1>10, <1>12, <1>13, <1>14, <1>15 DEF IInv

-----------------------------------------------------------------------------
LEMMA NextIInv == IInv /\ [Next]_vars => IInv'
<1> SUFFICES ASSUME IInv, [Next]_vars PROVE IInv' OBVIOUS
<1>1. CASE UNCHANGED vars
  BY <1>1 DEF vars, objtab, intern, IInv, TypeOK, CallsRight, TakerHolds,
     AnswersTrue, ContentAsked, IdleIsIdle, IdsDense, IdsDistinct, MemoTrue, TableTrue,
     Known, At, Obj, Value
<1>2. CASE \E a \in Addrs, v \in Values : New(a, v) BY <1>2, NewIInv
<1>3. CASE \E a \in Addrs : Dies(a) BY <1>3, DiesIInv
<1>4. CASE \E t \in Threads, s \in Slots, a \in Addrs : Ask(t, s, a)
  BY <1>4, CallMovesIInv DEF CallMoves
<1>5. CASE \E t \in Threads : Step(t)
  BY <1>5, CallMovesIInv, InternLocksIInv, InternTakesIInv DEF Step, CallMoves
<1>6. CASE \E t \in Threads, tabled, named \in BOOLEAN : Remember(t, tabled, named)
  BY <1>6, RememberIInv
<1>7. QED BY <1>1, <1>2, <1>3, <1>4, <1>5, <1>6 DEF Next

(* The inductive invariant of the object ids. *)
THEOREM IdsInvariance == Spec => []IInv
BY InitIInv, NextIInv, PTL DEF Spec

(* The types, and that an object a call works on is alive. *)
THEOREM IdsTyped == Spec => []TypeOK
<1>1. IInv => TypeOK BY DEF IInv
<1>2. QED BY <1>1, IdsInvariance, PTL

(* Two values never share an id, so two spec keys that differ in one of    *)
(* them never meet in the kernel cache.                                    *)
THEOREM DistinctValuesDistinctIds == Spec => []IdsDistinct
<1>1. IInv => IdsDistinct BY DEF IInv
<1>2. QED BY <1>1, IdsInvariance, PTL

(* No memo and no table entry outlives the object it speaks of: what they  *)
(* say of an address holds of the object that is there.                    *)
THEOREM RememberedIsTrue == Spec => [](MemoTrue /\ TableTrue)
<1>1. IInv => MemoTrue /\ TableTrue BY DEF IInv
<1>2. QED BY <1>1, IdsInvariance, PTL

(* A call's id is the interner's id of its object's value, whichever tier  *)
(* answered and whatever other threads did meanwhile.                      *)
THEOREM AnswersAreTrue == Spec => []AnswerTrue
<1>1. IInv => AnswerTrue BY DEF IInv, CallsRight, AnswersTrue, AnswerTrue
<1>2. QED BY <1>1, IdsInvariance, PTL

(* An id once given is never given away. *)
THEOREM IdsNeverChange == Spec => IdsStay
<1>1. ASSUME IInv, [Next]_vars, NEW v \in Values, ids[v] # NoId
      PROVE  ids'[v] = ids[v]
  <2>1. CASE ids' = ids BY <2>1
  <2>2. CASE \E t \in Threads : InternTakes(t)
    BY <1>1, <2>2 DEF InternTakes, IInv, TypeOK
  <2>3. QED
    BY <1>1, <2>1, <2>2 DEF Next, Step, vars, intern, New, Dies, Ask, MemoHit,
       MemoMiss, SameHit, SameMiss, ContentHit, ContentMiss, InternKnows,
       InternRefuses, InternMisses, InternLocks, Fails, Done, Remember
<1>2. IInv /\ [Next]_vars => [\A v \in Values : ids[v] # NoId => ids'[v] = ids[v]]_ids
  BY <1>1
<1>3. QED BY <1>2, IdsInvariance, PTL DEF Spec, IdsStay
=============================================================================
