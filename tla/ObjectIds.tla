------------------------------ MODULE ObjectIds ------------------------------
(***************************************************************************)
(* The ids of object-valued arguments: intj_object_id and the object table *)
(* of src/intj/runtime/intj_runtime.h over the launcher's _Interner        *)
(* (src/intj/launcher.py).                                                 *)
(*                                                                         *)
(* A str, a tl.dtype or a JIT function enters a spec key as a small id.    *)
(* Three tiers know it: the slot's memo (the last object, by address), the *)
(* launcher's object table (by address, a str and a dtype by content too), *)
(* and the Python interner.  Each tier is read under its own lock and      *)
(* between two of them other threads run; objects die, and their addresses *)
(* come back as other objects.                                             *)
(*                                                                         *)
(* An object is its address; heap says what value is there.  Values that   *)
(* the interner's _canonical_value tells apart are different; two objects  *)
(* may have the same.  The table's open addressing is KernelMap's, so here *)
(* it is the function it stands for.  Values are immutable: a JIT          *)
(* function's cache_key is read when its object is first seen.             *)
(***************************************************************************)
EXTENDS Integers, FiniteSets

CONSTANTS
  Threads,   (* the threads that launch                                    *)
  Slots,     (* object-valued parameters, each with its memo               *)
  Addrs,     (* addresses objects may have                                 *)
  Values,    (* values of objects: [kind, name]                            *)
  NoAddr,    (* the NULL object of a fresh memo                            *)
  NoValue,   (* an address with no object                                  *)
  NoThread   (* the interner's lock is free                                *)

NoId == -1

ASSUME ValuesHaveKinds ==
  Values \subseteq [kind : {"str", "dtype", "jit", "other"}, name : STRING]
ASSUME NoAddrNew   == NoAddr \notin Addrs
ASSUME NoValueNew  == NoValue \notin Values
ASSUME NoThreadNew == NoThread \notin Threads
ASSUME ValuesFinite == IsFiniteSet(Values)

VARIABLES
  heap,      (* a -> the value of the object there, or NoValue             *)
  memo,      (* s -> the slot's intj_memo                                  *)
  same,      (* a -> its id in the object table by identity, or NoId       *)
  content,   (* content key -> [ref, id] in the object table               *)
  ids,       (* value -> its id in _Interner._ids, or NoId                 *)
  taking,    (* the thread that holds _Interner._lock                      *)
  call       (* t -> where the thread's intj_object_id is                  *)

objtab == <<same, content>>
intern == <<ids, taking>>
vars   == <<heap, memo, objtab, intern, call>>

ContentTag(v) == v.kind
ContentKey(v) == [tag |-> ContentTag(v), name |-> v.name]
ContentKeys   == [tag : {"str", "dtype"}, name : {v.name : v \in Values}]
HasContent(v) == v.kind \in {"str", "dtype"}
NoEntry       == [ref |-> NoAddr, id |-> NoId]

Idle == [pc |-> "idle", slot |-> NoAddr, obj |-> NoAddr, id |-> NoId, new |-> FALSE]

At(t, pc)   == call[t].pc = pc
Obj(t)      == call[t].obj
Value(t)    == heap[Obj(t)]
Goto(t, pc) == call' = [call EXCEPT ![t].pc = pc]
Found(t, id, new) == call' = [call EXCEPT ![t].pc = "remember", ![t].id = id, ![t].new = new]

-----------------------------------------------------------------------------
(* The user's objects *)

New(a, v) ==
  /\ heap[a] = NoValue
  /\ heap' = [heap EXCEPT ![a] = v]
  /\ UNCHANGED <<memo, objtab, intern, call>>

(* Mutant of Referenced: the memo's reference is a borrowed one. *)
ReferencedNotByMemo(a) ==
  \/ \E t \in Threads : Obj(t) = a
  \/ same[a] # NoId
  \/ \E k \in ContentKeys : content[k].ref = a

(* What keeps an object alive but the user: a call it is an argument of,   *)
(* and the references of the memos and the table.                          *)
Referenced(a) ==
  \/ \E t \in Threads : Obj(t) = a
  \/ \E s \in Slots : memo[s].obj = a
  \/ same[a] # NoId
  \/ \E k \in ContentKeys : content[k].ref = a

Dies(a) ==
  /\ heap[a] # NoValue /\ ~Referenced(a)
  /\ heap' = [heap EXCEPT ![a] = NoValue]
  /\ UNCHANGED <<memo, objtab, intern, call>>

-----------------------------------------------------------------------------
(* intj_object_id: the memo, object and id read together *)

Ask(t, s, a) ==
  /\ At(t, "idle") /\ heap[a] # NoValue
  /\ call' = [call EXCEPT ![t] = [Idle EXCEPT !.pc = "memo", !.slot = s, !.obj = a]]
  /\ UNCHANGED <<heap, memo, objtab, intern>>

MemoHit(t) ==
  /\ At(t, "memo") /\ memo[call[t].slot].obj = Obj(t)
  /\ call' = [call EXCEPT ![t].pc = "done", ![t].id = memo[call[t].slot].id]
  /\ UNCHANGED <<heap, memo, objtab, intern>>

MemoMiss(t) ==
  /\ At(t, "memo") /\ memo[call[t].slot].obj # Obj(t)
  /\ Goto(t, IF Value(t).kind = "str" THEN "content" ELSE "same")
  /\ UNCHANGED <<heap, memo, objtab, intern>>

-----------------------------------------------------------------------------
(* intj_object_id_slow *)

SameHit(t) ==
  /\ At(t, "same") /\ same[Obj(t)] # NoId
  /\ Found(t, same[Obj(t)], FALSE)
  /\ UNCHANGED <<heap, memo, objtab, intern>>

SameMiss(t) ==
  /\ At(t, "same") /\ same[Obj(t)] = NoId
  /\ Goto(t, IF HasContent(Value(t)) THEN "content" ELSE "intern")
  /\ UNCHANGED <<heap, memo, objtab, intern>>

ContentHit(t) ==
  /\ At(t, "content") /\ content[ContentKey(Value(t))].id # NoId
  /\ Found(t, content[ContentKey(Value(t))].id, FALSE)
  /\ UNCHANGED <<heap, memo, objtab, intern>>

ContentMiss(t) ==
  /\ At(t, "content") /\ content[ContentKey(Value(t))].id = NoId
  /\ Goto(t, "intern")
  /\ UNCHANGED <<heap, memo, objtab, intern>>

(* _Interner.__call__: known, unsupported (None, a TypeError), or new. *)
InternKnows(t) ==
  /\ At(t, "intern") /\ Value(t).kind # "other" /\ ids[Value(t)] # NoId
  /\ Found(t, ids[Value(t)], TRUE)
  /\ UNCHANGED <<heap, memo, objtab, intern>>

InternRefuses(t) ==
  /\ At(t, "intern") /\ Value(t).kind = "other"
  /\ call' = [call EXCEPT ![t] = Idle]
  /\ UNCHANGED <<heap, memo, objtab, intern>>

InternMisses(t) ==
  /\ At(t, "intern") /\ Value(t).kind # "other" /\ ids[Value(t)] = NoId
  /\ Goto(t, "lock")
  /\ UNCHANGED <<heap, memo, objtab, intern>>

(* Mutant of InternLocks: the interner has no lock. *)
InternLocksNot(t) ==
  /\ At(t, "lock")
  /\ call' = [call EXCEPT ![t].pc = "take",
                          ![t].id = Cardinality({v \in Values : ids[v] # NoId})]
  /\ UNCHANGED <<heap, memo, objtab, intern>>

(* Under the lock, len(_ids) ... *)
InternLocks(t) ==
  /\ At(t, "lock") /\ taking = NoThread
  /\ taking' = t
  /\ call' = [call EXCEPT ![t].pc = "take",
                          ![t].id = Cardinality({v \in Values : ids[v] # NoId})]
  /\ UNCHANGED <<heap, memo, objtab, ids>>

(* Mutant of InternTakes: an assignment, not setdefault. *)
InternAssigns(t) ==
  /\ At(t, "take")
  /\ ids' = [ids EXCEPT ![Value(t)] = call[t].id]
  /\ taking' = NoThread
  /\ Found(t, call[t].id, TRUE)
  /\ UNCHANGED <<heap, memo, objtab>>

(* ... and setdefault: another thread may have taken an id for the same    *)
(* value before this one got the lock.                                     *)
InternTakes(t) ==
  LET id == IF ids[Value(t)] = NoId THEN call[t].id ELSE ids[Value(t)] IN
  /\ At(t, "take")
  /\ ids' = [ids EXCEPT ![Value(t)] = id]
  /\ taking' = NoThread
  /\ Found(t, id, TRUE)
  /\ UNCHANGED <<heap, memo, objtab>>

(* An attribute, a hash, an allocation or the interner fails. *)
Fails(t) ==
  /\ At(t, "content") \/ At(t, "intern")
  /\ call' = [call EXCEPT ![t] = Idle]
  /\ UNCHANGED <<heap, memo, objtab, intern>>

-----------------------------------------------------------------------------
(* intj_object_remember, under the write lock.  What a hit found is only   *)
(* memoized; a new answer goes into the table too, unless its key is there *)
(* already or the table cannot grow (tabled, named).                       *)

(* Mutant of Remember: only the memo's object is replaced. *)
RememberTorn(t, tabled, named) ==
  /\ At(t, "remember")
  /\ memo' = [memo EXCEPT ![call[t].slot].obj = Obj(t)]
  /\ Goto(t, "done")
  /\ UNCHANGED <<heap, objtab, intern>>

Remember(t, tabled, named) ==
  LET v   == Value(t)
      key == ContentKey(v)
      ref == IF v.kind = "str" THEN Obj(t) ELSE NoAddr  \* else the name's str
  IN
  /\ At(t, "remember")
  /\ memo' = [memo EXCEPT ![call[t].slot] = [obj |-> Obj(t), id |-> call[t].id]]
  /\ same' = IF tabled /\ call[t].new /\ v.kind # "str" /\ same[Obj(t)] = NoId
               THEN [same EXCEPT ![Obj(t)] = call[t].id] ELSE same
  /\ content' = IF named /\ call[t].new /\ HasContent(v) /\ content[key].id = NoId
                  THEN [content EXCEPT ![key] = [ref |-> ref, id |-> call[t].id]]
                  ELSE content
  /\ Goto(t, "done")
  /\ UNCHANGED <<heap, intern>>

Done(t) ==
  /\ At(t, "done")
  /\ call' = [call EXCEPT ![t] = Idle]
  /\ UNCHANGED <<heap, memo, objtab, intern>>

-----------------------------------------------------------------------------
Init ==
  /\ heap = [a \in Addrs |-> NoValue]
  /\ memo = [s \in Slots |-> [obj |-> NoAddr, id |-> 0]]
  /\ same = [a \in Addrs |-> NoId]
  /\ content = [k \in ContentKeys |-> NoEntry]
  /\ ids = [v \in Values |-> NoId] /\ taking = NoThread
  /\ call = [t \in Threads |-> Idle]

Step(t) ==
  \/ MemoHit(t) \/ MemoMiss(t) \/ SameHit(t) \/ SameMiss(t)
  \/ ContentHit(t) \/ ContentMiss(t) \/ InternKnows(t) \/ InternRefuses(t)
  \/ InternMisses(t) \/ InternLocks(t) \/ InternTakes(t) \/ Fails(t) \/ Done(t)

Next ==
  \/ \E a \in Addrs, v \in Values : New(a, v)
  \/ \E a \in Addrs : Dies(a)
  \/ \E t \in Threads, s \in Slots, a \in Addrs : Ask(t, s, a)
  \/ \E t \in Threads : Step(t)
  \/ \E t \in Threads, tabled, named \in BOOLEAN : Remember(t, tabled, named)

Spec == Init /\ [][Next]_vars
=============================================================================
