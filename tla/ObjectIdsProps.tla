--------------------------- MODULE ObjectIdsProps ---------------------------
(***************************************************************************)
(* What makes the object ids correct (see ObjectIds).                      *)
(***************************************************************************)
EXTENDS ObjectIds

Ids == Nat \union {NoId}
Pcs == {"idle", "memo", "same", "content", "intern", "lock", "take", "remember", "done"}

(* Types; the object a call works on is alive while it does. *)
TypeOK ==
  /\ heap \in [Addrs -> Values \union {NoValue}]
  /\ memo \in [Slots -> [obj : Addrs \union {NoAddr}, id : Nat]]
  /\ same \in [Addrs -> Ids]
  /\ content \in [ContentKeys -> [ref : Addrs \union {NoAddr}, id : Ids]]
  /\ ids \in [Values -> Ids] /\ taking \in Threads \union {NoThread}
  /\ call \in [Threads -> [pc : Pcs, slot : Slots \union {NoAddr},
                           obj : Addrs \union {NoAddr}, id : Ids, new : BOOLEAN]]
  /\ \A t \in Threads : ~At(t, "idle") =>
       Obj(t) \in Addrs /\ Value(t) # NoValue /\ call[t].slot \in Slots

(* Two values never share an id, though threads intern them concurrently:  *)
(* the spec keys that differ in them stay different.                       *)
IdsDistinct == \A v, w \in Values : ids[v] # NoId /\ ids[v] = ids[w] => v = w

(* What a slot's memo remembers of an address is true of the object that   *)
(* is there now, however many objects lived and died there before.         *)
MemoTrue ==
  \A s \in Slots : memo[s].obj # NoAddr =>
    /\ heap[memo[s].obj] # NoValue
    /\ ids[heap[memo[s].obj]] = memo[s].id

(* What the object table knows of an address, of a str and of a dtype's    *)
(* name is what the interner says of the object there, of that str and of  *)
(* that dtype; a str it compares with is alive.                            *)
TableTrue ==
  /\ \A a \in Addrs : same[a] # NoId => heap[a] # NoValue /\ ids[heap[a]] = same[a]
  /\ \A v \in Values : HasContent(v) /\ content[ContentKey(v)].id # NoId =>
       ids[v] = content[ContentKey(v)].id
  /\ \A k \in ContentKeys : content[k].ref # NoAddr => heap[content[k].ref] # NoValue

(* A call gets the id that the interner has for its object's value, from   *)
(* whichever tier: equal values key alike, different ones never do.        *)
AnswerTrue == \A t \in Threads : At(t, "done") => call[t].id = ids[Value(t)]

(* An id, once given, stays: keys built from it earlier still mean it. *)
IdsStay == [][\A v \in Values : ids[v] # NoId => ids'[v] = ids[v]]_ids
=============================================================================
