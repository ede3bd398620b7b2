--------------------------- MODULE KernelMapProps ---------------------------
(***************************************************************************)
(* What makes the kernel cache correct (see KernelMap).                    *)
(***************************************************************************)
EXTENDS KernelMap

Pointers == [array : Nat, at : 0 .. mask] \union {NoSlot}
Pcs      == {"idle", "memo", "find", "launch", "compile", "write"}

(* Types of the map's and the callers' state; `mask` is what indexes the   *)
(* array that m->slots points to.                                          *)
TypeOK ==
  /\ hash \in [Keys -> HashValues]
  /\ array \in Nat /\ mask \in Nat /\ used \in Nat
  /\ Alive => slots \in [0 .. mask -> [key : Keys, val : Kernels \union {NoKernel}]]
  /\ last \in Pointers
  /\ pc \in [Threads -> Pcs]
  /\ want \in [Threads -> Keys]
  /\ at \in [Threads -> Pointers]
  /\ dying \subseteq 0 .. mask

(* P##_put keeps the map at most half full, counting what it holds: the    *)
(* probe loops of P##_find and P##_put end at an empty slot only if there  *)
(* is one.                                                                 *)
HalfFull == Alive => /\ used = Cardinality(Each)
                     /\ 2 * used <= mask + 1

(* No growth and no order of puts leaves a hole in a probe chain: a key    *)
(* whose record is in the map is found from its hash, and is there once.   *)
ProbeChains ==
  Alive => \A i \in Each : Found(slots[i].key) = {i}

(* The memo that readers share is NULL or a live slot of the array the map *)
(* has now: never of one that a growth has freed, never an empty slot,     *)
(* which would match a call whose key is all zero.                         *)
MemoGood == last # NoSlot => last.array = array /\ last.at \in Each

(* A reader that launches reads a record of its own key, where it found    *)
(* it: a put neither moves it nor frees its array under the reader.        *)
ReadersPinned ==
  \A t \in Threads :
    pc[t] = "launch" => /\ at[t].array = array /\ at[t].at \in Each
                        /\ slots[at[t].at].key = want[t]

(* The write lock of intj_fill excludes readers and other writers, which   *)
(* the two properties above rest on.                                       *)
WriterAlone ==
  \A t, u \in Threads : Writing(t) /\ t # u => ~Reading(u) /\ ~Writing(u)

(* A garbage collection that a finalizer triggers while the map is freed   *)
(* is shown no record that P##_free has released.                          *)
FreedUnseen == dying # {} => Each = {}

-----------------------------------------------------------------------------
(* The dictionary the map stands for. *)
Dict  == [k \in Keys |->
            IF \E i \in Each : slots[i].key = k
              THEN slots[CHOOSE i \in Each : slots[i].key = k].val
              ELSE NoKernel]
Holds == [t \in Threads |-> IF pc[t] = "launch" THEN slots[at[t].at].val ELSE NoKernel]

Abstract == INSTANCE KernelDict WITH dict <- Dict, holds <- Holds

(* The map implements the dictionary: a hit, by memo or by probe, returns  *)
(* what was put for that key; the first put of a key wins and stays, and   *)
(* growing changes nothing.                                                *)
IsDictionary == Abstract!Spec
=============================================================================
