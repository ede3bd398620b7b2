----------------------------- MODULE KernelMap -----------------------------
(***************************************************************************)
(* The kernel cache, INTJ_DEFINE_MAP of src/intj/runtime/intj_map.h: open  *)
(* addressing with linear probing, at most half full, and a one-entry memo *)
(* of the last hit that readers share; as src/intj/render/entry.c.jinja    *)
(* uses it in a free-threaded build, under the launcher's read-write lock: *)
(* intj_walk and intj_call read and launch under the read lock, intj_fill  *)
(* looks again and puts under the write lock.                              *)
(*                                                                         *)
(* A slot pointer is the array it points into and an index, so that a      *)
(* pointer into an array that a put has freed can be told from a good one. *)
(***************************************************************************)
EXTENDS Integers, SequencesExt

CONSTANTS
  Threads,    (* the threads that call the launcher                        *)
  Keys,       (* spec keys, the all-zero one among them                    *)
  ZeroKey,    (* the key an empty slot shows                               *)
  Kernels,    (* the records that misses return                            *)
  NoKernel,   (* a value that is not live: the all-zero record             *)
  HashValues, (* the hashes that keys may have                             *)
  Cap,        (* CAP: the slots of a fresh map                             *)
  NoSlot      (* the NULL slot pointer                                     *)

ASSUME ZeroKeyIsKey   == ZeroKey \in Keys
ASSUME NoKernelNew    == NoKernel \notin Kernels
ASSUME HashesNat      == HashValues \subseteq Nat
ASSUME CapPowerOfTwo  == Cap \in {2, 4, 8, 16}

VARIABLES
  hash,   (* key -> intj_hash_n of it; never changes                       *)
  array,  (* which allocation m->slots is, counting from 1; 0: NULL           *)
  slots,  (* index -> slot, of that allocation                            *)
  mask,   (* m->mask                                                       *)
  used,   (* m->used                                                       *)
  last,   (* m->last: the memo                                             *)
  pc,     (* t -> where thread t is in its call                            *)
  want,   (* t -> the key it calls with                                    *)
  at,     (* t -> the slot pointer it launches from                        *)
  dying   (* the slots P##_free has detached and not released yet          *)

map    == <<array, slots, mask, used, last>>
caller == <<pc, want, at>>
vars   == <<hash, map, caller, dying>>

Live(slot) == slot.val # NoKernel
EmptySlot  == [key |-> ZeroKey, val |-> NoKernel]
Fresh(cap) == [i \in 0 .. cap - 1 |-> EmptySlot]
Alive      == array # 0
Pointer(i) == [array |-> array, at |-> i]

-----------------------------------------------------------------------------
(* Probing *)

(* The slots a probe for hash h visits, in order: the n-th of them.        *)
Probe(h, n, cap) == (h + n) % cap

(* P##_find: the slots with k that a probe meets before an empty slot. *)
Found(k) ==
  {i \in 0 .. mask : /\ slots[i].key = k
                     /\ \E n \in 0 .. mask :
                          /\ Probe(hash[k], n, mask + 1) = i
                          /\ \A m \in 0 .. n : Live(slots[Probe(hash[k], m, mask + 1)])}

(* The end of P##_put: into the first empty slot of the key's probe. *)
Store(s, cap, slot) ==
  LET to(n) == Probe(hash[slot.key], n, cap)
      n == CHOOSE n \in 0 .. cap - 1 :
             ~Live(s[to(n)]) /\ \A m \in 0 .. n - 1 : Live(s[to(m)])
  IN [s EXCEPT ![to(n)] = slot]

(* Mutant of Rehashed: each slot keeps its index in the grown array. *)
CopiedInPlace(s, cap) ==
  [i \in 0 .. cap - 1 |-> IF i \in DOMAIN s THEN s[i] ELSE EmptySlot]

(* The grown array: every live slot of s stored again, in slot order. *)
Rehashed(s, cap) ==
  LET grown[i \in 0 .. mask + 1] ==
        IF i = 0 THEN Fresh(cap)
        ELSE IF Live(s[i - 1]) THEN Store(grown[i - 1], cap, s[i - 1])
        ELSE grown[i - 1]
  IN  grown[mask + 1]

(* Mutant of MustGrow: the entry that is about to be added is not counted. *)
MustGrowLate == used * 2 > mask + 1

MustGrow == (used + 1) * 2 > mask + 1

-----------------------------------------------------------------------------
(* The launcher's read-write lock *)
Reading(t) == pc[t] \in {"memo", "find", "launch"}
Writing(t) == pc[t] = "write"
CanRead    == \A u \in Threads : ~Writing(u)

(* Mutant of CanWrite: the write lock does not wait for readers. *)
CanWriteBesideReaders == \A u \in Threads : ~Writing(u)

CanWrite   == \A u \in Threads : ~Writing(u) /\ ~Reading(u)

(* Thread t calls the launcher with k, and takes the read lock. *)
Call(t, k) ==
  /\ pc[t] = "idle" /\ Alive /\ CanRead
  /\ pc' = [pc EXCEPT ![t] = "memo"]
  /\ want' = [want EXCEPT ![t] = k]
  /\ UNCHANGED <<hash, map, at, dying>>

(* P##_lookup, first part: the memo, if it is for this key. *)
MemoHit(t) ==
  /\ pc[t] = "memo"
  /\ last # NoSlot /\ slots[last.at].key = want[t]
  /\ at' = [at EXCEPT ![t] = last]
  /\ pc' = [pc EXCEPT ![t] = "launch"]
  /\ UNCHANGED <<hash, map, want, dying>>

MemoMiss(t) ==
  /\ pc[t] = "memo"
  /\ last # NoSlot => slots[last.at].key # want[t]
  /\ pc' = [pc EXCEPT ![t] = "find"]
  /\ UNCHANGED <<hash, map, want, at, dying>>

(* P##_lookup, second part: the probe; a hit becomes the memo, whatever    *)
(* another reader made it meanwhile.                                       *)
Hit(t) ==
  /\ pc[t] = "find"
  /\ \E i \in Found(want[t]) : /\ last' = Pointer(i)
                               /\ at' = [at EXCEPT ![t] = Pointer(i)]
  /\ pc' = [pc EXCEPT ![t] = "launch"]
  /\ UNCHANGED <<hash, array, slots, mask, used, want, dying>>

(* A miss gives the read lock back; the compile runs under no lock. *)
Miss(t) ==
  /\ pc[t] = "find" /\ Found(want[t]) = {}
  /\ pc' = [pc EXCEPT ![t] = "compile"]
  /\ UNCHANGED <<hash, map, want, at, dying>>

(* The launch reads the record where it lies, then gives the lock back. *)
Launched(t) ==
  /\ pc[t] = "launch"
  /\ pc' = [pc EXCEPT ![t] = "idle"]
  /\ at' = [at EXCEPT ![t] = NoSlot]
  /\ UNCHANGED <<hash, map, want, dying>>

CompileFails(t) ==
  /\ pc[t] = "compile"
  /\ pc' = [pc EXCEPT ![t] = "idle"]
  /\ UNCHANGED <<hash, map, want, at, dying>>

WriteLock(t) ==
  /\ pc[t] = "compile" /\ CanWrite
  /\ pc' = [pc EXCEPT ![t] = "write"]
  /\ UNCHANGED <<hash, map, want, at, dying>>

(* Under the write lock intj_fill looks the key up again, memo and all; a  *)
(* record another thread put meanwhile stays.  The call then walks again.  *)
PutNotNeeded(t) ==
  /\ pc[t] = "write"
  /\ \E i \in Found(want[t]) : last' = Pointer(i)
  /\ pc' = [pc EXCEPT ![t] = "idle"]
  /\ UNCHANGED <<hash, array, slots, mask, used, want, at, dying>>

(* P##_put; growing allocates, and leaves the map alone when that fails.   *)
PutFails(t) ==
  /\ pc[t] = "write" /\ Found(want[t]) = {} /\ MustGrow
  /\ pc' = [pc EXCEPT ![t] = "idle"]
  /\ UNCHANGED <<hash, map, want, at, dying>>

NewCap == IF MustGrow THEN (mask + 1) * 2 ELSE mask + 1
Grown  == IF MustGrow THEN Rehashed(slots, NewCap) ELSE slots

(* Mutant of Put: the memo is kept. *)
PutKeepsMemo(t, v) ==
  /\ pc[t] = "write" /\ Found(want[t]) = {}
  /\ array' = IF MustGrow THEN array + 1 ELSE array
  /\ slots' = Store(Grown, NewCap, [key |-> want[t], val |-> v])
  /\ used' = used + 1
  /\ mask' = NewCap - 1
  /\ pc' = [pc EXCEPT ![t] = "idle"]
  /\ UNCHANGED <<hash, last, want, at, dying>>

(* Mutant of Put: it does not look whether the key came meanwhile. *)
PutBlindly(t, v) ==
  /\ pc[t] = "write"
  /\ array' = IF MustGrow THEN array + 1 ELSE array
  /\ slots' = Store(Grown, NewCap, [key |-> want[t], val |-> v])
  /\ used' = used + 1
  /\ mask' = NewCap - 1
  /\ last' = NoSlot
  /\ pc' = [pc EXCEPT ![t] = "idle"]
  /\ UNCHANGED <<hash, want, at, dying>>

Put(t, v) ==
  /\ pc[t] = "write" /\ Found(want[t]) = {}
  /\ array' = IF MustGrow THEN array + 1 ELSE array
  /\ slots' = Store(Grown, NewCap, [key |-> want[t], val |-> v])
  /\ used' = used + 1
  /\ mask' = NewCap - 1
  /\ last' = NoSlot
  /\ pc' = [pc EXCEPT ![t] = "idle"]
  /\ UNCHANGED <<hash, want, at, dying>>

-----------------------------------------------------------------------------
(* P##_free, when the launcher dies: nobody is inside it.  The map lets go *)
(* of its array first: releasing a record can run a finalizer, which can   *)
(* run the garbage collector over the map (P##_each).                      *)

(* Mutant of FreeDetaches: the map shows its slots while they are released. *)
FreeInPlace ==
  /\ Alive /\ dying = {}
  /\ \A t \in Threads : pc[t] = "idle"
  /\ dying' = {i \in 0 .. mask : Live(slots[i])}
  /\ used' = 0 /\ last' = NoSlot
  /\ UNCHANGED <<hash, array, slots, mask, caller>>

FreeDetaches ==
  /\ Alive
  /\ \A t \in Threads : pc[t] = "idle"
  /\ dying' = {i \in 0 .. mask : Live(slots[i])}
  /\ array' = 0 /\ slots' = <<>> /\ used' = 0 /\ last' = NoSlot
  /\ UNCHANGED <<hash, mask, caller>>

FreeReleases ==
  /\ \E i \in dying : /\ \A j \in dying : i <= j
                      /\ dying' = dying \ {i}
  /\ UNCHANGED <<hash, map, caller>>

(* The records P##_each shows a visitor. *)
Each == IF Alive THEN {i \in 0 .. mask : Live(slots[i])} ELSE {}

-----------------------------------------------------------------------------
Init ==
  /\ hash \in [Keys -> HashValues]
  /\ array = 1 /\ slots = Fresh(Cap) /\ mask = Cap - 1 /\ used = 0 /\ last = NoSlot
  /\ pc = [t \in Threads |-> "idle"]
  /\ want = [t \in Threads |-> ZeroKey]
  /\ at = [t \in Threads |-> NoSlot]
  /\ dying = {}

Next ==
  \/ \E t \in Threads, k \in Keys : Call(t, k)
  \/ \E t \in Threads : \/ MemoHit(t) \/ MemoMiss(t) \/ Hit(t) \/ Miss(t) \/ Launched(t)
                        \/ CompileFails(t) \/ WriteLock(t)
                        \/ PutNotNeeded(t) \/ PutFails(t)
  \/ \E t \in Threads, v \in Kernels : Put(t, v)
  \/ FreeDetaches
  \/ FreeReleases

Spec == Init /\ [][Next]_vars
=============================================================================
