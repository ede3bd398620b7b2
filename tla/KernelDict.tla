---------------------------- MODULE KernelDict ----------------------------
(***************************************************************************)
(* What the kernel cache of src/intj/runtime/intj_map.h promises its users *)
(* (src/intj/render/entry.c.jinja): a dictionary from spec keys to kernels *)
(* in which an entry, once there, stays as it is, and of which a reader    *)
(* that got hold of an entry reads that entry until it lets go.            *)
(***************************************************************************)
CONSTANTS Threads, Keys, Kernels, NoKernel

VARIABLES
  dict,   (* key -> its kernel, or NoKernel                                *)
  holds   (* t -> the kernel thread t launches from, or NoKernel           *)

Init == /\ dict = [k \in Keys |-> NoKernel]
        /\ holds = [t \in Threads |-> NoKernel]

Lookup(t, k) == /\ dict[k] # NoKernel
                /\ holds[t] = NoKernel
                /\ holds' = [holds EXCEPT ![t] = dict[k]]
                /\ UNCHANGED dict

LetGo(t) == /\ holds[t] # NoKernel
            /\ holds' = [holds EXCEPT ![t] = NoKernel]
            /\ UNCHANGED dict

(* An entry is only ever added, and while nobody reads. *)
Put(k, v) == /\ dict[k] = NoKernel
             /\ \A t \in Threads : holds[t] = NoKernel
             /\ dict' = [dict EXCEPT ![k] = v]
             /\ UNCHANGED holds

(* The launcher dies, and every entry with it. *)
Free == /\ \A t \in Threads : holds[t] = NoKernel
        /\ dict' = [k \in Keys |-> NoKernel]
        /\ UNCHANGED holds

Next == \/ \E t \in Threads, k \in Keys : Lookup(t, k)
        \/ \E t \in Threads : LetGo(t)
        \/ \E k \in Keys, v \in Kernels : Put(k, v)
        \/ Free

Spec == Init /\ [][Next]_<<dict, holds>>
===========================================================================
