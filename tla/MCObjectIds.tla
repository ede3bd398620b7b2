---------------------------- MODULE MCObjectIds ----------------------------
EXTENDS ObjectIdsProps, TLC

(* A str and a dtype of one name, a JIT function, something unsupported. *)
MCValues == {[kind |-> "str", name |-> "fp32"], [kind |-> "dtype", name |-> "fp32"],
             [kind |-> "jit", name |-> "add"], [kind |-> "other", name |-> "list"]}
Symmetry == Permutations(Threads) \union Permutations(Addrs) \union Permutations(Slots)
=============================================================================
