----------------------------- MODULE MCModuleLoad -----------------------------
(* Two processes; two threads in the first, one of them with a chain.       *)
EXTENDS ModuleLoadProps, TLC

CONSTANTS p1, p2, t1, t2, t3

MCHome == (t1 :> p1) @@ (t2 :> p1) @@ (t3 :> p2)
MCPid == (p1 :> 1) @@ (p2 :> 2)
=============================================================================
