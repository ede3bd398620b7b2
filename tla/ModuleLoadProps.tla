--------------------------- MODULE ModuleLoadProps ---------------------------
(* What the launcher base and the module loader promise.                   *)
EXTENDS ModuleLoad

(* "atomically, so a racing build cannot be half-read": whoever builds, in *)
(* whatever process, and whoever is killed at it, what the module's path   *)
(* holds is whole, and so is every module that was loaded from it.         *)
LoadedIsWhole ==
    /\ \A k \in Keys : so[k] # "half"
    /\ \A t \in Thread : module[t] # NoModule => module[t].file = "whole"

(* A module in _LOADED has its launcher type and its tensor layout, even   *)
(* after a load that failed at one of them.                                *)
PublishedIsReady ==
    \A p \in Proc, k \in Keys : modules[p][k] # NoModule => modules[p][k].ready

(* One of each per process: the launchers of a process that are built are  *)
(* of types over one launcher base, the modules they call accept that very *)
(* base's launchers, and two launchers of one key share a module.          *)
OneOfEach ==
    \A t \in Thread : At(t, "built") =>
        /\ module[t].stub = type[t]
        /\ \A u \in Thread : At(u, "built") /\ Home[u] = Home[t] =>
              /\ type[u] = type[t]
              /\ key[u] = key[t] => module[u] = module[t]

(* A launcher is built in another mode than STATIC_COMPILE only where that *)
(* could not be built, and never where the caller asked for it.            *)
ModeAsAsked ==
    \A t \in Thread : At(t, "built") /\ key[t] = "shim" =>
        cpp[Home[t]] = "broken" /\ t \notin Explicit
=============================================================================
