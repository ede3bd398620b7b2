------------------------------ MODULE ModuleLoad ------------------------------
(***************************************************************************)
(* How a process comes to its C modules: the launcher base, loaded once    *)
(* (launcher.py, launcher_base.py), and the module rendered for a kernel,  *)
(* compiled on first use into a directory every process shares and loaded  *)
(* once per key (render/module.py, render/build.py).                       *)
(*                                                                         *)
(* A thread makes a launcher and calls it.  Any build may fail, and any    *)
(* process may be killed, between two steps.  One kernel: its module has   *)
(* one key for the STATIC_COMPILE access mode and one for the mode chosen  *)
(* when a build finds that torch's cpp_extension does not import.          *)
(***************************************************************************)
EXTENDS Naturals

CONSTANTS Proc, Thread,
          Home,         \* the process of each thread
          Pid,          \* the pid of each process
          Chain,        \* the threads whose kernel is an autotune chain
          Explicit,     \* the threads that ask for STATIC_COMPILE by name
          Nobody        \* no thread, and no object: None

ASSUME HomeAssumption == Home \in [Thread -> Proc]
ASSUME ThreadAssumption == Chain \subseteq Thread /\ Explicit \subseteq Thread
ASSUME NobodyAssumption == Nobody \notin Thread
(* Processes that share the directory have pids of their own: one machine. *)
ASSUME PidAssumption == \A p, q \in Proc : Pid[p] = Pid[q] => p = q

Keys == {"static", "shim"}
Pids == {Pid[p] : p \in Proc}

VARIABLES
    (* the shared directory *)
    so,         \* what each key's path holds: "none", "half" or "whole"
    staged,     \* the same, of the file each pid stages for each key
    (* each process *)
    cpp,        \* its cpp_extension: "ok", "broken", or "differs" from what was guessed
    stub,       \* _stub_loaded: the load it came from, named by its thread
    tuned,      \* _tuned_loaded: the stub it is over
    modules,    \* _LOADED
    stubLock, loadLock,
    (* each thread *)
    pc,
    key,        \* the key it loads, in the access mode chosen so far
    type,       \* the stub its launcher's type is over
    module      \* the module it is loading, or was given

memory == <<stub, tuned, modules, stubLock, loadLock>>
vars == <<so, staged, cpp, memory, pc, key, type, module>>

(* A module object: whose load it is, what the file held, the launcher type *)
(* it accepts, and whether both its setters have run.                       *)
NoModule == [by |-> Nobody, file |-> "none", stub |-> Nobody, ready |-> FALSE]

Init ==
    /\ so = [k \in Keys |-> "none"]
    /\ staged = [i \in Pids |-> [k \in Keys |-> "none"]]
    /\ cpp \in [Proc -> {"ok", "broken", "differs"}]
    /\ stub = [p \in Proc |-> Nobody]
    /\ tuned = [p \in Proc |-> Nobody]
    /\ modules = [p \in Proc |-> [k \in Keys |-> NoModule]]
    /\ stubLock = [p \in Proc |-> Nobody]
    /\ loadLock = [p \in Proc |-> Nobody]
    /\ pc = [t \in Thread |-> "idle"]
    /\ key = [t \in Thread |-> "static"]
    /\ type = [t \in Thread |-> Nobody]
    /\ module = [t \in Thread |-> NoModule]

At(t, here) == pc[t] = here
Go(t, there) == pc' = [pc EXCEPT ![t] = there]
Free(lock, t) == lock' = [lock EXCEPT ![Home[t]] = IF @ = t THEN Nobody ELSE @]
Take(lock, t) == lock[Home[t]] = Nobody /\ lock' = [lock EXCEPT ![Home[t]] = t]

(* The call ends, with an exception or a launch; `with` drops the locks. *)
End(t) ==
    /\ Go(t, "idle")
    /\ key' = [key EXCEPT ![t] = "static"]
    /\ type' = [type EXCEPT ![t] = Nobody]
    /\ module' = [module EXCEPT ![t] = NoModule]
Raise(t) ==
    /\ End(t)
    /\ Free(stubLock, t) /\ Free(loadLock, t)
    /\ UNCHANGED <<so, staged, cpp, stub, tuned, modules>>

-----------------------------------------------------------------------------
(* make_launcher: the launcher base and the type over it.                   *)

Make(t) ==
    /\ At(t, "idle")
    /\ Go(t, IF stub[Home[t]] = Nobody THEN "awaitStub" ELSE "type")
    /\ UNCHANGED <<so, staged, cpp, memory, key, type, module>>

(* A likely slip: no second look once the lock is held. *)
LockStubBlindly(t) ==
    /\ At(t, "awaitStub")
    /\ Take(stubLock, t)
    /\ Go(t, "loadStub")
    /\ UNCHANGED <<so, staged, cpp, stub, tuned, modules, loadLock, key, type, module>>

LockStub(t) ==
    /\ At(t, "awaitStub")
    /\ Take(stubLock, t)
    /\ Go(t, IF stub[Home[t]] = Nobody THEN "loadStub" ELSE "leaveStub")
    /\ UNCHANGED <<so, staged, cpp, stub, tuned, modules, loadLock, key, type, module>>

(* load_stub: found on disk or compiled in a directory of its own and put   *)
(* there in one rename; then loaded, which makes a Launcher of its own.     *)
LoadStub(t) ==
    /\ At(t, "loadStub")
    /\ \/ /\ stub' = [stub EXCEPT ![Home[t]] = t]
          /\ Go(t, "leaveStub")
          /\ UNCHANGED <<so, staged, cpp, tuned, modules, stubLock, loadLock, key, type, module>>
       \/ Raise(t)

LeaveStub(t) ==
    /\ At(t, "leaveStub")
    /\ Free(stubLock, t)
    /\ Go(t, "type")
    /\ UNCHANGED <<so, staged, cpp, stub, tuned, modules, loadLock, key, type, module>>

(* A launcher's own type is loaded with the stub; a chain's, on first use. *)
ReadType(t) ==
    /\ At(t, "type")
    /\ IF t \notin Chain \/ tuned[Home[t]] # Nobody
       THEN /\ type' = [type EXCEPT ![t] = IF t \in Chain THEN tuned[Home[t]] ELSE stub[Home[t]]]
            /\ Go(t, "awaitLoad")
       ELSE Go(t, "awaitTuned") /\ UNCHANGED type
    /\ UNCHANGED <<so, staged, cpp, memory, key, module>>

LockTuned(t) ==
    /\ At(t, "awaitTuned")
    /\ Take(stubLock, t)
    /\ tuned' = [tuned EXCEPT ![Home[t]] = IF @ = Nobody THEN stub[Home[t]] ELSE @]
    /\ Go(t, "leaveStub")
    /\ UNCHANGED <<so, staged, cpp, stub, modules, loadLock, key, type, module>>

-----------------------------------------------------------------------------
(* The first call: _build_module, under _LOAD_LOCK.                         *)

LockLoad(t) ==
    /\ At(t, "awaitLoad")
    /\ Take(loadLock, t)
    /\ Go(t, "get")
    /\ UNCHANGED <<so, staged, cpp, stub, tuned, modules, stubLock, key, type, module>>

Get(t) ==
    /\ At(t, "get")
    /\ LET known == modules[Home[t]][key[t]]
       IN  IF known # NoModule
           THEN module' = [module EXCEPT ![t] = known] /\ Go(t, "leaveLoad")
           ELSE Go(t, IF so[key[t]] = "none" THEN "flags" ELSE "exec") /\ UNCHANGED module
    /\ UNCHANGED <<so, staged, cpp, memory, key, type>>

(* A likely slip: the mode is chosen again for every caller. *)
FlagsForgiving(t) ==
    /\ At(t, "flags")
    /\ IF key[t] = "shim" \/ cpp[Home[t]] = "ok"
       THEN /\ Go(t, "compile")
            /\ UNCHANGED <<so, staged, cpp, memory, key, type, module>>
       ELSE /\ Free(loadLock, t)
            /\ key' = [key EXCEPT ![t] = "shim"]
            /\ Go(t, "awaitLoad")
            /\ UNCHANGED <<so, staged, cpp, stub, tuned, modules, stubLock, type, module>>

(* build_flags: only a build imports cpp_extension.  Where it does not, the *)
(* mode is chosen again, which an explicit STATIC_COMPILE refuses; where it *)
(* disagrees with what the digest was made of, the build is refused.        *)
Flags(t) ==
    /\ At(t, "flags")
    /\ IF key[t] = "shim" \/ cpp[Home[t]] = "ok"
       THEN /\ Go(t, "compile")
            /\ UNCHANGED <<so, staged, cpp, memory, key, type, module>>
       ELSE IF cpp[Home[t]] = "broken" /\ t \notin Explicit
       THEN /\ Free(loadLock, t)
            /\ key' = [key EXCEPT ![t] = "shim"]
            /\ Go(t, "awaitLoad")
            /\ UNCHANGED <<so, staged, cpp, stub, tuned, modules, stubLock, type, module>>
       ELSE Raise(t)

(* The render and the compiler, in a directory of its own. *)
Compile(t) ==
    /\ At(t, "compile")
    /\ \/ Go(t, "stage") /\ UNCHANGED <<so, staged, cpp, memory, key, type, module>>
       \/ Raise(t)

(* A likely slip: the binary is written where it will be loaded from. *)
StageInPlace(t) ==
    /\ At(t, "stage")
    /\ so' = [so EXCEPT ![key[t]] = "half"]
    /\ staged' = [staged EXCEPT ![Pid[Home[t]]][key[t]] = "half"]
    /\ Go(t, "write")
    /\ UNCHANGED <<cpp, memory, key, type, module>>

(* _install: the staged file is named by the pid; opened, it is empty. *)
Stage(t) ==
    /\ At(t, "stage")
    /\ staged' = [staged EXCEPT ![Pid[Home[t]]][key[t]] = "half"]
    /\ Go(t, "write")
    /\ UNCHANGED <<so, cpp, memory, key, type, module>>

Write(t) ==
    /\ At(t, "write")
    /\ \/ /\ staged' = [staged EXCEPT ![Pid[Home[t]]][key[t]] = "whole"]
          /\ Go(t, "replace")
          /\ UNCHANGED <<so, cpp, memory, key, type, module>>
       \/ Raise(t)     \* the disk is full

Replace(t) ==
    /\ At(t, "replace")
    /\ staged[Pid[Home[t]]][key[t]] # "none"
    /\ so' = [so EXCEPT ![key[t]] = staged[Pid[Home[t]]][key[t]]]
    /\ staged' = [staged EXCEPT ![Pid[Home[t]]][key[t]] = "none"]
    /\ Go(t, "exec")
    /\ UNCHANGED <<cpp, memory, key, type, module>>

(* The file is read and a module object made of it. *)
Exec(t) ==
    /\ At(t, "exec")
    /\ module' = [module EXCEPT ![t] = [NoModule EXCEPT !.by = t, !.file = so[key[t]]]]
    /\ Go(t, "setUp")
    /\ UNCHANGED <<so, staged, cpp, memory, key, type>>

(* A likely slip: the module is published before it is set up. *)
SetUpPublished(t) ==
    /\ At(t, "setUp")
    /\ LET ready == [module[t] EXCEPT !.stub = stub[Home[t]], !.ready = TRUE]
       IN  \/ /\ modules' = [modules EXCEPT ![Home[t]][key[t]] = ready]
              /\ module' = [module EXCEPT ![t] = ready]
              /\ Go(t, "leaveLoad")
              /\ UNCHANGED <<so, staged, cpp, stub, tuned, stubLock, loadLock, key, type>>
           \/ /\ modules' = [modules EXCEPT ![Home[t]][key[t]] = module[t]]
              /\ End(t) /\ Free(loadLock, t)
              /\ UNCHANGED <<so, staged, cpp, stub, tuned, stubLock>>

(* The header check and the two setters, any of which may raise; only a     *)
(* module that is set up is published.                                      *)
SetUp(t) ==
    /\ At(t, "setUp")
    /\ LET ready == [module[t] EXCEPT !.stub = stub[Home[t]], !.ready = TRUE]
       IN  \/ /\ modules' = [modules EXCEPT ![Home[t]][key[t]] = ready]
              /\ module' = [module EXCEPT ![t] = ready]
              /\ Go(t, "leaveLoad")
              /\ UNCHANGED <<so, staged, cpp, stub, tuned, stubLock, loadLock, key, type>>
           \/ Raise(t)

LeaveLoad(t) ==
    /\ At(t, "leaveLoad")
    /\ Free(loadLock, t)
    /\ Go(t, "built")
    /\ UNCHANGED <<so, staged, cpp, stub, tuned, modules, stubLock, key, type, module>>

(* The launcher is dropped, and the thread goes on to another. *)
Drop(t) ==
    /\ At(t, "built")
    /\ End(t)
    /\ UNCHANGED <<so, staged, cpp, memory>>

(* The process is killed and started again: its memory is gone, and its     *)
(* files are as it left them.                                               *)
Kill(p) ==
    LET mine(f, new) == [t \in Thread |-> IF Home[t] = p THEN new ELSE f[t]]
    IN  /\ stub' = [stub EXCEPT ![p] = Nobody]
        /\ tuned' = [tuned EXCEPT ![p] = Nobody]
        /\ modules' = [modules EXCEPT ![p] = [k \in Keys |-> NoModule]]
        /\ stubLock' = [stubLock EXCEPT ![p] = Nobody]
        /\ loadLock' = [loadLock EXCEPT ![p] = Nobody]
        /\ pc' = mine(pc, "idle")
        /\ key' = mine(key, "static")
        /\ type' = mine(type, Nobody)
        /\ module' = mine(module, NoModule)
        /\ UNCHANGED <<so, staged, cpp>>

Step(t) ==
    \/ Make(t) \/ LockStub(t) \/ LoadStub(t) \/ LeaveStub(t) \/ ReadType(t) \/ LockTuned(t)
    \/ LockLoad(t) \/ Get(t) \/ Flags(t) \/ Compile(t) \/ Stage(t) \/ Write(t) \/ Replace(t)
    \/ Exec(t) \/ SetUp(t) \/ LeaveLoad(t) \/ Drop(t)

Next ==
    \/ \E t \in Thread : Step(t)
    \/ \E p \in Proc : Kill(p)

Spec == Init /\ [][Next]_vars
=============================================================================
