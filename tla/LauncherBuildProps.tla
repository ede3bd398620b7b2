-------------------------- MODULE LauncherBuildProps --------------------------
(***************************************************************************)
(* What must hold of the build on first call.                              *)
(***************************************************************************)
EXTENDS LauncherBuild

(* The variables have the types their comments give them. *)
TypeOK ==
  /\ lock \in [Launchers -> Threads \union {NoThread}]
  /\ buildThread \in [Launchers -> Threads \union {NoThread}]
  /\ held \in [Threads -> Nat]
  /\ entry \in [Launchers -> {"shim", "built"}]
  /\ options \in [Launchers -> Options \union {NoOptions}]
  /\ state \in [Launchers -> Options \union {NoOptions}]
  /\ compileState \in [Launchers -> BOOLEAN]
  /\ frame \in [Threads -> [1 .. MaxDepth -> Frames \union {NoFrame}]]
  /\ depth \in [Threads -> 0 .. MaxDepth]
  /\ edits \in 0 .. MaxEdits

-----------------------------------------------------------------------------
(* Frame d of thread t runs under its launcher's build lock. *)
Holds(t, d) == d \in 1 .. depth[t] /\ frame[t][d].pc \in UnderLock

(* At most one frame of one thread is inside a launcher's body (build,     *)
(* check or edit), it is the lock's owner, and build_thread names it: a    *)
(* launcher never runs two `delayed`, or a build and an edit, at once,     *)
(* and a free lock has nobody inside.                                      *)
LockOwnerIsInside ==
  \A t \in Threads, h \in Launchers :
    /\ lock[h] = t <=> \E d \in 1 .. depth[t] : Holds(t, d) /\ frame[t][d].h = h
    /\ buildThread[h] = lock[h]
    /\ \A d, e \in 1 .. depth[t] :
         Holds(t, d) /\ Holds(t, e) /\ frame[t][d].h = frame[t][e].h => d = e

(* The thread-local count by which a thread refuses to wait is the number  *)
(* of build locks the thread owns.                                         *)
HeldCountsLocks ==
  \A t \in Threads : held[t] = Cardinality({h \in Launchers : lock[h] = t})

(* Whoever waits for a build lock owns none, so no cycle of threads, each  *)
(* waiting for the next one's launcher, can close.                         *)
WaitersHoldNothing ==
  \A t \in Threads : At(t, "waiting") => \A h \in Launchers : lock[h] # t

(* Once the shim is swapped for the entry, what the entry uses is there:   *)
(* the state block, the compile state a miss goes to, and the very options *)
(* the module was built from, with `delayed` resolved; only the garbage    *)
(* collector takes them away again, the state block first.                 *)
EntryIsBacked ==
  \A h \in Launchers : entry[h] = "built" =>
    \/ options[h] = NoOptions /\ state[h] = NoOptions
    \/ options[h] # NoOptions /\ ~options[h].delayed /\ compileState[h]
         /\ state[h] \in {options[h], NoOptions}

(* A build that failed left nothing behind that makes _init refuse the     *)
(* next one: an unbuilt launcher that nobody is publishing has no state.   *)
FailedBuildLeavesNothing ==
  \A h \in Launchers :
    entry[h] = "shim" /\ state[h] # NoOptions =>
      \E t \in Threads : \E d \in 1 .. depth[t] :
        frame[t][d].h = h /\ frame[t][d].pc \in Publishing

-----------------------------------------------------------------------------
(* Each launcher lives as LauncherLife says: no edit is lost to another    *)
(* edit or to a build that read the options before it, a build publishes   *)
(* exactly the options it was made from, once, and nothing changes them    *)
(* afterwards.                                                             *)
Life == INSTANCE LauncherLife WITH
  phase  <- [h \in Launchers |-> IF entry[h] = "built" THEN "built" ELSE "unbuilt"],
  kernel <- [h \in Launchers |-> IF entry[h] = "built" THEN state[h] ELSE NoOptions]
LauncherLives == Life!Spec

(* Every call, check and edit returns, provided every `delayed` does:      *)
(* refusing instead of waiting leaves no deadlock between builds.          *)
EveryOperationReturns == \A t \in Threads : Active(t) ~> ~Active(t)
=============================================================================
