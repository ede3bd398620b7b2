---------------------------- MODULE LauncherBuild ----------------------------
(***************************************************************************)
(* Build on first call (src/intj/runtime/intj_launcher_base.c and the      *)
(* Launcher class of src/intj/launcher.py).                                *)
(*                                                                         *)
(* A launcher starts with a shim for its entry.  The first call builds it  *)
(* under the launcher's build lock, with Python running under that lock    *)
(* (the user's `delayed`), and swaps the shim for the rendered entry.      *)
(* Threads call, check and edit launchers concurrently, and a `delayed`    *)
(* may itself call, check or edit any launcher: its own, or one that       *)
(* another thread is building.                                             *)
(*                                                                         *)
(* frame[t][1..depth[t]] is what thread t is inside of: the outermost      *)
(* operation first, each later one started by the `delayed` of the one     *)
(* before.  The last of them is the one that runs.                         *)
(***************************************************************************)
EXTENDS Integers, FiniteSets

CONSTANTS
  Threads,    (* the threads that use launchers                            *)
  Launchers,  (* the launcher objects                                      *)
  Ops,        (* the operations users start, among those below             *)
  MaxDepth,   (* bound: how deep `delayed` callbacks nest on one thread    *)
  MaxEdits,   (* bound: how many in-place edits are made in a behaviour    *)
  NoThread,   (* build_thread = 0, and a free lock                         *)
  NoLauncher, (* the launcher of an unused frame                           *)
  NoOptions   (* h->options = NULL: the launcher has been cleared          *)

ASSUME LaunchersFinite == IsFiniteSet(Launchers)
ASSUME NoThreadNew == NoThread \notin Threads
ASSUME BoundsNat == MaxDepth \in Nat \ {0} /\ MaxEdits \in Nat
ASSUME NoLauncherNew == NoLauncher \notin Launchers

VARIABLES
  lock,         (* h -> the thread holding build_lock, or NoThread         *)
  buildThread,  (* h -> build_thread                                       *)
  held,         (* t -> the thread-local intj_launcher_base_held           *)
  entry,        (* h -> what def.ml_meth is: the shim or the built entry   *)
  options,      (* h -> h->options                                         *)
  state,        (* h -> what h->state was built from, NoOptions while NULL *)
  compileState, (* h -> whether _compile_state is stored                   *)
  frame,        (* t -> depth -> what the thread does there                *)
  depth,        (* t -> number of frames in use                            *)
  edits         (* how many in-place edits were stored so far              *)

locks   == <<lock, buildThread, held>>
objects == <<entry, options, state, compileState>>
stacks  == <<frame, depth>>
vars    == <<locks, objects, stacks, edits>>

(***************************************************************************)
(* Options are what tells two versions of them apart: the set of edits     *)
(* they contain, and whether `delayed` is set.                             *)
(***************************************************************************)
Options  == [edits : SUBSET (1 .. MaxEdits), delayed : BOOLEAN]
ASSUME NoOptionsNew == NoOptions \notin Options
Resolved(o) == [o EXCEPT !.delayed = FALSE]

(* call stands for the call and for build(), spec_key() and key_chain(),   *)
(* which all build first; edit for the in-place edits but resolve_delayed. *)
ASSUME OpsKnown == Ops \subseteq {"call", "check", "edit", "resolve"}

UnderLock  == {"locked", "delayed", "body", "init", "publish", "swap", "unlock"}
Publishing == {"init", "publish", "swap"}
Pcs == {"enter", "lock", "waiting", "launch"} \union UnderLock

Frames == [op : Ops, h : Launchers, pc : Pcs, opt : Options \union {NoOptions}]
NoFrame == [op |-> "none", h |-> NoLauncher, pc |-> "none", opt |-> NoOptions]

-----------------------------------------------------------------------------
Active(t) == depth[t] > 0
Top(t)    == frame[t][depth[t]]
Goto(t, pc) == /\ frame' = [frame EXCEPT ![t][depth[t]].pc = pc]
               /\ UNCHANGED depth
Return(t)   == /\ frame' = [frame EXCEPT ![t][depth[t]] = NoFrame]
               /\ depth' = [depth EXCEPT ![t] = @ - 1]
At(t, pc) == Active(t) /\ Top(t).pc = pc

(* Thread t starts op on launcher h: on its own, or from the `delayed` it  *)
(* is running.                                                             *)
Begin(t, op, h) ==
  /\ depth[t] < MaxDepth
  /\ Active(t) => Top(t).pc = "delayed"
  /\ depth' = [depth EXCEPT ![t] = @ + 1]
  /\ frame' = [frame EXCEPT ![t][depth[t] + 1] =
                 [op |-> op, h |-> h, pc |-> "enter", opt |-> NoOptions]]
  /\ UNCHANGED <<locks, objects, edits>>

(* What an operation reads before it takes the lock: a call and a check    *)
(* the entry, resolve_delayed the options.                                 *)
NeedsLock(op, h) ==
  CASE op \in {"call", "check"} -> entry[h] = "shim"
    [] op = "edit"    -> TRUE
    [] op = "resolve" -> options[h] # NoOptions /\ options[h].delayed

Enter(t) ==
  /\ At(t, "enter")
  /\ \/ NeedsLock(Top(t).op, Top(t).h) /\ Goto(t, "lock")
     \/ ~NeedsLock(Top(t).op, Top(t).h) /\ Top(t).op = "call" /\ Goto(t, "launch")
     \/ ~NeedsLock(Top(t).op, Top(t).h) /\ Top(t).op # "call" /\ Return(t)
  /\ UNCHANGED <<locks, objects, edits>>

-----------------------------------------------------------------------------
(* The build lock *)

(* Mutant of MustRefuse: only the builder itself is refused. *)
RefuseOnlyBuilder(t, h) == buildThread[h] = t

MustRefuse(t, h) == \/ buildThread[h] = t
                    \/ lock[h] # NoThread /\ held[t] > 0

Take(t, h) == /\ lock[h] = NoThread
              /\ lock' = [lock EXCEPT ![h] = t]
              /\ buildThread' = [buildThread EXCEPT ![h] = t]
              /\ held' = [held EXCEPT ![t] = @ + 1]

(* Mutant of Release: the count of held locks is not taken back. *)
ReleaseKeepsHeld(t, h) == /\ lock' = [lock EXCEPT ![h] = NoThread]
                          /\ buildThread' = [buildThread EXCEPT ![h] = NoThread]
                          /\ UNCHANGED held

Release(t, h) == /\ lock' = [lock EXCEPT ![h] = NoThread]
                 /\ buildThread' = [buildThread EXCEPT ![h] = NoThread]
                 /\ held' = [held EXCEPT ![t] = @ - 1]

LockRefused(t) ==
  /\ At(t, "lock")
  /\ MustRefuse(t, Top(t).h)
  /\ Return(t)
  /\ UNCHANGED <<locks, objects, edits>>

LockTaken(t) ==
  /\ At(t, "lock")
  /\ ~MustRefuse(t, Top(t).h)
  /\ Take(t, Top(t).h)
  /\ Goto(t, "locked")
  /\ UNCHANGED <<objects, edits>>

(* Mutant of LockBusy: an edit goes ahead during another thread's build. *)
LockBusyEditGoesOn(t) ==
  LET h == Top(t).h IN
  /\ At(t, "lock")
  /\ ~MustRefuse(t, h) /\ lock[h] # NoThread
  /\ IF Top(t).op = "edit"
       THEN buildThread' = [buildThread EXCEPT ![h] = t] /\ Goto(t, "locked")
       ELSE UNCHANGED buildThread /\ Goto(t, "waiting")
  /\ UNCHANGED <<lock, held, objects, edits>>

LockBusy(t) ==
  /\ At(t, "lock")
  /\ ~MustRefuse(t, Top(t).h)
  /\ lock[Top(t).h] # NoThread
  /\ Goto(t, "waiting")
  /\ UNCHANGED <<locks, objects, edits>>

LockGranted(t) ==
  /\ At(t, "waiting")
  /\ Take(t, Top(t).h)
  /\ Goto(t, "locked")
  /\ UNCHANGED <<objects, edits>>

-----------------------------------------------------------------------------
(* What runs under the build lock *)

(* Nothing to do for this thread: the launcher was cleared, or another     *)
(* thread built it while this one waited.  A call then launches.           *)
BodyNotNeeded(t) ==
  LET h == Top(t).h IN
  /\ At(t, "locked")
  /\ entry[h] = "built" \/ options[h] = NoOptions
  /\ Release(t, h)
  /\ IF Top(t).op = "call" /\ entry[h] = "built" THEN Goto(t, "launch") ELSE Return(t)
  /\ UNCHANGED <<objects, edits>>

(* The options are read once; what follows works on that value. *)
BodyReads(t) ==
  LET h == Top(t).h
      runsDelayed == Top(t).op # "edit" /\ options[h].delayed
  IN
  /\ At(t, "locked")
  /\ entry[h] = "shim" /\ options[h] # NoOptions
  /\ frame' = [frame EXCEPT ![t][depth[t]].pc = IF runsDelayed THEN "delayed" ELSE "body",
                            ![t][depth[t]].opt = options[h]]
  /\ UNCHANGED <<locks, objects, depth, edits>>

DelayedReturns(t) ==
  /\ At(t, "delayed")
  /\ frame' = [frame EXCEPT ![t][depth[t]].pc = "body",
                            ![t][depth[t]].opt = Resolved(@)]
  /\ UNCHANGED <<locks, objects, depth, edits>>

(* `delayed` raises, a check of the plan fails, or the edit, the target    *)
(* query, the render, the compilation or _init does.                       *)
BodyFails(t) ==
  /\ At(t, "delayed") \/ At(t, "body")
  /\ Release(t, Top(t).h)
  /\ Return(t)
  /\ UNCHANGED <<objects, edits>>

CheckPasses(t) ==
  /\ At(t, "body") /\ Top(t).op = "check"
  /\ Release(t, Top(t).h)
  /\ Return(t)
  /\ UNCHANGED <<objects, edits>>

(* _C_set_options, and the unlock of _C_locked.  An edit changes a value   *)
(* (bind, bind_device) and may set or drop `delayed` (replace_delayed,     *)
(* chain_delayed); resolve_delayed's runs it and drops it.                 *)
Edited(t, delayed) == [edits   |-> Top(t).opt.edits \union {edits + 1},
                       delayed |-> delayed]
EditStored(t) ==
  LET h == Top(t).h IN
  /\ At(t, "body") /\ Top(t).op \in {"edit", "resolve"}
  /\ edits < MaxEdits
  /\ buildThread[h] = t /\ entry[h] = "shim"
  /\ \E d \in IF Top(t).op = "edit" THEN BOOLEAN ELSE {FALSE} :
       options' = [options EXCEPT ![h] = Edited(t, d)]
  /\ edits' = edits + 1
  /\ Release(t, h)
  /\ Return(t)
  /\ UNCHANGED <<entry, state, compileState>>

-----------------------------------------------------------------------------
(* The end of a successful build *)

(* Mutant of InitState: it still fails after it published the state.       *)
InitStateFailsLate(t) ==
  LET h == Top(t).h IN
  /\ At(t, "body") /\ Top(t).op = "call"
  /\ state[h] = NoOptions
  /\ state' = [state EXCEPT ![h] = Top(t).opt]
  /\ Release(t, h) /\ Return(t)
  /\ UNCHANGED <<entry, options, compileState, edits>>

(* module._init fills and publishes the state block; it refuses a launcher *)
(* that already has one (then BodyFails is what happens).                  *)
InitState(t) ==
  LET h == Top(t).h IN
  /\ At(t, "body") /\ Top(t).op = "call"
  /\ state[h] = NoOptions
  /\ state' = [state EXCEPT ![h] = Top(t).opt]
  /\ Goto(t, "init")
  /\ UNCHANGED <<locks, entry, options, compileState, edits>>

(* Mutant of StoreCompileState: the entry is swapped before the options    *)
(* are published.                                                          *)
StoreThenSwap(t) ==
  /\ At(t, "init")
  /\ compileState' = [compileState EXCEPT ![Top(t).h] = TRUE]
  /\ Goto(t, "swap")
  /\ UNCHANGED <<locks, entry, options, state, edits>>

StoreCompileState(t) ==
  /\ At(t, "init")
  /\ compileState' = [compileState EXCEPT ![Top(t).h] = TRUE]
  /\ Goto(t, "publish")
  /\ UNCHANGED <<locks, entry, options, state, edits>>

PublishOptions(t) ==
  /\ At(t, "publish")
  /\ options' = [options EXCEPT ![Top(t).h] = Top(t).opt]
  /\ Goto(t, "swap")
  /\ UNCHANGED <<locks, entry, state, compileState, edits>>

SwapEntry(t) ==
  /\ At(t, "swap")
  /\ entry' = [entry EXCEPT ![Top(t).h] = "built"]
  /\ Goto(t, "unlock")
  /\ UNCHANGED <<locks, options, state, compileState, edits>>

BuildUnlocks(t) ==
  /\ At(t, "unlock")
  /\ Release(t, Top(t).h)
  /\ Goto(t, "launch")
  /\ UNCHANGED <<objects, edits>>

(* The entry runs: it launches, or finds the state cleared and raises. *)
Launch(t) ==
  /\ At(t, "launch")
  /\ Return(t)
  /\ UNCHANGED <<locks, objects, edits>>

-----------------------------------------------------------------------------
(* tp_clear: the garbage collector clears an unreachable launcher, so no   *)
(* thread is inside an operation on it.  Finalizers of other garbage may   *)
(* still call it, between the two steps too: releasing the state block     *)
(* runs Python.                                                            *)
InUse(h) == \E t \in Threads : \E d \in 1 .. depth[t] : frame[t][d].h = h

ClearState(h) ==
  /\ ~InUse(h)
  /\ state[h] # NoOptions
  /\ state' = [state EXCEPT ![h] = NoOptions]
  /\ UNCHANGED <<locks, entry, options, compileState, stacks, edits>>

ClearRest(h) ==
  /\ ~InUse(h)
  /\ state[h] = NoOptions /\ options[h] # NoOptions
  /\ options' = [options EXCEPT ![h] = NoOptions]
  /\ compileState' = [compileState EXCEPT ![h] = FALSE]
  /\ UNCHANGED <<locks, entry, state, stacks, edits>>

-----------------------------------------------------------------------------
Init ==
  /\ lock = [h \in Launchers |-> NoThread]
  /\ buildThread = [h \in Launchers |-> NoThread]
  /\ held = [t \in Threads |-> 0]
  /\ entry = [h \in Launchers |-> "shim"]
  /\ options \in [Launchers -> {[edits |-> {}, delayed |-> d] : d \in BOOLEAN}]
  /\ state = [h \in Launchers |-> NoOptions]
  /\ compileState = [h \in Launchers |-> FALSE]
  /\ frame = [t \in Threads |-> [d \in 1 .. MaxDepth |-> NoFrame]]
  /\ depth = [t \in Threads |-> 0]
  /\ edits = 0

LockStep(t) == LockRefused(t) \/ LockTaken(t) \/ LockBusy(t)
BodyStep(t) == BodyNotNeeded(t) \/ BodyReads(t) \/ CheckPasses(t) \/ EditStored(t)
BuildStep(t) == \/ InitState(t) \/ StoreCompileState(t) \/ PublishOptions(t)
                \/ SwapEntry(t) \/ BuildUnlocks(t)

(* Steps the thread takes on its own; the rest are the scheduler's grant   *)
(* of a lock, the user's `delayed` returning, and failures.                *)
OwnStep(t) == Enter(t) \/ LockStep(t) \/ BodyStep(t) \/ BuildStep(t) \/ Launch(t)

Next ==
  \/ \E t \in Threads, op \in Ops, h \in Launchers : Begin(t, op, h)
  \/ \E t \in Threads : \/ OwnStep(t) \/ LockGranted(t)
                        \/ DelayedReturns(t) \/ BodyFails(t)
  \/ \E h \in Launchers : ClearState(h) \/ ClearRest(h)

Spec == Init /\ [][Next]_vars

(* The `delayed` of the frame at depth d returns or raises. *)
DelayedEnds(t, d) ==
  /\ depth[t] = d /\ At(t, "delayed")
  /\ DelayedReturns(t) \/ BodyFails(t)

(* A thread that can move does; a free lock is granted in the end to each  *)
(* waiter; a body ends, by its own step or by failing; and each `delayed`  *)
(* returns or raises, however many operations it starts first.             *)
Fairness ==
  \A t \in Threads :
    /\ WF_vars(OwnStep(t) \/ (BodyFails(t) /\ At(t, "body")))
    /\ SF_vars(LockGranted(t))
    /\ \A d \in 1 .. MaxDepth : SF_vars(DelayedEnds(t, d))

FairSpec == Spec /\ Fairness
=============================================================================
