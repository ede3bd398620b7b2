----------------------------- MODULE LaunchMiss -----------------------------
(***************************************************************************)
(* The launch of a built launcher and its miss: intj_walk, intj_fill and   *)
(* intj_call of src/intj/render/entry.c.jinja, and KernelCompiler of       *)
(* src/intj/compiler.py.                                                   *)
(*                                                                         *)
(* Threads launch concurrently.  A hit launches from the cache under the   *)
(* read lock.  A miss compiles with no launcher lock held, but under the   *)
(* compiler's own reentrant lock: what Triton runs to compile may launch   *)
(* the same launcher again, so a thread has a stack of calls; then it puts *)
(* the record and walks again.  The cache is a dictionary here: KernelMap  *)
(* shows that it is one.                                                   *)
(***************************************************************************)
EXTENDS Integers, Sequences, FiniteSets

CONSTANTS
  Threads,        (* the threads that launch                               *)
  Devices,        (* device ordinals                                       *)
  Knobs,          (* values of a knob that dynamic_options declares        *)
  Parts,          (* what else a spec key has in it                        *)
  Sources,        (* compiler inputs                                       *)
  SourcesOf(_),   (* part -> the inputs that calls with that part have     *)
  MaxDepth,       (* bound: calls on one thread's stack                    *)
  MaxLoads,       (* bound: compiles in a behaviour                        *)
  NoThread,       (* nobody holds the compiler's lock                      *)
  NoSource        (* a part that no miss has recorded an input for         *)

NoKernel == 0

ASSUME BoundsNat == MaxDepth \in Nat \ {0} /\ MaxLoads \in Nat
ASSUME NoThreadNew == NoThread \notin Threads
ASSUME NoSourceNew == NoSource \notin Sources
ASSUME PartsHaveSources == \A p \in Parts : SourcesOf(p) \in (SUBSET Sources) \ {{}}

VARIABLES
  returnCompiled, (* the launcher's option: records own their kernel; fixed *)
  device,   (* t -> the thread's current device                            *)
  knob,     (* the knob's live value                                       *)
  cache,    (* spec key -> the kernel its record points to, or NoKernel    *)
  seen,     (* spec key -> the input its first miss had (KernelCompiler)   *)
  compiled, (* compile key -> the kernel in KernelCompiler._compiled       *)
  kernels,  (* what was loaded: kernel n is kernels[n]                     *)
  owner,    (* the thread that holds KernelCompiler._lock, or NoThread     *)
  count,    (* how often it does                                           *)
  stack     (* t -> the calls it is inside of, innermost last              *)

ambient  == <<returnCompiled, device, knob>>
compiler == <<seen, compiled, kernels, owner, count>>
vars     == <<ambient, cache, compiler, stack>>

(* A spec key holds the device, the dynamic values and the rest. *)
SpecKeys == [part : Parts, dev : Devices, knob : Knobs]

(* What a kernel is compiled from, and what it is compiled once for:       *)
(* _Identity and the current device.                                       *)
Binaries == [src : Sources, dev : Devices, knob : Knobs]

Range1(f) == {f[x] : x \in DOMAIN f}

-----------------------------------------------------------------------------
Active(t) == stack[t] # <<>>
Top(t)    == stack[t][Len(stack[t])]
At(t, pc) == Active(t) /\ Top(t).pc = pc
Goto(t, pc) == stack' = [stack EXCEPT ![t][Len(stack[t])].pc = pc]
GotWith(t, pc, n) == stack' = [stack EXCEPT ![t][Len(stack[t])].pc = pc,
                                            ![t][Len(stack[t])].kernel = n]
Return(t) == stack' = [stack EXCEPT ![t] = SubSeq(@, 1, Len(@) - 1)]

Frames == UNION {Range1(stack[t]) : t \in Threads}
(* Calls whose thread is inside intj_fill, before it put the record. *)
Missing == {c \in Frames : c.pc \in {"check", "lock", "load", "fill"}}

-----------------------------------------------------------------------------
(* The user: launches, at top level or from what a compile runs; makes     *)
(* another device current; changes the knob, but not while a miss is       *)
(* running (docs/Usage.md).                                                *)

Call(t, k, src) ==
  /\ Len(stack[t]) < MaxDepth
  /\ Active(t) => Top(t).pc = "load"
  /\ src \in SourcesOf(k.part)
  /\ stack' = [stack EXCEPT ![t] =
                 Append(@, [key |-> k, src |-> src, pc |-> "walk", kernel |-> NoKernel])]
  /\ UNCHANGED <<ambient, cache, compiler>>

SetDevice(t, d) ==
  /\ ~Active(t) /\ d # device[t]
  /\ device' = [device EXCEPT ![t] = d]
  /\ UNCHANGED <<returnCompiled, knob, cache, compiler, stack>>

SetKnob(v) ==
  /\ Missing = {} /\ v # knob
  /\ knob' = v
  /\ UNCHANGED <<returnCompiled, device, cache, compiler, stack>>

-----------------------------------------------------------------------------
(* The walk and the launch (intj_walk, intj_call) *)

(* A hit keeps the read lock through the launch. *)
WalkHits(t) ==
  /\ At(t, "walk") /\ cache[Top(t).key] # NoKernel
  /\ GotWith(t, "launch", cache[Top(t).key])
  /\ UNCHANGED <<ambient, cache, compiler>>

WalkMisses(t) ==
  /\ At(t, "walk") /\ cache[Top(t).key] = NoKernel
  /\ Goto(t, "check")
  /\ UNCHANGED <<ambient, cache, compiler>>

Launch(t) ==
  /\ At(t, "launch")
  /\ Return(t)
  /\ UNCHANGED <<ambient, cache, compiler>>

-----------------------------------------------------------------------------
(* The miss (KernelCompiler.miss, split_call, compile_miss) *)

(* Mutant of Launchable: the knob is not compared with its live value. *)
LaunchableAnyKnob(t) == Top(t).key.dev = device[t]

Launchable(t) == Top(t).key.dev = device[t] /\ Top(t).key.knob = knob

(* The device is not the current one, or the knob not the live one. *)
Refuse(t) ==
  /\ At(t, "check") /\ ~Launchable(t)
  /\ Return(t)
  /\ UNCHANGED <<ambient, cache, compiler>>

(* Mutant of SameInput: one key may compile two inputs. *)
SameInputUnchecked(t) == TRUE

(* seen.setdefault(keyblob, identity) == identity *)
SameInput(t) == seen[Top(t).key] \in {NoSource, Top(t).src}

RefuseInput(t) ==
  /\ At(t, "check") /\ Launchable(t) /\ ~SameInput(t)
  /\ Return(t)
  /\ UNCHANGED <<ambient, cache, compiler>>

Accept(t) ==
  /\ At(t, "check") /\ Launchable(t) /\ SameInput(t)
  /\ seen' = [seen EXCEPT ![Top(t).key] = IF @ = NoSource THEN Top(t).src ELSE @]
  /\ Goto(t, "lock")
  /\ UNCHANGED <<ambient, cache, compiled, kernels, owner, count>>

-----------------------------------------------------------------------------
(* KernelCompiler._compile *)

(* Mutant of CompileKey: the device is left out. *)
CompileKeyNoDevice(t) == [src |-> Top(t).src, dev |-> CHOOSE d \in Devices : TRUE,
                          knob |-> Top(t).key.knob]

CompileKey(t) == [src |-> Top(t).src, dev |-> device[t], knob |-> Top(t).key.knob]

(* Something still refers to kernel n.  Without return_compiled, records   *)
(* hold its function handle but do not own it.                             *)
Owned(n) ==
  \/ \E c \in Frames : c.kernel = n
  \/ IF returnCompiled THEN n \in Range1(cache) ELSE n \in Range1(compiled)

(* _compiled is weak with return_compiled: an entry goes with its kernel. *)
Compiled(key) == IF compiled[key] # NoKernel /\ Owned(compiled[key])
                   THEN compiled[key] ELSE NoKernel

(* Mutant of CanLock: the lock is not reentrant. *)
CanLockOnce(t) == owner = NoThread

CanLock(t) == owner \in {NoThread, t}

(* Mutant of Unlock: the lock is free although an outer compile has it. *)
UnlockFully == count' = 0 /\ owner' = NoThread

Unlock == /\ count' = count - 1
          /\ owner' = IF count = 1 THEN NoThread ELSE owner

(* The lock is taken and, the kernel being there, given back at once. *)
Reuse(t) ==
  /\ At(t, "lock") /\ CanLock(t)
  /\ Compiled(CompileKey(t)) # NoKernel
  /\ GotWith(t, "fill", Compiled(CompileKey(t)))
  /\ UNCHANGED <<ambient, cache, compiler>>

StartLoad(t) ==
  /\ At(t, "lock") /\ CanLock(t)
  /\ Compiled(CompileKey(t)) = NoKernel
  /\ owner' = t /\ count' = count + 1
  /\ Goto(t, "load")
  /\ UNCHANGED <<ambient, cache, seen, compiled, kernels>>

(* The compile fails, or its kernel is one intj cannot launch. *)
LoadFails(t) ==
  /\ At(t, "load")
  /\ Unlock
  /\ Return(t)
  /\ UNCHANGED <<ambient, cache, seen, compiled, kernels>>

(* Mutant of Kept: the fresh kernel replaces a nested miss's. *)
KeptFresh(key, fresh) == fresh

(* _compiled.setdefault(key, fresh) *)
Kept(key, fresh) == IF Compiled(key) # NoKernel THEN Compiled(key) ELSE fresh

(* Triton compiles under the live knob and loads on the current device.    *)
LoadReturns(t) ==
  LET fresh == Len(kernels) + 1
      key   == CompileKey(t)
  IN
  /\ At(t, "load")
  /\ fresh <= MaxLoads
  /\ kernels' = Append(kernels, [src |-> Top(t).src, dev |-> device[t], knob |-> knob])
  /\ compiled' = [compiled EXCEPT ![key] = Kept(key, fresh)]
  /\ Unlock
  /\ GotWith(t, "fill", Kept(key, fresh))
  /\ UNCHANGED <<ambient, cache, seen>>

-----------------------------------------------------------------------------
(* The put (intj_fill) *)

(* Mutant of FillFails: the failed put goes unnoticed. *)
FillFailsUnseen(t) ==
  /\ At(t, "fill")
  /\ GotWith(t, "rewalk", NoKernel)
  /\ UNCHANGED <<ambient, cache, compiler>>

(* record() or intj_fill refuses the record, or the map cannot grow. *)
FillFails(t) ==
  /\ At(t, "fill")
  /\ Return(t)
  /\ UNCHANGED <<ambient, cache, compiler>>

(* Under the write lock, which waits for every launch: a record that came  *)
(* meanwhile stays.                                                        *)
Fill(t) ==
  LET key == Top(t).key IN
  /\ At(t, "fill") /\ \A c \in Frames : c.pc # "launch"
  /\ cache' = IF cache[key] = NoKernel THEN [cache EXCEPT ![key] = Top(t).kernel] ELSE cache
  /\ GotWith(t, "rewalk", NoKernel)
  /\ UNCHANGED <<ambient, compiler>>

(* The second walk's result is used unseen. *)
Rewalk(t) ==
  /\ At(t, "rewalk")
  /\ GotWith(t, "launch", cache[Top(t).key])
  /\ UNCHANGED <<ambient, cache, compiler>>

-----------------------------------------------------------------------------
Init ==
  /\ returnCompiled \in BOOLEAN
  /\ device \in [Threads -> Devices] /\ knob \in Knobs
  /\ cache = [k \in SpecKeys |-> NoKernel]
  /\ seen = [k \in SpecKeys |-> NoSource]
  /\ compiled = [b \in Binaries |-> NoKernel]
  /\ kernels = <<>> /\ owner = NoThread /\ count = 0
  /\ stack = [t \in Threads |-> <<>>]

(* Steps the thread takes by itself, and waits for locks. *)
OwnStep(t) == \/ WalkHits(t) \/ WalkMisses(t) \/ Launch(t)
              \/ Refuse(t) \/ RefuseInput(t) \/ Accept(t) \/ Rewalk(t)
TakesLock(t) == Reuse(t) \/ StartLoad(t)

Next ==
  \/ \E t \in Threads, k \in SpecKeys, src \in Sources : Call(t, k, src)
  \/ \E t \in Threads, d \in Devices : SetDevice(t, d)
  \/ \E v \in Knobs : SetKnob(v)
  \/ \E t \in Threads : \/ OwnStep(t) \/ TakesLock(t) \/ LoadFails(t) \/ LoadReturns(t)
                        \/ FillFails(t) \/ Fill(t)

Spec == Init /\ [][Next]_vars

(* The compile of the call at depth d ends. *)
LoadEnds(t, d) == Len(stack[t]) = d /\ (LoadFails(t) \/ LoadReturns(t))

(* A thread that can move does, a lock that is free again and again is     *)
(* granted in the end, and every compile ends, however often it launches.  *)
Fairness ==
  \A t \in Threads : /\ WF_vars(OwnStep(t))
                     /\ SF_vars(TakesLock(t))
                     /\ SF_vars(Fill(t) \/ FillFails(t))
                     /\ \A d \in 1 .. MaxDepth : SF_vars(LoadEnds(t, d))

FairSpec == Spec /\ Fairness
=============================================================================
