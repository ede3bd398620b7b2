---------------------------- MODULE TunedLaunch ----------------------------
(* One launcher of an autotune and heuristics chain: TunedCompileState and    *)
(* _Shim of src/intj/tuning.py, and the walk and the fill of                  *)
(* src/intj/render/entry.c.jinja, level by level as TuningPlan laid it out.   *)
(* Level 0 is keyed by the spec key and the heuristics of level 0, each later *)
(* level by its heuristics, which C evaluates from the call's arguments and   *)
(* from what the records of the levels above it store.  A miss runs the       *)
(* private chain, and user code the chain runs may call the launcher.         *)
(*                                                                            *)
(* Every value is 0 or 1.  A heuristic is the parity of what it reads, so     *)
(* that it depends on each; a config gives its one value to every name that   *)
(* the tuner assigns.  A chain that is launched has at most one tuner.        *)
EXTENDS TuningPlan

CONSTANTS
    Threads,
    Chains,     \* [layers, grid: what grid_cpp reads, and of the calls: varies, the
                \* arguments that are not always 0, depth, of one thread's stack]
    None

ASSUME ChainsAssumption == \A c \in Chains : c.depth \in Nat

Vals == {0, 1}

VARIABLES
    kernel,     \* the chain, one of Chains,
    plan,       \* and what analyze made of it
    stack,      \* each thread's calls, the innermost last
    owner,      \* who holds TunedCompileState.lock,
    count,      \* and how often
    running,
    mine,       \* the running miss's ranges and call_knobs: whose they are
    final,      \* _Shim.final
    chain,      \* the private Autotuner's cache: the config of each key
    rec         \* the records, by the path of keys that leads to each

tunedVars == <<kernel, plan, stack, owner, count, running, mine, final, chain, rec>>
runVars == <<owner, count, running, mine, final>>
made == <<kernel, plan>>

-----------------------------------------------------------------------------
(* What Triton makes of the arguments.                                        *)

Public == Params \ (plan.assigned \cup Fixed)
Args == {args \in [Public -> Vals] : \A n \in Public \ kernel.varies : args[n] = 0}

(* The values C, or Triton, starts from; 0 is also what is not known yet. *)
Given(args) == [n \in Names |-> IF n \in DOMAIN args THEN args[n] ELSE 0]

Heuristic(h, env) == MapThenSumSet(LAMBDA n : env[n], h.reads) % 2

Evaluate(layers, args, config) ==
    FoldLeft(LAMBDA env, layer :
                 FoldLeft(LAMBDA v, e : [v EXCEPT ![e.name] = IF layer.tuner THEN config
                                                              ELSE Heuristic(e, v)],
                          env, layer.entries),
             Given(args), layers)

(* The tuner's keys, and their values when the layers outside it have run. *)
Outside == SelectInSeq(kernel.layers, LAMBDA layer : layer.tuner) - 1
HasTuner == \E i \in DOMAIN kernel.layers : kernel.layers[i].tuner
TunerKeys == IF HasTuner THEN kernel.layers[Outside + 1].keys \cap Params ELSE {}
TunerKey(args) ==
    LET env == Evaluate(IF HasTuner THEN SubSeq(kernel.layers, 1, Outside) ELSE <<>>, args, 0)
    IN  [n \in TunerKeys |-> env[n]]

(* What Triton compiles for these arguments under this config. *)
Kernel(args, config) ==
    LET env == Evaluate(kernel.layers, args, config)
    IN  [n \in plan.assigned \cup Constexpr |-> env[n]]

-----------------------------------------------------------------------------
(* The keys of the levels, as C evaluates them.                               *)

(* A likely slip: the autotune key is specialized on, not keyed exactly. *)
SpecKeyCoarse(args) == [n \in Public \cap Constexpr |-> args[n]]

SpecKey(args) == [n \in Public \cap plan.exact |-> args[n]]

(* intj_tuned_level_<n>: the level's heuristics, in the order of their slots. *)
ComputeLevel(env, level) ==
    FoldLeft(LAMBDA v, c : [v EXCEPT ![c.name] = Heuristic(c, v)], env, ComputedAt(plan, level))

LevelKey(args, env, level) ==
    <<IF level = 0 THEN SpecKey(args) ELSE None,
      [n \in {c.name : c \in ToSet(ComputedAt(plan, level))} |-> env[n]]>>

Frame(args) ==
    [at |-> "walk", args |-> args, env |-> Given(args), path |-> <<>>, config |-> None, out |-> None]
Missed(f) == [Frame(f.args) EXCEPT !.at = "miss"]

TunedInit ==
    /\ kernel \in Chains
    /\ plan = analyze(kernel.layers)
    /\ stack = [t \in Threads |-> <<>>]
    /\ owner = None /\ count = 0 /\ running = FALSE
    /\ mine = None /\ final = None
    /\ chain = [k \in [TunerKeys -> Vals] |-> IF HasTuner THEN None ELSE 0]
    /\ rec = <<>>

Top(t) == Last(stack[t])
TopAt(t, here) == stack[t] # <<>> /\ Top(t).at = here
Becomes(t, frame) == stack' = [stack EXCEPT ![t] = Front(@) \o <<frame>>]
TopGoes(t, there) == Becomes(t, [Top(t) EXCEPT !.at = there])
Pop(t) == stack' = [stack EXCEPT ![t] = Front(@)]

-----------------------------------------------------------------------------
(* The launch path.                                                           *)

(* User code runs between candidates, in the final launch's grid, and in the  *)
(* grid of a hit; it may call the launcher again.                             *)
RunsUserCode(t) == \E here \in {"bench", "launch", "hit"} : TopAt(t, here)

Call(t, args) ==
    /\ Accepted(plan, kernel.grid) /\ ~ReadTooEarly(plan)
    /\ Len(stack[t]) < kernel.depth
    /\ stack[t] # <<>> => RunsUserCode(t)
    /\ stack' = [stack EXCEPT ![t] = Append(@, Frame(args))]
    /\ UNCHANGED <<made, runVars, chain, rec>>

(* One level: its heuristics are evaluated unlocked, then it is looked up     *)
(* under the read lock; a record that is not final never moves.               *)
Walk(t) ==
    /\ TopAt(t, "walk")
    /\ LET f == Top(t)
           level == Len(f.path)
           env == ComputeLevel(f.env, level)
           path == Append(f.path, LevelKey(f.args, env, level))
       IN  IF path \notin DOMAIN rec THEN Becomes(t, Missed(f))
           ELSE Becomes(t, [f EXCEPT !.env = [n \in Names |->
                                IF n \in DOMAIN rec[path].dep THEN rec[path].dep[n] ELSE env[n]],
                              !.path = path,
                              !.at = IF level + 1 = Levels(plan) THEN "hit" ELSE "walk",
                              !.out = rec[path].out])
    /\ UNCHANGED <<made, runVars, chain, rec>>

(* A heuristic, the grid or the launch may raise, too. *)
Return(t) ==
    /\ \E here \in {"walk", "hit", "done", "mismatch"} : TopAt(t, here)
    /\ Pop(t)
    /\ UNCHANGED <<made, runVars, chain, rec>>

-----------------------------------------------------------------------------
(* The miss: TunedCompileState.run, under a reentrant lock.                   *)

CanLock(t) == owner \in {None, t}

Release ==
    /\ count' = count - 1
    /\ owner' = IF count = 1 THEN None ELSE owner

(* A likely slip: the refusal is inside the try whose finally ends a run. *)
RefuseInTry(t) ==
    /\ TopAt(t, "miss") /\ CanLock(t) /\ running
    /\ Pop(t)
    /\ running' = FALSE /\ mine' = None
    /\ UNCHANGED <<made, owner, count, final, chain, rec>>

Refuse(t) ==
    /\ TopAt(t, "miss") /\ CanLock(t) /\ running
    /\ Pop(t)
    /\ UNCHANGED <<made, runVars, chain, rec>>

(* _tune begins: the shim is reset, and the miss's knobs and ranges are set. *)
Run(t) ==
    /\ TopAt(t, "miss") /\ CanLock(t) /\ ~running
    /\ owner' = t /\ count' = count + 1 /\ running' = TRUE
    /\ mine' = Top(t).args /\ final' = None
    /\ TopGoes(t, "chain")
    /\ UNCHANGED <<made, chain, rec>>

(* The Autotuner knows this key. *)
Known(t) ==
    /\ TopAt(t, "chain") /\ chain[TunerKey(Top(t).args)] # None
    /\ TopGoes(t, "launch")
    /\ UNCHANGED <<made, runVars, chain, rec>>

(* The shim compiles one call with the run's knobs and ranges, and records it. *)
Shim(t, config) ==
    final' = [args |-> Top(t).args, under |-> mine, config |-> config]

Candidate(t) ==
    /\ TopAt(t, "chain") \/ TopAt(t, "bench")
    /\ chain[TunerKey(Top(t).args)] = None
    /\ \E config \in Vals : Shim(t, config)
    /\ TopGoes(t, "bench")
    /\ UNCHANGED <<made, owner, count, running, mine, chain, rec>>

(* Whichever config measured fastest. *)
Pick(t) ==
    /\ TopAt(t, "bench")
    /\ \E config \in Vals : chain' = [chain EXCEPT ![TunerKey(Top(t).args)] = config]
    /\ TopGoes(t, "launch")
    /\ UNCHANGED <<made, runVars, rec>>

Launch(t) ==
    /\ TopAt(t, "launch")
    /\ Shim(t, chain[TunerKey(Top(t).args)])
    /\ TopGoes(t, "record")
    /\ UNCHANGED <<made, owner, count, running, mine, chain, rec>>

(* A likely slip: the clean-up empties the Autotuner's cache, too. *)
CleanUpAll ==
    /\ running' = FALSE /\ mine' = None /\ final' = None
    /\ chain' = [k \in DOMAIN chain |-> IF HasTuner THEN None ELSE 0]
    /\ Release

(* The two finally blocks: what the run set is cleared, its cache is kept. *)
CleanUp ==
    /\ running' = FALSE /\ mine' = None /\ final' = None
    /\ UNCHANGED chain
    /\ Release

(* The record is made of the shim's last call. *)
Record(t) ==
    /\ TopAt(t, "record") /\ final # None
    /\ Becomes(t, [Top(t) EXCEPT !.at = "fill", !.config = final.config,
                     !.out = IF final.under = final.args
                             THEN Kernel(final.args, final.config) ELSE None])
    /\ CleanUp
    /\ UNCHANGED <<made, rec>>

(* split_call, a candidate, a hook, the launch or the record raises. *)
RunFails(t) ==
    /\ \E here \in {"chain", "bench", "launch", "record"} : TopAt(t, here)
    /\ Pop(t)
    /\ CleanUp
    /\ UNCHANGED <<made, rec>>

-----------------------------------------------------------------------------
(* The fill, under the write lock: what is missing is put, what is there must *)
(* agree, and a disagreeing parent gets no child.                             *)

(* The run's values as C holds them: the dependent ones handed over, and the  *)
(* heuristics evaluated again.                                                *)
Filled(f) ==
    LET triton == Evaluate(kernel.layers, f.args, f.config)
        dep == DepNames(plan, kernel.grid)
        given == [n \in Names |-> IF n \in dep THEN triton[n] ELSE f.env[n]]
    IN  FoldLeft(LAMBDA env, i : ComputeLevel(env, i - 1), given, [i \in 1 .. Levels(plan) |-> i])

PathTo(f, level) == [i \in 1 .. level + 1 |-> LevelKey(f.args, Filled(f), i - 1)]

Fresh(f, level) ==
    [dep |-> [n \in DepsAt(plan, kernel.grid, level) |-> Filled(f)[n]],
     out |-> IF level + 1 = Levels(plan) THEN f.out ELSE None]

(* The records of the first n levels that are not there yet. *)
Put(f, n) ==
    LET missing == {PathTo(f, level) : level \in 0 .. n - 1} \ DOMAIN rec
    IN  rec' = [path \in DOMAIN rec \cup missing |->
                    IF path \in missing THEN Fresh(f, Len(path) - 1) ELSE rec[path]]

Disagrees(f) ==
    \/ \E c \in ToSet(plan.computed) :
          Filled(f)[c.name] # Evaluate(kernel.layers, f.args, f.config)[c.name]
    \/ \E level \in 0 .. Levels(plan) - 1 :
          LET path == PathTo(f, level)
          IN  path \in DOMAIN rec /\ rec[path].dep # Fresh(f, level).dep

Fill(t) ==
    /\ TopAt(t, "fill")
    /\ IF Disagrees(Top(t))
       THEN TopGoes(t, "mismatch") /\ UNCHANGED rec
       ELSE TopGoes(t, "done") /\ Put(Top(t), Levels(plan))
    /\ UNCHANGED <<made, runVars, chain>>

(* Memory runs out before the put of some level. *)
FillFails(t) ==
    /\ TopAt(t, "fill")
    /\ ~Disagrees(Top(t))
    /\ \E n \in 0 .. Levels(plan) - 1 :
          PathTo(Top(t), n) \notin DOMAIN rec /\ Put(Top(t), n)
    /\ Pop(t)
    /\ UNCHANGED <<made, runVars, chain>>

-----------------------------------------------------------------------------
TunedNext ==
    \E t \in Threads :
        \/ \E args \in Args : Call(t, args)
        \/ Walk(t) \/ Return(t)
        \/ Refuse(t) \/ Run(t)
        \/ Known(t) \/ Candidate(t) \/ Pick(t) \/ Launch(t) \/ Record(t) \/ RunFails(t)
        \/ Fill(t) \/ FillFails(t)

TunedSpec == TunedInit /\ [][TunedNext]_tunedVars
=============================================================================
