-------------------------- MODULE TunedLaunchProps --------------------------
(* What a launcher of a tuning chain promises.                                *)
EXTENDS TunedLaunch, FiniteSets

InRun == {"chain", "bench", "launch", "record"}
Frames == {fr \in Threads \X (1 .. kernel.depth) : fr[2] <= Len(stack[fr[1]])}
FrameAt(fr) == stack[fr[1]][fr[2]]
Runs == {fr \in Frames : FrameAt(fr).at \in InRun}

(* The private chain and its shim serve one miss at a time, although user     *)
(* code may call the launcher while it tunes, and the one miss is the one     *)
(* whose knobs and ranges its candidates compile with.                        *)
RunsAlone ==
    /\ Cardinality(Runs) <= 1
    /\ running <=> Runs # {}
    /\ \A fr \in Runs : owner = fr[1] /\ mine = FrameAt(fr).args

(* A call that returns launched what Triton's own chain launches for its      *)
(* arguments, the config tuned for its key and the heuristics' values for     *)
(* that config, whether it hit, missed, or lost the race to fill; and on a    *)
(* hit grid_cpp was given those values, too.                                  *)
AsTuned ==
    \A fr \in Frames :
        LET f == FrameAt(fr)
            config == chain[TunerKey(f.args)]
        IN  /\ f.at \in {"hit", "done"} => f.out = Kernel(f.args, config)
            /\ f.at = "hit" =>
                  \A n \in kernel.grid : f.env[n] = Evaluate(kernel.layers, f.args, config)[n]

(* No two runs for one key record different values, and no heuristic that C   *)
(* evaluates differs from Triton's: the errors the fill has for these are     *)
(* intj bugs, as their messages say.                                          *)
NoMismatch == \A fr \in Frames : FrameAt(fr).at # "mismatch"

-----------------------------------------------------------------------------
(* Triton can run the chain: what a heuristic reads is the caller's, or is    *)
(* assigned before it runs.                                                   *)
Entries == FlattenSeq([i \in DOMAIN kernel.layers |-> kernel.layers[i].entries])
Runnable ==
    /\ \A i \in DOMAIN Entries :
          Entries[i].reads \cap plan.assigned \subseteq {Entries[j].name : j \in 1 .. i - 1}
    /\ \A i \in DOMAIN kernel.layers : kernel.layers[i].tuner =>
          kernel.layers[i].keys \cap Assigns(kernel.layers[i]) = {}

(* The names whose values are fixed by the keys of the levels up to this one, *)
(* whatever functions the heuristics and the tuners are.                      *)
Settled(level) ==
    LET keyed == Fixed \cup (Public \cap plan.exact)
                 \cup {c.name : c \in {d \in ToSet(plan.computed) : d.level <= level}}
    IN  FoldLeft(LAMBDA known, layer :
                     FoldLeft(LAMBDA k, e :
                                  IF (IF layer.tuner THEN layer.keys \cap Params ELSE e.reads) \subseteq k
                                  THEN k \cup {e.name} ELSE k,
                              known, layer.entries),
                 keyed, kernel.layers)

(* Every plan of such a chain reads what it knows and stores what is fixed:   *)
(* the refusal for a read that comes too early is never met, and any other    *)
(* that C evaluates is the caller's or in an earlier slot; and what a record  *)
(* stores is one value for all the calls that reach the record.               *)
LevelsRight ==
    Accepted(plan, kernel.grid) /\ Runnable =>
        /\ ~ReadTooEarly(plan)
        /\ \A n \in Dependent(plan) : plan.level[n] < Levels(plan) /\ n \in Settled(plan.level[n])
        /\ \A i \in DOMAIN plan.computed : \A n \in plan.computed[i].reads :
              \/ n \in Public \cup Fixed
              \/ n \in Dependent(plan)
              \/ \E j \in DOMAIN plan.computed :
                    /\ plan.computed[j].name = n
                    /\ \/ plan.computed[j].level < plan.computed[i].level
                       \/ plan.computed[j].level = plan.computed[i].level /\ j < i
=============================================================================
