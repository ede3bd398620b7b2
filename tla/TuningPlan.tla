----------------------------- MODULE TuningPlan -----------------------------
(* What every name of a chain of autotune and heuristics layers becomes:      *)
(* analyze, plan_tuning and tuning_render of src/intj/tuning.py.  A name is   *)
(* dependent, fixed by the keys at or below a level and stored in that        *)
(* level's record, or computed, a key itself, evaluated in C before its       *)
(* level is looked up.                                                        *)
(*                                                                            *)
(* A chain is a sequence of layers, the outermost first.  A layer assigns     *)
(* names, in order, each from what it reads: a tuner's configs from its keys, *)
(* and each heuristic of the other kind of layer from its inputs.             *)
EXTENDS Naturals, SequencesExt, FiniteSetsExt

CONSTANTS
    Names,      \* every name a chain mentions
    Params,     \* the kernel's parameters, and of them
    Constexpr,  \* those that are tl.constexpr,
    Fixed       \* and those that are baked into the module

ASSUME ParamsAssumption == Constexpr \subseteq Params /\ Fixed \subseteq Params /\ Params \subseteq Names

Assigns(layer) == {layer.entries[j].name : j \in DOMAIN layer.entries}

(* inner_assigned: an outer layer runs first, and cannot read these. *)
InnerAssigned(layers, i) == UNION {Assigns(layers[j]) : j \in i + 1 .. Len(layers)}

(* info, and what is collected beside it. *)
Start ==
    [exact |-> Constexpr \cup Fixed,
     level |-> [n \in Names |-> 0],     \* an exact name's key level, or its record's
     known |-> [n \in Names |-> 0],     \* the lookups after which C can read it
     assigned |-> {}, exactKeys |-> {}, computed |-> <<>>, refused |-> FALSE]

Highest(f, names) == Max({0} \cup {f[n] : n \in names})

RefuseIf(plan, condition) == [plan EXCEPT !.refused = @ \/ condition]

(* A name is assigned once, and no runtime parameter is tuned. *)
Assign(plan, name, level, known) ==
    [RefuseIf(plan, name \in plan.assigned \/ name \in Params \ Constexpr) EXCEPT
        !.assigned = @ \cup {name}, !.exact = @ \cup {name},
        !.level[name] = level, !.known[name] = known]

(* What an autotune layer keys on is keyed by value from now on, at the level *)
(* where it is known.                                                         *)
Promote(plan, keys) ==
    LET promoted == keys \ plan.exact
    IN  [plan EXCEPT !.exact = @ \cup promoted, !.exactKeys = @ \cup promoted,
            !.level = [n \in Names |-> IF n \in promoted THEN plan.known[n] ELSE @[n]]]

Autotuned(plan, layer, inner) ==
    LET keys == layer.keys \cap Params
        keyed == Promote(RefuseIf(plan, keys \cap inner # {}), keys)
        level == Highest(keyed.level, keys)
    IN  FoldLeft(LAMBDA p, e : Assign(p, e.name, level, level + 1), keyed, layer.entries)

(* A likely slip: the level where the inputs are keyed, not where C knows them. *)
HeuristicKeyed(plan, e, inner) ==
    LET checked == RefuseIf(plan, \/ e.reads \cap inner # {}
                                  \/ ~ e.reads \subseteq Params \cup plan.assigned
                                  \/ e.name \in e.reads)
        level == Highest(plan.level, e.reads)
    IN  IF e.reads \subseteq plan.exact
        THEN Assign(checked, e.name, level, level + 1)
        ELSE [Assign(checked, e.name, level, level) EXCEPT
                 !.computed = Append(@, [name |-> e.name, level |-> level, reads |-> e.reads])]

(* A heuristic of exact inputs depends on their keys; any other is a key,     *)
(* evaluated once all its inputs are known.                                   *)
HeuristicRole(plan, e, inner) ==
    LET checked == RefuseIf(plan, \/ e.reads \cap inner # {}
                                  \/ ~ e.reads \subseteq Params \cup plan.assigned
                                  \/ e.name \in e.reads)
        level == Highest(plan.level, e.reads)
        known == Highest(plan.known, e.reads)
    IN  IF e.reads \subseteq plan.exact
        THEN Assign(checked, e.name, level, level + 1)
        ELSE [Assign(checked, e.name, known, known) EXCEPT
                 !.computed = Append(@, [name |-> e.name, level |-> known, reads |-> e.reads])]

analyze(layers) ==
    FoldLeft(LAMBDA plan, i :
                 IF layers[i].tuner THEN Autotuned(plan, layers[i], InnerAssigned(layers, i))
                 ELSE FoldLeft(LAMBDA p, e : HeuristicRole(p, e, InnerAssigned(layers, i)),
                               plan, layers[i].entries),
             Start, [i \in DOMAIN layers |-> i])

Computed(plan) == {c.name : c \in ToSet(plan.computed)}
Dependent(plan) == plan.assigned \ Computed(plan)
Levels(plan) == 1 + Max({0} \cup {c.level : c \in ToSet(plan.computed)})

-----------------------------------------------------------------------------
(* tuning_render: what C computes and stores, level by level.                 *)

ComputedAt(plan, level) == SelectSeq(plan.computed, LAMBDA c : c.level = level)
Reads(plan) == UNION {c.reads : c \in ToSet(plan.computed)}

(* The dependent values C reads, in a heuristic or in grid_cpp. *)
DepNames(plan, gridReads) == (Reads(plan) \cup gridReads) \cap Dependent(plan)
DepsAt(plan, gridReads, level) == {n \in DepNames(plan, gridReads) : plan.level[n] = level}

(* The plan is refused by analyze, or for a read that grid_cpp cannot have. *)
Accepted(plan, gridReads) == ~plan.refused /\ gridReads \cap Computed(plan) = {}

(* "before it is known; this is an intj bug": the launcher is not made, either. *)
ReadTooEarly(plan) ==
    \E c \in ToSet(plan.computed) : \E n \in c.reads \cap Dependent(plan) : plan.level[n] >= c.level
=============================================================================
