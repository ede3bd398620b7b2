---------------------------- MODULE MCTunedLaunch ----------------------------
(* Every chain of at most MaxLayers small layers is planned.  The chains of    *)
(* Launched are launched, too: one whose heuristic reads the config that was  *)
(* tuned, one whose tuner keys on a heuristic, one without a tuner, and one   *)
(* of three levels.                                                           *)
EXTENDS TunedLaunchProps, TLC

CONSTANT MaxLayers

(* a and b are runtime parameters, M and h tl.constexpr, and g and x are options. *)
MCNames == {"a", "b", "M", "h", "g", "x"}
MCParams == {"a", "b", "M", "h"}
MCConstexpr == {"M", "h"}

Entry(name, reads) == [name |-> name, reads |-> reads]
Tuner(keys, names) ==
    [tuner |-> TRUE, keys |-> keys, entries |-> [i \in DOMAIN names |-> Entry(names[i], {})]]
Heuristics(entries) == [tuner |-> FALSE, keys |-> {}, entries |-> entries]

SmallLayers ==
    {Tuner(keys, <<"M">>) : keys \in SUBSET {"a", "h"}}
    \cup {Heuristics(<<Entry(name, reads)>>) :
              name \in {"h", "g"}, reads \in UNION {kSubset(k, MCNames \ {"x"}) : k \in 0 .. 2}}

(* Two heuristics of one layer, alone or within a tuner. *)
Reads2 == {{}, {"b"}, {"M"}, {"h"}, {"g"}, {"b", "M"}, {"b", "h"}, {"b", "g"}}
Pairs == {Heuristics(<<Entry("g", r1), Entry("h", r2)>>) : r1, r2 \in Reads2}

PlannedLayers ==
    UNION {[1 .. n -> SmallLayers] : n \in 1 .. MaxLayers}
    \cup {<<pair>> : pair \in Pairs}
    \cup {<<Tuner(keys, <<"M">>), pair>> : keys \in SUBSET {"a", "h"}, pair \in Pairs}

Planned == {[layers |-> layers, grid |-> {}, varies |-> {}, depth |-> 0] : layers \in PlannedLayers}

Launched ==
    {[layers |-> <<Tuner({"a"}, <<"M">>), Heuristics(<<Entry("h", {"b", "M"})>>)>>,
      grid |-> {"M"}, varies |-> {"b"}, depth |-> 2],
     [layers |-> <<Heuristics(<<Entry("h", {"b"}), Entry("g", {"h"})>>), Tuner({"a", "h"}, <<"M">>)>>,
      grid |-> {"M", "g"}, varies |-> {"a", "b"}, depth |-> 1],
     [layers |-> <<Heuristics(<<Entry("h", {"a", "b"}), Entry("g", {"h"})>>)>>,
      grid |-> {}, varies |-> {"a", "b"}, depth |-> 1],
     [layers |-> <<Tuner({"a"}, <<"M">>), Heuristics(<<Entry("h", {"b", "M"}), Entry("g", {"h"}),
                                                      Entry("x", {"b", "g"})>>)>>,
      grid |-> {"g"}, varies |-> {"b"}, depth |-> 1]}

MCChains == Planned \cup Launched
Symmetry == Permutations(Threads)
=============================================================================
