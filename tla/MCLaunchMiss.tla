---------------------------- MODULE MCLaunchMiss ----------------------------
EXTENDS LaunchMissProps, TLC

CONSTANTS p1, p2

(* A part that leaves open which input a call has, and one that does not;  *)
(* the two share an input, as two integers of one specialization do.       *)
Drift(p) == IF p = p1 THEN Sources ELSE {CHOOSE s \in Sources : TRUE}
AnySource(p) == Sources
Symmetry == Permutations(Threads)
=============================================================================
