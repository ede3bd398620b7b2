------------------------------ MODULE MCLowering ------------------------------
(* A 4-bit machine: int64 is -8..7, uint64 0..15, a dimension at most 3.     *)
EXTENDS LoweringProps

MCIntMin == -8
MCLiterals == {-8, -1, 0, 1, 2, 3, 7}
MCBaked == {-8, 3, 8, 15}

(* A heuristic is followed until it reads a baked int outside int64: neither *)
(* invariant of MCLowering.cfg says anything of what comes after.            *)
UntilWide == WithinInt64
=============================================================================
