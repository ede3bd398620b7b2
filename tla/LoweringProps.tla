---------------------------- MODULE LoweringProps ----------------------------
(* What the emitted C owes the Python function it stands for.              *)
EXTENDS Lowering

(* C has Python's value, of Python's kind; it raises where Python raises,  *)
(* and where an int left int64 or an argument is one intj does not take.   *)
Same(o) == IF IsVal(o.py) THEN o.c = o.py ELSE o.c = Raise

(* A kind known from the syntax is the kind of the value the C computes.   *)
KindTrue(o) == IsVal(o.c) /\ o.kind # "any" => o.c.b = (o.kind = "bool")

(* A grid, whatever is baked into it, or a heuristic that has read no baked *)
(* int outside int64, which heuristic.py:318 does not refuse.               *)
WithinInt64 == lowering = "grid" \/ ~wide

(* Every expression of every supported node, at any nesting: overflow,     *)
(* division, rounding, an operand not evaluated, a kind carried to where   *)
(* the kernel is keyed.                                                    *)
LoweredAgrees ==
    WithinInt64 => /\ \A i \in DOMAIN stack : Same(stack[i]) /\ KindTrue(stack[i])
                   /\ \A i \in DOMAIN local : Same(local[i])

(* What leaves the evaluator: a dimension the driver is handed is Python's *)
(* and fits 32 bits, and a call fails only where Python's does or where    *)
(* intj says it refuses.                                                   *)
HandedOnAgrees ==
    WithinInt64 => \A i \in DOMAIN out : /\ Same(out[i])
                                         /\ IsVal(out[i].c) => out[i].c.v \in 0 .. DimMax

(* The miss path's "The lowering must agree with Triton's own evaluation,  *)
(* kind included": where Python's result is an int64 or a bool, the slot a *)
(* kernel is keyed by holds it, whatever ints the heuristic read.          *)
ComputedIsTritons ==
    lowering = "heuristic" =>
        \A i \in DOMAIN local :
            IsVal(local[i].py) /\ InWidth(local[i].py.v) => local[i].c = local[i].py
=============================================================================
