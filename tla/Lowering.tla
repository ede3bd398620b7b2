------------------------------- MODULE Lowering -------------------------------
(***************************************************************************)
(* The C that intj emits for a `grid_cpp` function (grid.py) and for a     *)
(* heuristic computed per call (heuristic.py), with the arithmetic both    *)
(* call (intj_runtime.h), run next to the Python it was lowered from.      *)
(*                                                                         *)
(* An evaluation builds its expressions bottom up: each action of a node   *)
(* pops the results of its children from the stack and pushes its own, as  *)
(* computed by the emitted C (c) and by Python (py).  A C result "raise"   *)
(* is the evaluator's `return -1`.                                         *)
(***************************************************************************)
EXTENDS PyScalar, Sequences

CONSTANTS DimMax,           \* 2^32 - 1
          Depth,            \* bound: results on the stack and in the local
          Literals,         \* bound: ints written in the source or tuned, within int64
          Baked             \* bound: ints baked into the launcher, of Triton's domain

(* A literal is checked when it is lowered, a tuned value by c_scalar.  A   *)
(* baked int need only have one of Triton's types, int64 or uint64.         *)
ASSUME LiteralAssumption == Literals \subseteq IntMin .. IntMax
ASSUME BakedAssumption == Baked \subseteq IntMin .. 2 * IntMax + 1
ASSUME DimAssumption == DimMax \in 1 .. IntMax

VARIABLES lowering,         \* "grid" or "heuristic"
          stack,            \* results of the finished subexpressions
          local,            \* <<>> or one result: a grid's local, a comp slot
          out,              \* what the evaluator returned; <<>> while it runs
          wide              \* history: a baked int outside int64 was spelled in C

vars == <<lowering, stack, local, out, wide>>

(* A result: its static kind ("any" where only the run tells), C and Python. *)
GridKinds == {"int", "bool"}
Res(kind, c, py) == [kind |-> kind, c |-> c, py |-> py]

Args == {[t |-> "int", v |-> n] : n \in IntMin - 1 .. IntMax + 1}
          \cup {[t |-> "bool", v |-> n] : n \in 0 .. 1}
          \cup {[t |-> ty, v |-> 0] : ty \in {"none", "tensor", "subclass", "other"}}
Bools == {PyBool(p) : p \in BOOLEAN}
Records == {Val(n, FALSE) : n \in Literals} \cup Bools
Fixed == {Val(n, FALSE) : n \in Baked} \cup Bools
KindOf(r) == IF r.b THEN "bool" ELSE "int"

-----------------------------------------------------------------------------
(* gcc reads a decimal constant beyond int64 as an __int128: it keeps its   *)
(* value where it is compared, and wraps where an int64_t is set from it.   *)
Wrap(n) == IF n > IntMax THEN n - 2 * (IntMax + 1) ELSE n
AsInt64(r) == IF IsVal(r) THEN Val(Wrap(r.v), r.b) ELSE r

(* intj_runtime.h: checked arithmetic.                                      *)

intj_grid_checked(n) == IF InWidth(n) THEN Val(n, FALSE) ELSE Raise

AbsInt(n) == IF n < 0 THEN -n ELSE n
(* C's `/` on __int128: the quotient rounded toward zero. *)
Trunc(n, d) ==
    IF (n < 0) = (d < 0) THEN AbsInt(n) \div AbsInt(d) ELSE -(AbsInt(n) \div AbsInt(d))

(* A likely slip: C's quotient kept as it is, rounded toward zero. *)
FloorTruncated(n, d) == IF d = 0 THEN Raise ELSE intj_grid_checked(Trunc(n, d))
intj_grid_floor128(n, d) ==
    IF d = 0 THEN Raise
    ELSE LET q == Trunc(n, d)
             r == n - q * d
         IN  intj_grid_checked(IF r # 0 /\ (r < 0) # (d < 0) THEN q - 1 ELSE q)

intj_grid_mod(a, b) ==
    LET q == intj_grid_floor128(a, b)
    IN  IF IsVal(q) THEN Val(a - q.v * b, FALSE) ELSE q

intj_grid_next_pow2(n) ==
    IF n = IntMin THEN Raise ELSE intj_grid_checked(Smear(n - 1) + 1)

intj_grid_arith(op, a, b) ==
    IF op = "add" THEN intj_grid_checked(a + b)
    ELSE IF op = "sub" THEN intj_grid_checked(a - b)
    ELSE IF op = "mul" THEN intj_grid_checked(a * b)
    ELSE IF op = "floor" THEN intj_grid_floor128(a, b)
    ELSE IF op = "cdiv" THEN intj_grid_floor128(a + b - 1, b)
    ELSE intj_grid_mod(a, b)

(* The inputs: a grid's are checked against their annotation, a heuristic's *)
(* may be of either kind, and a record's dependent value carries its own.   *)
intj_grid_input(kind, o) ==
    IF o.t # kind THEN Raise
    ELSE IF kind = "bool" THEN Val(o.v, TRUE) ELSE intj_grid_checked(o.v)
intj_grid_input_dep(kind, n, isBool) ==
    IF isBool = (kind = "bool") THEN Val(n, isBool) ELSE Raise
intj_heur_arg(o) ==
    IF o.t = "bool" THEN Val(o.v, TRUE)
    ELSE IF o.t = "int" THEN intj_grid_checked(o.v) ELSE Raise

(* A tensor's method: its int or bool result, or its exception; `r` is what *)
(* the method gives, and only a plain tensor or parameter is asked.         *)
intj_heur_tensor(o, r, isBool) ==
    IF o.t # "tensor" \/ r.t = "raise" THEN Raise
    ELSE IF InWidth(r.v) THEN Val(r.v, isBool) ELSE Raise

intj_heur_dtype(o) == IF o.t = "tensor" THEN Val(0, FALSE) ELSE Raise

(* A likely slip: the cast to uint32 without the range check. *)
DimCast(n) == Val(n % (DimMax + 1), FALSE)
(* A dimension: a uint32, or ValueError. *)
intj_grid_output(n) == IF n < 0 \/ n >= DimMax + 1 THEN Raise ELSE Val(n, FALSE)

-----------------------------------------------------------------------------
(* What Python's counterpart of each input is. *)

PyArg(o) ==
    IF o.t = "bool" THEN Val(o.v, TRUE) ELSE IF o.t = "int" THEN PyInt(o.v) ELSE Outside
PyTyped(kind, r) == IF IsVal(r) /\ r.b # (kind = "bool") THEN Outside ELSE r
PyTensor(o, r, isBool) ==
    IF o.t = "subclass" THEN Outside
    ELSE IF o.t # "tensor" \/ r.t = "raise" THEN Raise
    ELSE IF InWidth(r.v) THEN Val(r.v, isBool) ELSE Outside
PyDim(n) == IF n \in 0 .. DimMax THEN Val(n, FALSE) ELSE Raise

-----------------------------------------------------------------------------
Init ==
    /\ lowering \in {"grid", "heuristic"}
    /\ stack = <<>>
    /\ local = <<>>
    /\ out = <<>>
    /\ wide = FALSE

Running == out = <<>>

Grid == lowering = "grid" /\ Running
Heuristic == lowering = "heuristic" /\ Running

Add(o) ==
    /\ Len(stack) + Len(local) < Depth
    /\ stack' = Append(stack, o)
    /\ UNCHANGED <<lowering, local, out>>
Push(o) == Add(o) /\ UNCHANGED wide

(* Replaces the last n results by o. *)
Reduce(n, o) ==
    /\ stack' = Append(SubSeq(stack, 1, Len(stack) - n), o)
    /\ UNCHANGED <<lowering, local, out, wide>>

Has(n) == Len(stack) >= n
Last(k) == stack[Len(stack) - k]    \* Last(0) is the top

(* The result of an operation on the last one or two results. *)
Unary(kind, c(_), py(_)) ==
    Reduce(1, Res(kind, Strict1(c, AsInt64(Last(0).c)), Strict1(py, Last(0).py)))
Binary(kind, c(_, _), py(_, _)) ==
    Reduce(2, Res(kind, Strict2(c, Last(1).c, Last(0).c), Strict2(py, Last(1).py, Last(0).py)))
Arith(op) ==
    LET c(a, b) == intj_grid_arith(op, Wrap(a), Wrap(b))
        py(a, b) == PyArith(op, a, b)
    IN  Binary("int", c, py)

(* A grid --------------------------------------------------------------*)

(* An annotated parameter, read from the call and checked; every parameter *)
(* is read, used or not.                                                   *)
GridInput ==
    /\ Grid
    /\ \E kind \in GridKinds, o \in Args :
          Push(Res(kind, intj_grid_input(kind, o), PyTyped(kind, PyArg(o))))

(* A parameter the autotuner decides, read from the record. *)
GridDep ==
    /\ Grid
    /\ \E kind \in GridKinds, r \in Records :
          Push(Res(kind, intj_grid_input_dep(kind, r.v, r.b), PyTyped(kind, r)))

(* A parameter with a baked value: one outside int64 is refused. *)
GridBaked ==
    /\ Grid
    /\ \E r \in Fixed : InWidth(r.v) /\ Push(Res(KindOf(r), r, r))

GridLiteral == Grid /\ \E r \in Records : Push(Res(KindOf(r), r, r))

(* A local's name: the temp its last assignment filled. *)
GridName == Grid /\ local # <<>> /\ Push(local[1])

(* `-x` is `0 - x`; `+x` is x itself, now of kind int. *)
GridUnary ==
    /\ Grid /\ Has(1)
    /\ LET neg(a) == intj_grid_arith("sub", 0, a)
           pyNeg(a) == PyArith("sub", 0, a)
           same(a) == Val(a, FALSE)
       IN  Unary("int", neg, pyNeg) \/ Unary("int", same, same)

GridArith == Grid /\ Has(2) /\ \E op \in {"add", "sub", "mul", "floor"} : Arith(op)

(* min and triton.cdiv take ints only. *)
GridCall ==
    /\ Grid /\ Has(2)
    /\ Last(0).kind = "int" /\ Last(1).kind = "int"
    /\ \/ LET min(a, b) == Val(IF a < b THEN a ELSE b, FALSE)
          IN  Reduce(2, Res("int", Strict2(min, Last(1).c, Last(0).c),
                                   PyMinMax("min", Last(1).py, Last(0).py)))
       \/ Arith("cdiv")

(* Each branch's code sits in its own block, so only the branch taken runs. *)
(* Both have one kind, which is then the result's.                          *)
CIf(test, yes, no) ==
    IF ~IsVal(test) THEN test ELSE IF test.v # 0 THEN yes ELSE no
GridIf ==
    /\ Grid /\ Has(3)
    /\ Last(1).kind = Last(0).kind
    /\ Reduce(3, Res(Last(0).kind, CIf(Last(2).c, Last(1).c, Last(0).c),
                                   PyIf(Last(2).py, Last(1).py, Last(0).py)))

(* An expression that raised has returned -1 from the evaluator. *)
Finish ==
    IF IsVal(Last(0).c)
    THEN local' = <<[Last(0) EXCEPT !.c = AsInt64(@)]>> /\ UNCHANGED out
    ELSE out' = stack /\ UNCHANGED local

(* `name = expression` *)
GridAssign ==
    /\ Grid /\ Len(stack) = 1
    /\ Finish
    /\ stack' = <<>>
    /\ UNCHANGED <<lowering, wide>>

(* `return x, y, z`: the dimensions, all computed, then checked in turn. *)
GridReturn ==
    /\ Grid /\ Has(1)
    /\ \A i \in DOMAIN stack : stack[i].kind = "int"
    /\ out' = [i \in DOMAIN stack |->
                  Res("int", Strict1(intj_grid_output, stack[i].c), Strict1(PyDim, stack[i].py))]
    /\ stack' = <<>>
    /\ UNCHANGED <<lowering, local, wide>>

(* A heuristic ---------------------------------------------------------*)

HeuristicInput ==
    /\ Heuristic
    /\ \E o \in Args : Push(Res("any", intj_heur_arg(o), PyArg(o)))

(* A record's dependent value, with its kind beside it. *)
HeuristicDep == Heuristic /\ \E r \in Records : Push(Res("any", r, r))

(* A computed value of an earlier level. *)
HeuristicComp == Heuristic /\ local # <<>> /\ Push(local[1])

(* A baked value, spelled as it is, whatever its size. *)
HeuristicBaked ==
    /\ Heuristic
    /\ \E r \in Fixed : /\ Add(Res(KindOf(r), r, r))
                        /\ wide' = (wide \/ ~InWidth(r.v))

HeuristicLiteral ==
    /\ Heuristic
    /\ \E r \in Records : r.v # IntMin /\ Push(Res(KindOf(r), r, r))

HeuristicArith == Heuristic /\ Has(2) /\ \E op \in {"add", "sub", "mul", "floor", "mod"} : Arith(op)

HeuristicUnary ==
    /\ Heuristic /\ Has(1)
    /\ LET neg(a) == intj_grid_arith("sub", 0, a)
           pyNeg(a) == PyArith("sub", 0, a)
           same(a) == Val(a, FALSE)
           not(a) == Val(IF a = 0 THEN 1 ELSE 0, TRUE)
           pyNot(a) == PyBool(~(a # 0))
       IN  Unary("int", neg, pyNeg) \/ Unary("int", same, same) \/ Unary("bool", not, pyNot)

(* C compares the two values, whatever their kinds. *)
HeuristicCompare ==
    /\ Heuristic /\ Has(2)
    /\ \E op \in {"==", "!=", "<", "<=", ">", ">="} :
          LET cmp(a, b) == PyCompare(op, a, b)
          IN  Binary("bool", cmp, cmp)

(* `x is None` converts nothing, so no argument is refused; a record's      *)
(* value and a baked int are never None.                                    *)
HeuristicIsNone ==
    /\ Heuristic
    /\ \E o \in Args, negate \in BOOLEAN :
          LET test == PyBool((o.t = "none") # negate)
          IN  Push(Res("bool", test, test))

(* `x.dtype == y.dtype`: dtypes are singletons, compared by address. *)
HeuristicDtype ==
    /\ Heuristic
    /\ \E x, y \in Args, same \in BOOLEAN :
          LET cmp(a, b) == PyBool(same)
          IN  Push(Res("bool", Strict2(cmp, intj_heur_dtype(x), intj_heur_dtype(y)),
                               Strict2(cmp, PyTensor(x, Val(0, FALSE), FALSE),
                                            PyTensor(y, Val(0, FALSE), FALSE))))

(* The second operand's code sits inside `if (test) {...}`: it runs, and can *)
(* return -1, only when the first does not decide.                           *)
CBoolOp(op, a, b) ==
    IF ~IsVal(a) THEN a
    ELSE IF (op = "and" /\ a.v # 0) \/ (op = "or" /\ a.v = 0) THEN b ELSE a
HeuristicBoolOp ==
    /\ Heuristic /\ Has(2)
    /\ \E op \in {"and", "or"} :
          Reduce(2, Res("any", AsInt64(CBoolOp(op, Last(1).c, Last(0).c)),
                               PyBoolOp(op, Last(1).py, Last(0).py)))

HeuristicIf ==
    /\ Heuristic /\ Has(3)
    /\ Reduce(3, Res("any", AsInt64(CIf(Last(2).c, Last(1).c, Last(0).c)),
                            PyIf(Last(2).py, Last(1).py, Last(0).py)))

(* min and max compare the values and give the argument itself, its kind too. *)
CMinMax(op, a, b) ==
    IF ~IsVal(a) THEN a ELSE IF ~IsVal(b) THEN b
    ELSE IF (op = "min" /\ b.v < a.v) \/ (op = "max" /\ b.v > a.v) THEN b ELSE a
HeuristicMinMax ==
    /\ Heuristic /\ Has(2)
    /\ \E op \in {"min", "max"} :
          Reduce(2, Res("any", AsInt64(CMinMax(op, Last(1).c, Last(0).c)),
                               PyMinMax(op, Last(1).py, Last(0).py)))

HeuristicTriton ==
    /\ Heuristic
    /\ \/ Has(2) /\ Arith("cdiv")
       \/ Has(1) /\ Unary("int", intj_grid_next_pow2, PyNextPow2)

(* A method of a tensor, or an index of its shape: is_contiguous is a bool, *)
(* an index out of range raises, and data_ptr may not fit.                  *)
TensorRead ==
    /\ Heuristic
    /\ \E o \in Args, isBool \in BOOLEAN :
       \E r \in {Raise} \cup (IF isBool THEN {PyBool(p) : p \in BOOLEAN}
                              ELSE {Val(n, FALSE) : n \in {IntMin, 0, IntMax, IntMax + 1}}) :
          Push(Res(IF isBool THEN "bool" ELSE "int",
                   intj_heur_tensor(o, r, isBool), PyTensor(o, r, isBool)))

(* The end of a computed key's code: its slot is filled. *)
ComputedDone ==
    /\ Heuristic /\ Len(stack) = 1
    /\ Finish
    /\ stack' = <<>>
    /\ UNCHANGED <<lowering, wide>>

GridStep == GridInput \/ GridDep \/ GridBaked \/ GridLiteral \/ GridName \/ GridUnary
              \/ GridArith \/ GridCall \/ GridIf \/ GridAssign \/ GridReturn
HeuristicStep ==
    HeuristicInput \/ HeuristicDep \/ HeuristicComp \/ HeuristicBaked \/ HeuristicLiteral
      \/ HeuristicArith \/ HeuristicUnary \/ HeuristicCompare \/ HeuristicIsNone \/ HeuristicDtype
      \/ HeuristicBoolOp \/ HeuristicIf \/ HeuristicMinMax \/ HeuristicTriton \/ TensorRead
      \/ ComputedDone
Next == GridStep \/ HeuristicStep

Spec == Init /\ [][Next]_vars
=============================================================================
