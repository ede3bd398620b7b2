------------------------------- MODULE PyScalar -------------------------------
(***************************************************************************)
(* The reference for the lowered functions: what Python computes on ints   *)
(* and bools.  A result is a value with its kind, an exception, or         *)
(* "outside": an int on the way left int64, or an argument is of a type    *)
(* intj does not take; what Python goes on to compute then is not compared.*)
(***************************************************************************)
EXTENDS Integers

CONSTANTS IntMin, IntMax,   \* INT64_MIN and INT64_MAX
          Bits              \* 63: the bits of a non-negative int64

ASSUME WidthAssumption ==
    /\ IntMin \in Int /\ IntMax \in Int
    /\ IntMax >= 1
    /\ IntMin = -IntMax - 1
ASSUME BitsAssumption == IntMax = 2 ^ Bits - 1

InWidth(n) == n \in IntMin .. IntMax

Val(n, isBool) == [t |-> "value", v |-> n, b |-> isBool]
Raise == [t |-> "raise", v |-> 0, b |-> FALSE]
Outside == [t |-> "outside", v |-> 0, b |-> FALSE]

IsVal(r) == r.t = "value"
Truth(p) == IF p THEN 1 ELSE 0

(* An int result, compared as long as it is an int64. *)
PyInt(n) == IF InWidth(n) THEN Val(n, FALSE) ELSE Outside
PyBool(p) == Val(Truth(p), TRUE)

(* Python's `//`: the quotient rounded down, whatever the signs. *)
FloorDiv(n, d) == IF d > 0 THEN n \div d ELSE (-n) \div (-d)

(* What or-ing n with all its right shifts gives: its highest set bit and   *)
(* every bit below it; a negative n has its sign bits above.                *)
Ones == {2 ^ k - 1 : k \in 0 .. Bits}
Smear(n) ==
    IF n < 0 THEN -1
    ELSE CHOOSE m \in Ones : n <= m /\ \A other \in Ones : n <= other => m <= other

(* An operation whose operands are evaluated first, left to right: the      *)
(* first that has no value is the result.                                   *)
Strict1(Op(_), x) == IF IsVal(x) THEN Op(x.v) ELSE x
Strict2(Op(_, _), x, y) ==
    IF ~IsVal(x) THEN x ELSE IF ~IsVal(y) THEN y ELSE Op(x.v, y.v)

(* The operators a grid or a heuristic may use.  `%` is compared as long as *)
(* the quotient it implies is an int64.                                     *)
PyArith(op, x, y) ==
    IF op \in {"floor", "mod", "cdiv"} /\ y = 0 THEN Raise
    ELSE IF op = "add" THEN PyInt(x + y)
    ELSE IF op = "sub" THEN PyInt(x - y)
    ELSE IF op = "mul" THEN PyInt(x * y)
    ELSE IF op = "floor" THEN PyInt(FloorDiv(x, y))
    ELSE IF op = "cdiv" THEN PyInt(FloorDiv(x + y - 1, y))
    ELSE IF InWidth(FloorDiv(x, y)) THEN PyInt(x - y * FloorDiv(x, y)) ELSE Outside

PyNextPow2(n) == IF InWidth(n - 1) THEN PyInt(Smear(n - 1) + 1) ELSE Outside

PyCompare(op, x, y) ==
    PyBool(CASE op = "==" -> x = y [] op = "!=" -> x # y [] op = "<" -> x < y
             [] op = "<=" -> x <= y [] op = ">" -> x > y [] op = ">=" -> x >= y)

(* min and max return their first argument unless the second beats it. *)
PyBeats(op, y, x) == IF op = "min" THEN y < x ELSE y > x
PyMinMax(op, x, y) ==
    IF ~IsVal(x) THEN x ELSE IF ~IsVal(y) THEN y
    ELSE IF PyBeats(op, y.v, x.v) THEN y ELSE x

(* `x and y`, `x or y`, `yes if test else no`: the operand not reached is   *)
(* not evaluated.                                                           *)
PyBoolOp(op, x, y) ==
    IF ~IsVal(x) THEN x ELSE IF (x.v # 0) = (op = "and") THEN y ELSE x
PyIf(test, yes, no) ==
    IF ~IsVal(test) THEN test ELSE IF test.v # 0 THEN yes ELSE no
=============================================================================
