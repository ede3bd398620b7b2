---------------------------- MODULE LoweringProofs ----------------------------
(***************************************************************************)
(* Proofs about Lowering, for an int64 of any width and any literals: the  *)
(* C and the Python of every node agree, whatever they are nested in.      *)
(***************************************************************************)
EXTENDS LoweringProps, TLAPS

(* Results: the C's value or failure, Python's value or what it has none.  *)
Ints   == IntMin .. IntMax
Values == [t : {"value"}, v : Ints, b : BOOLEAN]
Kinds  == {"int", "bool", "any"}
Results == [kind : Kinds, c : Values \cup {Raise}, py : Values \cup {Raise, Outside}]

(* C has Python's value, or fails where there is none to have. *)
Agrees(c, py) == \/ py \in Values /\ c = py
                 \/ py \in {Raise, Outside} /\ c = Raise
Right == {o \in Results : Agrees(o.c, o.py) /\ KindTrue(o)}

(* What has left the evaluator: no failure of its own, no wide dimension.  *)
OutRight == \A i \in DOMAIN out : /\ Same(out[i])
                                  /\ IsVal(out[i].c) => out[i].c.v \in 0 .. DimMax

(* An evaluation that has spelled no baked int outside int64.              *)
AllRight ==
  /\ stack \in Seq(Right)
  /\ local \in Seq(Right)
  /\ OutRight

(* Only a heuristic spells such an int, and nothing is known of it after.  *)
IInv ==
  /\ wide \in BOOLEAN
  /\ wide => lowering = "heuristic"
  /\ ~wide => AllRight

LEMMA IntsTyped == IntMin \in Int /\ IntMax \in Int /\ IntMin < 0 /\ IntMax > 0 /\ Ints \subseteq Int
  BY WidthAssumption DEF Ints

-----------------------------------------------------------------------------
(* Rounded division.                                                       *)

LEMMA Scaled ==
  ASSUME NEW a \in Int, NEW b \in Int, a <= b, NEW y \in Nat
  PROVE  a * y <= b * y
  <1>1. (b - a) \in Nat
    OBVIOUS
  <1>2. \A m, n \in Nat : m * n \in Nat
    OBVIOUS
  <1>3. (b - a) * y \in Nat
    BY <1>1, <1>2
  <1>4. (b - a) * y = b * y - a * y
    OBVIOUS
  <1>5. QED
    BY <1>3, <1>4

(* Python's `//` by a positive divisor is the one quotient that leaves a   *)
(* remainder from 0 to the divisor.                                        *)
LEMMA DivUnique ==
  ASSUME NEW n \in Int, NEW d \in Nat \ {0}, NEW q \in Int, q * d <= n, n < q * d + d
  PROVE  n \div d = q
  <1> DEFINE e == n \div d
  <1>1. e \in Int /\ e * d <= n /\ n < e * d + d
    OBVIOUS
  <1> HIDE DEF e
  <1>2. CASE e < q
    <2>1. (e + 1) * d <= q * d
      BY <1>1, <1>2, Scaled
    <2>2. (e + 1) * d = e * d + d
      BY <1>1
    <2>3. QED
      BY <1>1, <2>1, <2>2
  <1>3. CASE q < e
    <2>1. (q + 1) * d <= e * d
      BY <1>1, <1>3, Scaled
    <2>2. (q + 1) * d = q * d + d
      OBVIOUS
    <2>3. QED
      BY <1>1, <2>1, <2>2
  <1>4. CASE e = q
    BY <1>4 DEF e
  <1>5. QED
    BY <1>1, <1>2, <1>3, <1>4

LEMMA DivLeaves ==
  ASSUME NEW n \in Int, NEW d \in Nat \ {0}
  PROVE  \E s \in 0 .. d - 1 : n \div d \in Int /\ n = (n \div d) * d + s
  <1> DEFINE e == n \div d
             s == n % d
  <1>1. e \in Int /\ s \in 0 .. d - 1 /\ n = e * d + s
    OBVIOUS
  <1>2. QED
    BY <1>1

LEMMA FloorLeaves ==
  ASSUME NEW n \in Int, NEW d \in Int \ {0}
  PROVE  /\ FloorDiv(n, d) \in Int
         /\ d > 0 => n - FloorDiv(n, d) * d \in 0 .. d - 1
         /\ d < 0 => n - FloorDiv(n, d) * d \in d + 1 .. 0
  <1>1. CASE d > 0
    <2>1. PICK s \in 0 .. d - 1 : n \div d \in Int /\ n = (n \div d) * d + s
      BY <1>1, DivLeaves
    <2>2. FloorDiv(n, d) = n \div d
      BY <1>1 DEF FloorDiv
    <2>3. QED
      BY <1>1, <2>1, <2>2
  <1>2. CASE d < 0
    <2> DEFINE e == (-n) \div (-d)
    <2>1. -d \in Nat \ {0} /\ -n \in Int
      BY <1>2
    <2>2. PICK s \in 0 .. (-d) - 1 : e \in Int /\ -n = e * (-d) + s
      BY <2>1, DivLeaves
    <2>3. FloorDiv(n, d) = e
      BY <1>2 DEF FloorDiv
    <2> HIDE DEF e
    <2>4. e * (-d) = -(e * d)
      BY <2>2
    <2>5. n - e * d = -s
      BY <2>2, <2>4
    <2>6. QED
      BY <1>2, <2>2, <2>3, <2>5
  <1>3. QED
    BY <1>1, <1>2

(* C's quotient is rounded to zero; one less where it was rounded up is    *)
(* Python's.                                                               *)
LEMMA TruncFloors ==
  ASSUME NEW n \in Int, NEW d \in Int \ {0}, NEW q, q = Trunc(n, d), NEW r, r = n - q * d
  PROVE  (IF r # 0 /\ (r < 0) # (d < 0) THEN q - 1 ELSE q) = FloorDiv(n, d)
  <1>1. CASE n >= 0 /\ d > 0
    <2>1. q = n \div d
      BY <1>1 DEF Trunc, AbsInt
    <2>2. PICK s \in 0 .. d - 1 : q \in Int /\ n = q * d + s
      BY <1>1, <2>1, DivLeaves
    <2>3. r >= 0
      BY <2>2
    <2>4. QED
      BY <1>1, <2>1, <2>2, <2>3 DEF FloorDiv
  <1>2. CASE n < 0 /\ d < 0
    <2>1. PICK m \in Int, e \in Nat \ {0} : m = -n /\ e = -d
      BY <1>2
    <2>2. q = m \div e /\ FloorDiv(n, d) = m \div e
      BY <1>2, <2>1 DEF Trunc, AbsInt, FloorDiv
    <2>3. PICK s \in 0 .. e - 1 : q \in Int /\ m = q * e + s
      <3>1. \E s \in 0 .. e - 1 : m \div e \in Int /\ m = (m \div e) * e + s
        BY DivLeaves
      <3>2. QED
        BY <2>2, <3>1
    <2>4. q * e = -(q * d)
      BY <2>1, <2>3
    <2>5. r <= 0 /\ r \in Int
      BY <2>1, <2>3, <2>4
    <2>6. QED
      BY <1>2, <2>2, <2>5
  <1>3. CASE n < 0 /\ d > 0
    <2>1. PICK m \in Nat \ {0} : m = -n
      BY <1>3
    <2>2. PICK p : p = m \div d
      OBVIOUS
    <2>3. PICK s \in 0 .. d - 1 : p \in Int /\ m = p * d + s
      BY <1>3, <2>2, DivLeaves
    <2>4. q = -p /\ FloorDiv(n, d) = n \div d
      BY <1>3, <2>1, <2>2 DEF Trunc, AbsInt, FloorDiv
    <2>5. q * d = -(p * d) /\ (q - 1) * d = -(p * d) - d /\ q \in Int
      BY <2>3, <2>4
    <2>6. r = -s
      BY <2>1, <2>3, <2>5
    <2>7. CASE s = 0
      <3>1. n \div d = q
        BY <1>3, <2>1, <2>3, <2>5, <2>7, DivUnique
      <3>2. QED
        BY <1>3, <2>4, <2>6, <2>7, <3>1
    <2>8. CASE s # 0
      <3>1. n \div d = q - 1
        BY <1>3, <2>1, <2>3, <2>5, <2>8, DivUnique
      <3>2. QED
        BY <1>3, <2>4, <2>6, <2>8, <3>1
    <2>9. QED
      BY <2>7, <2>8
  <1>4. CASE n >= 0 /\ d < 0
    <2>1. PICK m \in Int, e \in Nat \ {0} : m = -n /\ e = -d
      BY <1>4
    <2>2. PICK p : p = n \div e
      OBVIOUS
    <2>3. PICK s \in 0 .. e - 1 : p \in Int /\ n = p * e + s
      BY <2>2, DivLeaves
    <2>4. q = -p /\ FloorDiv(n, d) = m \div e
      BY <1>4, <2>1, <2>2 DEF Trunc, AbsInt, FloorDiv
    <2>5. q * e = -(p * e) /\ (q - 1) * e = -(p * e) - e /\ q \in Int
      BY <2>1, <2>3, <2>4
    <2>6. r = s
      <3>1. q * d = -(q * e)
        BY <2>1, <2>5
      <3>2. q * d = p * e /\ p * e \in Int
        BY <2>3, <2>5, <3>1
      <3>3. QED
        BY <2>3, <3>2
    <2>7. CASE s = 0
      <3>0. q * e <= m /\ m < q * e + e
        <4>1. p * e \in Int
          BY <2>3
        <4>2. QED
          BY <2>1, <2>3, <2>5, <2>7, <4>1
      <3>1. m \div e = q
        BY <2>5, <3>0, DivUnique
      <3>2. QED
        BY <1>4, <2>4, <2>6, <2>7, <3>1
    <2>8. CASE s # 0
      <3>0. (q - 1) * e <= m /\ m < (q - 1) * e + e /\ q - 1 \in Int
        <4>1. p * e \in Int
          BY <2>3
        <4>2. QED
          BY <2>1, <2>3, <2>5, <2>8, <4>1
      <3>1. m \div e = q - 1
        BY <3>0, DivUnique
      <3>2. QED
        BY <1>4, <2>4, <2>6, <2>8, <3>1
    <2>9. QED
      BY <2>7, <2>8
  <1>5. QED
    BY <1>1, <1>2, <1>3, <1>4

-----------------------------------------------------------------------------
(* Checked arithmetic.                                                     *)

LEMMA ValFacts ==
  /\ \A n \in Ints, b \in BOOLEAN :
       Val(n, b) \in Values /\ IsVal(Val(n, b)) /\ Val(n, b).v = n /\ Val(n, b).b = b
  /\ \A x \in Values : IsVal(x) /\ x.v \in Ints /\ x.b \in BOOLEAN /\ x = Val(x.v, x.b)
  /\ ~IsVal(Raise) /\ ~IsVal(Outside) /\ Raise \notin Values /\ Outside \notin Values
  BY DEF Val, Values, IsVal, Raise, Outside

(* What an int64_t holds is what it was set from, short of a wider one.    *)
LEMMA Narrow ==
  /\ \A n \in Ints : Wrap(n) = n
  /\ \A x \in Values \cup {Raise} : AsInt64(x) = x
  <1>1. ASSUME NEW n \in Ints PROVE Wrap(n) = n
    BY <1>1, IntsTyped DEF Wrap, Ints
  <1>2. ASSUME NEW x \in Values PROVE AsInt64(x) = x
    <2>1. IsVal(x) /\ x.v \in Ints /\ x = Val(x.v, x.b)
      BY <1>2, ValFacts
    <2>2. Wrap(x.v) = x.v
      BY <1>1, <2>1
    <2>3. QED
      BY <2>1, <2>2 DEF AsInt64
  <1>3. AsInt64(Raise) = Raise
    BY ValFacts DEF AsInt64
  <1>4. QED
    BY <1>1, <1>2, <1>3

(* The two sides of an int operation. *)
IntPair(c, py) == Agrees(c, py) /\ (c \in Values => c.b = FALSE)

LEMMA CheckedAgrees ==
  ASSUME NEW n
  PROVE  IntPair(intj_grid_checked(n), PyInt(n))
  <1>1. CASE InWidth(n)
    <2>1. n \in Ints
      BY <1>1 DEF InWidth, Ints
    <2>2. QED
      BY <1>1, <2>1, ValFacts DEF IntPair, Agrees, intj_grid_checked, PyInt
  <1>2. CASE ~InWidth(n)
    BY <1>2, ValFacts DEF IntPair, Agrees, intj_grid_checked, PyInt
  <1>3. QED
    BY <1>1, <1>2

LEMMA RaisesAgree == IntPair(Raise, Raise) /\ IntPair(Raise, Outside)
  BY ValFacts DEF IntPair, Agrees

LEMMA FloorIsFloor ==
  ASSUME NEW n \in Int, NEW d \in Int \ {0}
  PROVE  intj_grid_floor128(n, d) = intj_grid_checked(FloorDiv(n, d))
  <1>1. PICK q, r : q = Trunc(n, d) /\ r = n - q * d
    OBVIOUS
  <1>2. (IF r # 0 /\ (r < 0) # (d < 0) THEN q - 1 ELSE q) = FloorDiv(n, d)
    BY <1>1, TruncFloors
  <1>3. QED
    BY <1>1, <1>2 DEF intj_grid_floor128

(* The remainder is an int64 where the quotient and the divisor are.       *)
LEMMA ModAgrees ==
  ASSUME NEW a \in Ints, NEW b \in Ints
  PROVE  IntPair(intj_grid_mod(a, b), PyArith("mod", a, b))
  <1>0. a \in Int /\ b \in Int
    BY IntsTyped
  <1>1. CASE b = 0
    BY <1>1, RaisesAgree, ValFacts DEF intj_grid_mod, intj_grid_floor128, PyArith
  <1>2. CASE b # 0
    <2>1. PICK f : f = FloorDiv(a, b)
      OBVIOUS
    <2>2. f \in Int /\ (b > 0 => a - f * b \in 0 .. b - 1) /\ (b < 0 => a - f * b \in b + 1 .. 0)
      BY <1>0, <1>2, <2>1, FloorLeaves
    <2>3. a - f * b \in Ints
      BY <1>0, <1>2, <2>2, IntsTyped DEF Ints
    <2>4. intj_grid_floor128(a, b) = intj_grid_checked(f)
      BY <1>0, <1>2, <2>1, FloorIsFloor
    <2>5. CASE InWidth(f)
      <3>1. f \in Ints
        BY <2>5 DEF InWidth, Ints
      <3>2. intj_grid_mod(a, b) = Val(a - f * b, FALSE)
        BY <2>4, <2>5, <3>1, ValFacts DEF intj_grid_mod, intj_grid_checked
      <3>3. f * b = b * f
        BY <1>0, <2>2
      <3>4. PyArith("mod", a, b) = PyInt(a - f * b)
        BY <1>2, <2>1, <2>5, <3>3 DEF PyArith
      <3>5. PyInt(a - f * b) = Val(a - f * b, FALSE)
        BY <2>3 DEF PyInt, InWidth, Ints
      <3>6. QED
        BY <2>3, <3>2, <3>4, <3>5, ValFacts DEF IntPair, Agrees
    <2>6. CASE ~InWidth(f)
      <3>1. intj_grid_mod(a, b) = Raise
        BY <2>4, <2>6, ValFacts DEF intj_grid_mod, intj_grid_checked
      <3>2. PyArith("mod", a, b) = Outside
        BY <1>2, <2>1, <2>6 DEF PyArith
      <3>3. QED
        BY <3>1, <3>2, RaisesAgree
    <2>7. QED
      BY <2>5, <2>6
  <1>3. QED
    BY <1>1, <1>2

Ops == {"add", "sub", "mul", "floor", "cdiv", "mod"}

LEMMA ArithAgrees ==
  ASSUME NEW op \in Ops, NEW a \in Ints, NEW b \in Ints
  PROVE  IntPair(intj_grid_arith(op, a, b), PyArith(op, a, b))
  <1>0. a \in Int /\ b \in Int /\ a + b - 1 \in Int /\ a + b \in Int /\ a - b \in Int /\ a * b \in Int
    BY IntsTyped
  <1>1. CASE op = "add"
    BY <1>0, <1>1, CheckedAgrees DEF intj_grid_arith, PyArith
  <1>2. CASE op = "sub"
    BY <1>0, <1>2, CheckedAgrees DEF intj_grid_arith, PyArith
  <1>3. CASE op = "mul"
    BY <1>0, <1>3, CheckedAgrees DEF intj_grid_arith, PyArith
  <1>4. CASE op = "floor"
    <2>1. CASE b = 0
      BY <1>4, <2>1, RaisesAgree DEF intj_grid_arith, intj_grid_floor128, PyArith
    <2>2. CASE b # 0
      BY <1>0, <1>4, <2>2, FloorIsFloor, FloorLeaves, CheckedAgrees DEF intj_grid_arith, PyArith
    <2>3. QED
      BY <2>1, <2>2
  <1>5. CASE op = "cdiv"
    <2>1. CASE b = 0
      BY <1>5, <2>1, RaisesAgree DEF intj_grid_arith, intj_grid_floor128, PyArith
    <2>2. CASE b # 0
      BY <1>0, <1>5, <2>2, FloorIsFloor, FloorLeaves, CheckedAgrees DEF intj_grid_arith, PyArith
    <2>3. QED
      BY <2>1, <2>2
  <1>6. CASE op = "mod"
    BY <1>6, ModAgrees DEF intj_grid_arith
  <1>7. QED
    BY <1>1, <1>2, <1>3, <1>4, <1>5, <1>6 DEF Ops

LEMMA NextPow2Agrees ==
  ASSUME NEW n \in Ints
  PROVE  IntPair(intj_grid_next_pow2(n), PyNextPow2(n))
  <1>0. n \in Int
    BY IntsTyped
  <1>1. CASE n = IntMin
    BY <1>0, <1>1, IntsTyped, RaisesAgree DEF intj_grid_next_pow2, PyNextPow2, InWidth
  <1>2. CASE n # IntMin
    <2>1. InWidth(n - 1)
      BY <1>0, <1>2, IntsTyped DEF InWidth, Ints
    <2>2. QED
      BY <1>2, <2>1, CheckedAgrees DEF intj_grid_next_pow2, PyNextPow2
  <1>3. QED
    BY <1>1, <1>2

-----------------------------------------------------------------------------
(* A step pushes a right result, or replaces results by a right one.       *)

LEMMA ResRight ==
  ASSUME NEW kind \in Kinds, NEW c, NEW py, Agrees(c, py),
         c \in Values /\ kind # "any" => c.b = (kind = "bool")
  PROVE  Res(kind, c, py) \in Right
  <1>1. c \in Values \cup {Raise} /\ py \in Values \cup {Raise, Outside}
    BY DEF Agrees
  <1>2. IsVal(c) => c \in Values
    BY <1>1, ValFacts
  <1>3. QED
    BY <1>1, <1>2 DEF Res, Right, Results, KindTrue

LEMMA RightFacts ==
  ASSUME NEW o \in Right
  PROVE  /\ o.kind \in Kinds /\ Agrees(o.c, o.py)
         /\ o.c \in Values => IsVal(o.c)
         /\ o.c \in Values \cup {Raise} /\ o.py \in Values \cup {Raise, Outside}
         /\ o.c \in Values /\ o.kind # "any" => o.c.b = (o.kind = "bool")
         /\ Same(o)
  BY ValFacts DEF Right, Results, KindTrue, Agrees, Same

(* Two operands: both have a value, or the first or else the second none.  *)
LEMMA Operands ==
  ASSUME NEW x \in Right, NEW y \in Right
  PROVE  \/ x.c \in Values /\ x.py = x.c /\ y.c \in Values /\ y.py = y.c
         \/ x.c = Raise /\ x.py \in {Raise, Outside}
         \/ x.c \in Values /\ x.py = x.c /\ y.c = Raise /\ y.py \in {Raise, Outside}
  BY RightFacts DEF Agrees

LEMMA LastRight ==
  ASSUME AllRight, NEW n \in Nat, Has(n), NEW k \in 0 .. n - 1
  PROVE  Last(k) \in Right
  BY DEF AllRight, Has, Last

LEMMA AddKeeps ==
  ASSUME AllRight, NEW o \in Right, Add(o)
  PROVE  AllRight'
  <1>1. stack' \in Seq(Right)
    BY DEF AllRight, Add
  <1>2. QED
    BY <1>1 DEF AllRight, Add, OutRight

LEMMA PushKeeps ==
  ASSUME AllRight, NEW o \in Right, Push(o)
  PROVE  AllRight'
  BY AddKeeps DEF Push

LEMMA ReduceKeeps ==
  ASSUME AllRight, NEW n \in Nat, Has(n), NEW o \in Right, Reduce(n, o)
  PROVE  AllRight'
  <1>1. stack' \in Seq(Right)
    BY DEF AllRight, Has, Reduce
  <1>2. QED
    BY <1>1 DEF AllRight, Reduce, OutRight

LEMMA ArithKeeps ==
  ASSUME AllRight, Has(2), NEW op \in Ops, Arith(op)
  PROVE  AllRight'
  <1>1. PICK x \in Right, y \in Right : x = Last(1) /\ y = Last(0)
    BY LastRight
  <1>2. PICK c, py :
          /\ Reduce(2, Res("int", c, py))
          /\ c = IF ~IsVal(x.c) THEN x.c ELSE IF ~IsVal(y.c) THEN y.c
                 ELSE intj_grid_arith(op, Wrap(x.c.v), Wrap(y.c.v))
          /\ py = IF ~IsVal(x.py) THEN x.py ELSE IF ~IsVal(y.py) THEN y.py
                  ELSE PyArith(op, x.py.v, y.py.v)
    BY <1>1 DEF Arith, Binary, Strict2
  <1>3. IntPair(c, py)
    <2>1. CASE x.c \in Values /\ x.py = x.c /\ y.c \in Values /\ y.py = y.c
      BY <1>2, <2>1, ValFacts, Narrow, ArithAgrees
    <2>2. CASE x.c = Raise /\ x.py \in {Raise, Outside}
      BY <1>2, <2>2, ValFacts, RaisesAgree
    <2>3. CASE x.c \in Values /\ x.py = x.c /\ y.c = Raise /\ y.py \in {Raise, Outside}
      BY <1>2, <2>3, ValFacts, RaisesAgree
    <2>4. QED
      BY <2>1, <2>2, <2>3, Operands
  <1>4. Res("int", c, py) \in Right
    BY <1>3, ResRight DEF IntPair, Kinds
  <1>5. QED
    BY <1>2, <1>4, ReduceKeeps

-----------------------------------------------------------------------------
(* The leaves of an expression.                                            *)

LEMMA RecordsTyped ==
  /\ Records \subseteq Values /\ 0 \in Ints /\ 1 \in Ints
  /\ \A r \in Fixed : InWidth(r.v) => r \in Values
  <1>1. 0 \in Ints /\ 1 \in Ints
    BY WidthAssumption DEF Ints
  <1>2. Literals \subseteq Ints
    BY LiteralAssumption DEF Ints
  <1>3. \A n \in Literals : Val(n, FALSE) \in Values
    BY <1>2, ValFacts
  <1>4. \A p \in BOOLEAN : PyBool(p) \in Values
    BY <1>1, ValFacts DEF PyBool, Truth
  <1>5. ASSUME NEW n \in Baked, InWidth(Val(n, FALSE).v) PROVE Val(n, FALSE) \in Values
    <2>1. n \in Ints
      BY <1>5 DEF Val, InWidth, Ints
    <2>2. QED
      BY <2>1, ValFacts
  <1>6. \A r \in Fixed : InWidth(r.v) => r \in Values
    BY <1>4, <1>5, Zenon DEF Fixed, Bools
  <1>7. QED
    BY <1>1, <1>3, <1>4, <1>6 DEF Records, Bools

LEMMA BoolTyped ==
  ASSUME NEW p \in BOOLEAN
  PROVE  PyBool(p) \in Values /\ PyBool(p).b = TRUE
  BY RecordsTyped, ValFacts DEF PyBool, Truth

(* The same value on both sides. *)
LEMMA ValueRight ==
  ASSUME NEW r \in Values
  PROVE  /\ Res(IF r.b THEN "bool" ELSE "int", r, r) \in Right
         /\ Res(KindOf(r), r, r) \in Right /\ Res("any", r, r) \in Right
  <1>1. Agrees(r, r) /\ r.b \in BOOLEAN
    BY ValFacts DEF Agrees
  <1>2. QED
    BY <1>1, ResRight DEF Kinds, KindOf

LEMMA ArgTyped ==
  ASSUME NEW o \in Args
  PROVE  /\ o.t = "int" => o.v \in Int
         /\ o.t = "bool" => o.v \in Ints
  BY RecordsTyped, IntsTyped DEF Args

LEMMA IntTyped ==
  ASSUME NEW n
  PROVE  PyTyped("int", PyInt(n)) = PyInt(n) /\ PyTyped("bool", PyInt(n)) = Outside
  <1>1. CASE InWidth(n)
    <2>1. PyInt(n) = Val(n, FALSE) /\ IsVal(Val(n, FALSE)) /\ Val(n, FALSE).b = FALSE
      BY <1>1, ValFacts DEF PyInt, InWidth, Ints
    <2>2. QED
      BY <2>1 DEF PyTyped
  <1>2. CASE ~InWidth(n)
    <2>1. PyInt(n) = Outside
      BY <1>2 DEF PyInt
    <2>2. QED
      BY <2>1, ValFacts DEF PyTyped
  <1>3. QED
    BY <1>1, <1>2

LEMMA GridInputKeeps ==
  ASSUME AllRight, GridInput
  PROVE  AllRight'
  <1>1. PICK kind \in GridKinds, o \in Args :
          Push(Res(kind, intj_grid_input(kind, o), PyTyped(kind, PyArg(o))))
    BY DEF GridInput
  <1> DEFINE c == intj_grid_input(kind, o)
             py == PyTyped(kind, PyArg(o))
  <1>2. CASE o.t = "int" /\ kind = "int"
    <2>1. IntPair(intj_grid_checked(o.v), PyInt(o.v))
      BY CheckedAgrees
    <2>2. c = intj_grid_checked(o.v) /\ PyArg(o) = PyInt(o.v)
      BY <1>2 DEF intj_grid_input, PyArg
    <2>3. py = PyInt(o.v)
      BY <1>2, <2>2, IntTyped
    <2>4. Res(kind, c, py) \in Right
      BY <1>2, <2>1, <2>2, <2>3, ResRight DEF IntPair, Kinds
    <2>5. QED
      BY <1>1, <2>4, PushKeeps
  <1>3. CASE o.t = "bool" /\ kind = "bool"
    <2>1. c = Val(o.v, TRUE) /\ py = Val(o.v, TRUE)
      BY <1>3 DEF intj_grid_input, PyArg, PyTyped, Val, IsVal
    <2>2. Val(o.v, TRUE) \in Values /\ Val(o.v, TRUE).b = TRUE
      BY <1>3, ArgTyped, ValFacts
    <2>3. Res(kind, c, py) \in Right
      BY <1>3, <2>1, <2>2, ValueRight
    <2>4. QED
      BY <1>1, <2>3, PushKeeps
  <1>4. CASE o.t # kind
    <2>1. c = Raise
      BY <1>4 DEF intj_grid_input
    <2>2. py = Outside
      <3>1. CASE o.t = "int"
        <4>1. kind = "bool" /\ PyArg(o) = PyInt(o.v)
          BY <1>4, <3>1 DEF GridKinds, PyArg
        <4>2. QED
          BY <4>1, IntTyped
      <3>2. CASE o.t = "bool"
        <4>1. /\ kind = "int" /\ PyArg(o) = Val(o.v, TRUE)
              /\ IsVal(Val(o.v, TRUE)) /\ Val(o.v, TRUE).b = TRUE
          BY <1>4, <3>2, ArgTyped, ValFacts DEF GridKinds, PyArg
        <4>2. QED
          BY <4>1 DEF PyTyped
      <3>3. CASE o.t \notin {"int", "bool"}
        BY <3>3, ValFacts DEF PyArg, PyTyped
      <3>4. QED
        BY <3>1, <3>2, <3>3
    <2>3. Res(kind, c, py) \in Right
      BY <2>1, <2>2, RaisesAgree, ResRight, ValFacts DEF IntPair, Kinds, GridKinds
    <2>4. QED
      BY <1>1, <2>3, PushKeeps
  <1>5. QED
    BY <1>2, <1>3, <1>4 DEF GridKinds

LEMMA GridDepKeeps ==
  ASSUME AllRight, GridDep
  PROVE  AllRight'
  <1>1. PICK kind \in GridKinds, r \in Records :
          Push(Res(kind, intj_grid_input_dep(kind, r.v, r.b), PyTyped(kind, r)))
    BY DEF GridDep
  <1> DEFINE c == intj_grid_input_dep(kind, r.v, r.b)
             py == PyTyped(kind, r)
  <1>2. r \in Values /\ r = Val(r.v, r.b) /\ r.b \in BOOLEAN /\ IsVal(r)
    BY RecordsTyped, ValFacts
  <1>3. CASE r.b = (kind = "bool")
    <2>1. c = r /\ py = r
      BY <1>2, <1>3 DEF intj_grid_input_dep, PyTyped
    <2>2. Res(kind, c, py) \in Right
      BY <1>2, <1>3, <2>1, ResRight DEF Agrees, Kinds, GridKinds
    <2>3. QED
      BY <1>1, <2>2, PushKeeps
  <1>4. CASE r.b # (kind = "bool")
    <2>1. c = Raise /\ py = Outside
      BY <1>2, <1>4 DEF intj_grid_input_dep, PyTyped
    <2>2. Res(kind, c, py) \in Right
      BY <2>1, RaisesAgree, ResRight, ValFacts DEF IntPair, Kinds, GridKinds
    <2>3. QED
      BY <1>1, <2>2, PushKeeps
  <1>5. QED
    BY <1>3, <1>4

(* A literal, a dependent value, a local or a computed key's slot. *)
LEMMA ValueKeeps ==
  ASSUME AllRight, GridLiteral \/ GridName \/ HeuristicDep \/ HeuristicComp \/ HeuristicLiteral
  PROVE  AllRight'
  <1>1. ASSUME local # <<>> PROVE local[1] \in Right
    BY <1>1 DEF AllRight
  <1>2. CASE GridName \/ HeuristicComp
    BY <1>1, <1>2, PushKeeps DEF GridName, HeuristicComp
  <1>3. CASE GridLiteral \/ HeuristicLiteral
    <2>1. PICK r \in Records : Push(Res(KindOf(r), r, r))
      BY <1>3 DEF GridLiteral, HeuristicLiteral
    <2>2. QED
      BY <2>1, RecordsTyped, ValueRight, PushKeeps
  <1>4. CASE HeuristicDep
    <2>1. PICK r \in Records : Push(Res("any", r, r))
      BY <1>4 DEF HeuristicDep
    <2>2. QED
      BY <2>1, RecordsTyped, ValueRight, PushKeeps
  <1>5. QED
    BY <1>2, <1>3, <1>4

(* A baked value: a grid's is checked, a heuristic's is in the width when   *)
(* the evaluation is not wide after it.                                    *)
LEMMA BakedKeeps ==
  ASSUME AllRight, ~wide, ~wide', GridBaked \/ HeuristicBaked
  PROVE  AllRight'
  <1>1. PICK r \in Fixed : InWidth(r.v) /\ Add(Res(KindOf(r), r, r))
    BY DEF GridBaked, HeuristicBaked, Push
  <1>2. QED
    BY <1>1, RecordsTyped, ValueRight, AddKeeps

LEMMA HeuristicInputKeeps ==
  ASSUME AllRight, HeuristicInput
  PROVE  AllRight'
  <1>1. PICK o \in Args : Push(Res("any", intj_heur_arg(o), PyArg(o)))
    BY DEF HeuristicInput
  <1>2. Agrees(intj_heur_arg(o), PyArg(o))
    <2>1. CASE o.t = "bool"
      BY <2>1, ArgTyped, ValFacts DEF intj_heur_arg, PyArg, Agrees
    <2>2. CASE o.t = "int"
      BY <2>2, CheckedAgrees DEF intj_heur_arg, PyArg, IntPair
    <2>3. CASE o.t \notin {"bool", "int"}
      BY <2>3, RaisesAgree DEF intj_heur_arg, PyArg, IntPair
    <2>4. QED
      BY <2>1, <2>2, <2>3
  <1>3. QED
    BY <1>1, <1>2, ResRight, PushKeeps DEF Kinds

LEMMA HeuristicIsNoneKeeps ==
  ASSUME AllRight, HeuristicIsNone
  PROVE  AllRight'
  <1>1. PICK o \in Args, negate \in BOOLEAN :
          Push(Res("bool", PyBool((o.t = "none") # negate), PyBool((o.t = "none") # negate)))
    BY DEF HeuristicIsNone
  <1>2. PICK r \in Values : r.b = TRUE /\ Push(Res("bool", r, r))
    BY <1>1, BoolTyped
  <1>3. QED
    BY <1>2, ValueRight, PushKeeps

LEMMA HeuristicDtypeKeeps ==
  ASSUME AllRight, HeuristicDtype
  PROVE  AllRight'
  <1>1. PICK x, y, same, c, py :
          /\ x \in Args /\ y \in Args /\ same \in BOOLEAN
          /\ Push(Res("bool", c, py))
          /\ c = IF ~IsVal(intj_heur_dtype(x)) THEN intj_heur_dtype(x)
                 ELSE IF ~IsVal(intj_heur_dtype(y)) THEN intj_heur_dtype(y) ELSE PyBool(same)
          /\ py = IF ~IsVal(PyTensor(x, Val(0, FALSE), FALSE)) THEN PyTensor(x, Val(0, FALSE), FALSE)
                  ELSE IF ~IsVal(PyTensor(y, Val(0, FALSE), FALSE))
                         THEN PyTensor(y, Val(0, FALSE), FALSE) ELSE PyBool(same)
    BY DEF HeuristicDtype, Strict2
  <1>2. ASSUME NEW o \in Args
        PROVE  \/ IsVal(intj_heur_dtype(o)) /\ IsVal(PyTensor(o, Val(0, FALSE), FALSE))
               \/ /\ intj_heur_dtype(o) = Raise
                  /\ PyTensor(o, Val(0, FALSE), FALSE) \in {Raise, Outside}
    <2>1. IsVal(Val(0, FALSE)) /\ Val(0, FALSE).v = 0 /\ Val(0, FALSE).t = "value" /\ InWidth(0)
      BY RecordsTyped, ValFacts DEF Val, InWidth, Ints
    <2>2. QED
      BY <2>1 DEF intj_heur_dtype, PyTensor
  <1>3. /\ PyBool(same) \in Values /\ PyBool(same).b = TRUE
    BY <1>1, BoolTyped
  <1>4. Agrees(c, py) /\ (c \in Values => c.b = TRUE)
    BY <1>1, <1>2, <1>3, ValFacts DEF Agrees
  <1>5. QED
    BY <1>1, <1>4, ResRight, PushKeeps DEF Kinds

LEMMA TensorReadKeeps ==
  ASSUME AllRight, TensorRead
  PROVE  AllRight'
  <1>1. PICK o, isBool, r :
          /\ o \in Args /\ isBool \in BOOLEAN
          /\ Push(Res(IF isBool THEN "bool" ELSE "int",
                      intj_heur_tensor(o, r, isBool), PyTensor(o, r, isBool)))
    BY DEF TensorRead
  <1> DEFINE c == intj_heur_tensor(o, r, isBool)
             py == PyTensor(o, r, isBool)
  <1>2. CASE o.t # "tensor" \/ r.t = "raise" \/ ~InWidth(r.v)
    <2>1. c = Raise /\ py \in {Raise, Outside}
      BY <1>2 DEF intj_heur_tensor, PyTensor
    <2>2. Agrees(c, py) /\ c \notin Values
      BY <2>1, ValFacts DEF Agrees
    <2> HIDE DEF c, py
    <2>3. Res(IF isBool THEN "bool" ELSE "int", c, py) \in Right
      BY <2>2, ResRight DEF Kinds
    <2>4. QED
      BY <1>1, <2>3, PushKeeps DEF c, py
  <1>3. CASE ~(o.t # "tensor" \/ r.t = "raise" \/ ~InWidth(r.v))
    <2>1. c = Val(r.v, isBool) /\ py = Val(r.v, isBool)
      BY <1>3 DEF intj_heur_tensor, PyTensor
    <2>2. Val(r.v, isBool) \in Values /\ Val(r.v, isBool).b = isBool
      BY <1>1, <1>3, ValFacts DEF InWidth, Ints
    <2>3. QED
      BY <1>1, <2>1, <2>2, ValueRight, PushKeeps
  <1>4. QED
    BY <1>2, <1>3

-----------------------------------------------------------------------------
(* The inner nodes of an expression.                                       *)

(* One operand: it has a value, or there is none on either side. *)
LEMMA OneOperand ==
  ASSUME NEW x \in Right, NEW kind \in {"int", "bool"}, NEW n, NEW m, NEW c, NEW py,
         c = IF IsVal(x.c) THEN n ELSE x.c, py = IF IsVal(x.py) THEN m ELSE x.py,
         x.c \in Values /\ x.py = x.c => Agrees(n, m) /\ (n \in Values => n.b = (kind = "bool"))
  PROVE  Res(kind, c, py) \in Right
  <1>1. CASE x.c \in Values /\ x.py = x.c
    <2>1. c = n /\ py = m
      BY <1>1, ValFacts
    <2>2. QED
      BY <1>1, <2>1, ResRight DEF Kinds
  <1>2. CASE x.c = Raise /\ x.py \in {Raise, Outside}
    <2>1. c = Raise /\ py \in {Raise, Outside}
      BY <1>2, ValFacts
    <2>2. QED
      BY <2>1, ResRight, ValFacts DEF Agrees, Kinds
  <1>3. QED
    BY <1>1, <1>2, RightFacts DEF Agrees

LEMMA UnaryKeeps ==
  ASSUME AllRight, GridUnary \/ HeuristicUnary
  PROVE  AllRight'
  <1>0. Has(1)
    BY DEF GridUnary, HeuristicUnary
  <1>1. PICK x \in Right : x = Last(0)
    BY <1>0, LastRight
  <1>c. AsInt64(Last(0).c) = x.c
    BY <1>1, RightFacts, Narrow
  <1>2. PICK kind, n, m :
          /\ Reduce(1, Res(kind, IF IsVal(x.c) THEN n ELSE x.c, IF IsVal(x.py) THEN m ELSE x.py))
          /\ \/ /\ kind = "int" /\ n = intj_grid_arith("sub", 0, x.c.v)
                /\ m = PyArith("sub", 0, x.py.v)
             \/ kind = "int" /\ n = Val(x.c.v, FALSE) /\ m = Val(x.py.v, FALSE)
             \/ /\ kind = "bool" /\ n = Val(IF x.c.v = 0 THEN 1 ELSE 0, TRUE)
                /\ m = PyBool(~(x.py.v # 0))
    BY <1>1, <1>c DEF GridUnary, HeuristicUnary, Unary, Strict1
  <1>3. ASSUME x.c \in Values, x.py = x.c
        PROVE  Agrees(n, m) /\ (n \in Values => n.b = (kind = "bool"))
    <2>1. x.c.v \in Ints
      BY <1>3, ValFacts
    <2>2. CASE kind = "int" /\ n = intj_grid_arith("sub", 0, x.c.v) /\ m = PyArith("sub", 0, x.py.v)
      BY <1>3, <2>1, <2>2, RecordsTyped, ArithAgrees DEF Ops, IntPair
    <2>3. CASE kind = "int" /\ n = Val(x.c.v, FALSE) /\ m = Val(x.py.v, FALSE)
      BY <1>3, <2>1, <2>3, ValFacts DEF Agrees
    <2>4. CASE kind = "bool" /\ n = Val(IF x.c.v = 0 THEN 1 ELSE 0, TRUE) /\ m = PyBool(~(x.py.v # 0))
      <3>1. m = n
        BY <1>3, <2>4 DEF PyBool, Truth
      <3>2. n \in Values /\ n.b = TRUE
        BY <2>4, RecordsTyped, ValFacts
      <3>3. QED
        BY <2>4, <3>1, <3>2 DEF Agrees
    <2>5. QED
      BY <1>2, <2>2, <2>3, <2>4
  <1>kind. kind \in {"int", "bool"}
    BY <1>2
  <1>4. Res(kind, IF IsVal(x.c) THEN n ELSE x.c, IF IsVal(x.py) THEN m ELSE x.py) \in Right
    BY <1>kind, <1>3, OneOperand
  <1>5. QED
    BY <1>0, <1>2, <1>4, ReduceKeeps

LEMMA HeuristicCompareKeeps ==
  ASSUME AllRight, HeuristicCompare
  PROVE  AllRight'
  <1>0. Has(2)
    BY DEF HeuristicCompare
  <1>1. PICK x \in Right, y \in Right : x = Last(1) /\ y = Last(0)
    BY <1>0, LastRight
  <1>op. PICK op \in {"==", "!=", "<", "<=", ">", ">="} :
           Reduce(2, Res("bool",
                         IF ~IsVal(x.c) THEN x.c ELSE IF ~IsVal(y.c) THEN y.c
                           ELSE PyCompare(op, x.c.v, y.c.v),
                         IF ~IsVal(x.py) THEN x.py ELSE IF ~IsVal(y.py) THEN y.py
                           ELSE PyCompare(op, x.py.v, y.py.v)))
    BY <1>1, Zenon DEF HeuristicCompare, Binary, Strict2
  <1>2. PICK c, py :
          /\ Reduce(2, Res("bool", c, py))
          /\ c = IF ~IsVal(x.c) THEN x.c ELSE IF ~IsVal(y.c) THEN y.c
                 ELSE PyCompare(op, x.c.v, y.c.v)
          /\ py = IF ~IsVal(x.py) THEN x.py ELSE IF ~IsVal(y.py) THEN y.py
                  ELSE PyCompare(op, x.py.v, y.py.v)
    BY <1>op
  <1>3. \A m, n : PyCompare(op, m, n) \in Values /\ PyCompare(op, m, n).b = TRUE
    BY RecordsTyped, ValFacts, Zenon DEF PyCompare, PyBool, Truth
  <1>4. Agrees(c, py) /\ (c \in Values => c.b = TRUE)
    <2>1. CASE x.c \in Values /\ x.py = x.c /\ y.c \in Values /\ y.py = y.c
      BY <1>2, <1>3, <2>1, ValFacts DEF Agrees
    <2>2. CASE x.c = Raise /\ x.py \in {Raise, Outside}
      BY <1>2, <2>2, ValFacts DEF Agrees
    <2>3. CASE x.c \in Values /\ x.py = x.c /\ y.c = Raise /\ y.py \in {Raise, Outside}
      BY <1>2, <2>3, ValFacts DEF Agrees
    <2>4. QED
      BY <2>1, <2>2, <2>3, Operands
  <1>5. Res("bool", c, py) \in Right
    BY <1>4, ResRight DEF Kinds
  <1>6. QED
    BY <1>0, <1>2, <1>5, ReduceKeeps

LEMMA GridCallKeeps ==
  ASSUME AllRight, GridCall
  PROVE  AllRight'
  <1>0. Has(2) /\ Last(0).kind = "int" /\ Last(1).kind = "int"
    BY DEF GridCall
  <1>1. PICK x \in Right, y \in Right : x = Last(1) /\ y = Last(0)
    BY <1>0, LastRight
  <1>2. CASE Arith("cdiv")
    BY <1>0, <1>2, ArithKeeps DEF Ops
  <1>3. CASE ~Arith("cdiv")
    <2>1. PICK c, py :
            /\ Reduce(2, Res("int", c, py))
            /\ c = IF ~IsVal(x.c) THEN x.c ELSE IF ~IsVal(y.c) THEN y.c
                   ELSE Val(IF x.c.v < y.c.v THEN x.c.v ELSE y.c.v, FALSE)
            /\ py = IF ~IsVal(x.py) THEN x.py ELSE IF ~IsVal(y.py) THEN y.py
                    ELSE IF y.py.v < x.py.v THEN y.py ELSE x.py
      BY <1>1, <1>3, Zenon DEF GridCall, Strict2, PyMinMax, PyBeats
    <2>2. IntPair(c, py)
      <3>1. CASE x.c \in Values /\ x.py = x.c /\ y.c \in Values /\ y.py = y.c
        <4>1. /\ x.c = Val(x.c.v, FALSE) /\ y.c = Val(y.c.v, FALSE)
              /\ x.c.v \in Int /\ y.c.v \in Int /\ x.c.b = FALSE /\ y.c.b = FALSE
              /\ IsVal(x.c) /\ IsVal(y.c)
          BY <1>0, <1>1, <3>1, ValFacts, RightFacts, IntsTyped
        <4>2. c = Val(IF x.c.v < y.c.v THEN x.c.v ELSE y.c.v, FALSE)
              /\ py = IF y.c.v < x.c.v THEN y.c ELSE x.c
          BY <2>1, <3>1, <4>1
        <4>3. c \in {x.c, y.c} /\ py = c
          <5>1. PICK a \in Int, b \in Int : a = x.c.v /\ b = y.c.v
            BY <4>1
          <5>2. CASE a < b
            <6>1. ~(b < a)
              BY <5>2
            <6>2. QED
              BY <4>1, <4>2, <5>1, <5>2, <6>1, Zenon
          <5>3. CASE b < a
            <6>1. ~(a < b)
              BY <5>3
            <6>2. QED
              BY <4>1, <4>2, <5>1, <5>3, <6>1, Zenon
          <5>4. CASE a = b
            BY <4>1, <4>2, <5>1, <5>4
          <5>5. QED
            BY <5>2, <5>3, <5>4
        <4>4. QED
          BY <3>1, <4>1, <4>3 DEF IntPair, Agrees
      <3>2. CASE x.c = Raise /\ x.py \in {Raise, Outside}
        BY <2>1, <3>2, ValFacts, RaisesAgree
      <3>3. CASE x.c \in Values /\ x.py = x.c /\ y.c = Raise /\ y.py \in {Raise, Outside}
        BY <2>1, <3>3, ValFacts, RaisesAgree
      <3>4. QED
        BY <3>1, <3>2, <3>3, Operands
    <2>3. Res("int", c, py) \in Right
      BY <2>2, ResRight DEF IntPair, Kinds
    <2>4. QED
      BY <1>0, <2>1, <2>3, ReduceKeeps
  <1>4. QED
    BY <1>2, <1>3

(* A heuristic's temp is an int64_t; what it is set from already was one.  *)
LEMMA AgreedRight ==
  ASSUME NEW c, NEW py, Agrees(c, py)
  PROVE  Res("any", AsInt64(c), py) \in Right
  <1>1. AsInt64(c) = c
    BY Narrow DEF Agrees
  <1>2. QED
    BY <1>1, ResRight DEF Kinds

LEMMA AgreeCases ==
  ASSUME NEW x \in Right
  PROVE  \/ x.c \in Values /\ x.py = x.c /\ IsVal(x.c) /\ x.c.v \in Int
         \/ /\ x.c = Raise /\ x.py \in {Raise, Outside}
            /\ ~IsVal(x.c) /\ ~IsVal(x.py)
  BY RightFacts, ValFacts, IntsTyped DEF Agrees

(* The operand that is not reached is not evaluated, on either side.       *)
LEMMA ChoiceKeeps ==
  ASSUME AllRight, HeuristicBoolOp \/ HeuristicMinMax
  PROVE  AllRight'
  <1>0. Has(2)
    BY DEF HeuristicBoolOp, HeuristicMinMax
  <1>1. PICK x \in Right, y \in Right : x = Last(1) /\ y = Last(0)
    BY <1>0, LastRight
  <1>2. CASE HeuristicBoolOp
    <2>1. PICK op \in {"and", "or"} :
            Reduce(2, Res("any", AsInt64(CBoolOp(op, x.c, y.c)), PyBoolOp(op, x.py, y.py)))
      BY <1>1, <1>2 DEF HeuristicBoolOp
    <2>2. Agrees(CBoolOp(op, x.c, y.c), PyBoolOp(op, x.py, y.py))
      <3>1. CASE x.c = Raise /\ x.py \in {Raise, Outside} /\ ~IsVal(x.c) /\ ~IsVal(x.py)
        BY <3>1 DEF CBoolOp, PyBoolOp, Agrees
      <3>2. CASE x.c \in Values /\ x.py = x.c /\ IsVal(x.c)
        <4>1. \/ CBoolOp(op, x.c, y.c) = x.c /\ PyBoolOp(op, x.py, y.py) = x.py
              \/ CBoolOp(op, x.c, y.c) = y.c /\ PyBoolOp(op, x.py, y.py) = y.py
          BY <3>2 DEF CBoolOp, PyBoolOp
        <4>2. QED
          BY <4>1, RightFacts
      <3>3. QED
        BY <3>1, <3>2, AgreeCases
    <2>3. QED
      BY <1>0, <2>1, <2>2, AgreedRight, ReduceKeeps
  <1>3. CASE HeuristicMinMax
    <2>1. PICK op \in {"min", "max"} :
            Reduce(2, Res("any", AsInt64(CMinMax(op, x.c, y.c)), PyMinMax(op, x.py, y.py)))
      BY <1>1, <1>3 DEF HeuristicMinMax
    <2>2. Agrees(CMinMax(op, x.c, y.c), PyMinMax(op, x.py, y.py))
      <3>1. CASE x.c = Raise /\ x.py \in {Raise, Outside} /\ ~IsVal(x.c) /\ ~IsVal(x.py)
        BY <3>1 DEF CMinMax, PyMinMax, Agrees
      <3>2. CASE /\ x.c \in Values /\ x.py = x.c /\ IsVal(x.c)
                 /\ y.c = Raise /\ y.py \in {Raise, Outside} /\ ~IsVal(y.c) /\ ~IsVal(y.py)
        BY <3>2 DEF CMinMax, PyMinMax, Agrees
      <3>3. CASE /\ x.c \in Values /\ x.py = x.c /\ IsVal(x.c)
                 /\ y.c \in Values /\ y.py = y.c /\ IsVal(y.c)
        <4>1. \/ CMinMax(op, x.c, y.c) = x.c /\ PyMinMax(op, x.py, y.py) = x.py
              \/ CMinMax(op, x.c, y.c) = y.c /\ PyMinMax(op, x.py, y.py) = y.py
          BY <3>3 DEF CMinMax, PyMinMax, PyBeats
        <4>2. QED
          BY <4>1, RightFacts
      <3>4. QED
        BY <3>1, <3>2, <3>3, AgreeCases
    <2>3. QED
      BY <1>0, <2>1, <2>2, AgreedRight, ReduceKeeps
  <1>4. QED
    BY <1>2, <1>3

LEMMA IfRight ==
  ASSUME NEW x \in Right, NEW y \in Right, NEW z \in Right, NEW kind \in Kinds,
         kind = "any" \/ (y.kind = kind /\ z.kind = kind)
  PROVE  /\ Res(kind, CIf(x.c, y.c, z.c), PyIf(x.py, y.py, z.py)) \in Right
         /\ AsInt64(CIf(x.c, y.c, z.c)) = CIf(x.c, y.c, z.c)
  <1>1. CASE x.c = Raise /\ x.py \in {Raise, Outside} /\ ~IsVal(x.c) /\ ~IsVal(x.py)
    <2>1. CIf(x.c, y.c, z.c) = Raise /\ PyIf(x.py, y.py, z.py) \in {Raise, Outside}
      BY <1>1 DEF CIf, PyIf
    <2>2. QED
      BY <2>1, ValFacts, ResRight, Narrow DEF Agrees
  <1>2. CASE x.c \in Values /\ x.py = x.c /\ IsVal(x.c)
    <2>1. \/ CIf(x.c, y.c, z.c) = y.c /\ PyIf(x.py, y.py, z.py) = y.py
          \/ CIf(x.c, y.c, z.c) = z.c /\ PyIf(x.py, y.py, z.py) = z.py
      BY <1>2 DEF CIf, PyIf
    <2>2. QED
      BY <2>1, RightFacts, ResRight, Narrow
  <1>3. QED
    BY <1>1, <1>2, AgreeCases

LEMMA IfKeeps ==
  ASSUME AllRight, GridIf \/ HeuristicIf
  PROVE  AllRight'
  <1>0. Has(3)
    BY DEF GridIf, HeuristicIf
  <1>1. PICK x \in Right, y \in Right, z \in Right : x = Last(2) /\ y = Last(1) /\ z = Last(0)
    BY <1>0, LastRight
  <1>2. PICK kind : /\ kind = "any" \/ (y.kind = kind /\ z.kind = kind)
                    /\ Reduce(3, Res(kind, CIf(x.c, y.c, z.c), PyIf(x.py, y.py, z.py)))
    <2>1. AsInt64(CIf(x.c, y.c, z.c)) = CIf(x.c, y.c, z.c)
      BY IfRight DEF Kinds
    <2>2. QED
      BY <1>1, <2>1 DEF GridIf, HeuristicIf
  <1>3. kind \in Kinds
    BY <1>2, RightFacts DEF Kinds
  <1>4. QED
    BY <1>0, <1>2, <1>3, IfRight, ReduceKeeps

LEMMA HeuristicTritonKeeps ==
  ASSUME AllRight, HeuristicTriton
  PROVE  AllRight'
  <1>1. CASE Has(2) /\ Arith("cdiv")
    BY <1>1, ArithKeeps DEF Ops
  <1>2. CASE Has(1) /\ ~(Has(2) /\ Arith("cdiv"))
    <2>1. PICK x \in Right : x = Last(0)
      BY <1>2, LastRight
    <2>c. AsInt64(Last(0).c) = x.c
      BY <2>1, RightFacts, Narrow
    <2>2. PICK n, m :
            /\ Reduce(1, Res("int", IF IsVal(x.c) THEN n ELSE x.c, IF IsVal(x.py) THEN m ELSE x.py))
            /\ n = intj_grid_next_pow2(x.c.v) /\ m = PyNextPow2(x.py.v)
      BY <1>2, <2>1, <2>c DEF HeuristicTriton, Unary, Strict1
    <2>3. ASSUME x.c \in Values, x.py = x.c
          PROVE  Agrees(n, m) /\ (n \in Values => n.b = ("int" = "bool"))
      BY <2>2, <2>3, ValFacts, NextPow2Agrees DEF IntPair
    <2>4. Res("int", IF IsVal(x.c) THEN n ELSE x.c, IF IsVal(x.py) THEN m ELSE x.py) \in Right
      BY <2>3, OneOperand
    <2>5. QED
      BY <1>2, <2>2, <2>4, ReduceKeeps
  <1>3. QED
    BY <1>1, <1>2 DEF HeuristicTriton

-----------------------------------------------------------------------------
(* The ends: an assignment, a computed key, the dimensions returned.       *)

LEMMA FinishKeeps ==
  ASSUME AllRight, Len(stack) = 1, Finish, stack' = <<>>
  PROVE  AllRight'
  <1>0. stack \in Seq(Right) /\ DOMAIN stack = {1} /\ Last(0) = stack[1] /\ stack[1] \in Right
    BY DEF AllRight, Last
  <1>1. stack' \in Seq(Right)
    OBVIOUS
  <1>2. CASE IsVal(Last(0).c)
    <2>1. [Last(0) EXCEPT !.c = AsInt64(@)] = Last(0)
      BY <1>0, RightFacts, Narrow DEF Right, Results
    <2>2. local' = <<Last(0)>> /\ out' = out
      BY <1>2, <2>1 DEF Finish
    <2>3. local' \in Seq(Right)
      BY <1>0, <2>2
    <2>4. QED
      BY <1>1, <2>2, <2>3 DEF AllRight, OutRight
  <1>3. CASE ~IsVal(Last(0).c)
    <2>1. out' = stack /\ local' = local
      BY <1>3 DEF Finish
    <2>2. \A i \in DOMAIN stack :
            Same(stack[i]) /\ (IsVal(stack[i].c) => stack[i].c.v \in 0 .. DimMax)
      BY <1>0, <1>3, RightFacts
    <2>3. OutRight'
      BY <2>1, <2>2 DEF OutRight
    <2>4. QED
      BY <1>1, <2>1, <2>3 DEF AllRight
  <1>4. QED
    BY <1>2, <1>3

(* A dimension is checked to be Python's, and to fit 32 bits. *)
LEMMA DimAgrees ==
  ASSUME NEW x \in Right, NEW o,
         o = Res("int", IF IsVal(x.c) THEN intj_grid_output(x.c.v) ELSE x.c,
                        IF IsVal(x.py) THEN PyDim(x.py.v) ELSE x.py)
  PROVE  Same(o) /\ (IsVal(o.c) => o.c.v \in 0 .. DimMax)
  <1>1. /\ o.c = IF IsVal(x.c) THEN intj_grid_output(x.c.v) ELSE x.c
        /\ o.py = IF IsVal(x.py) THEN PyDim(x.py.v) ELSE x.py
    BY DEF Res
  <1>2. CASE x.c = Raise /\ x.py \in {Raise, Outside} /\ ~IsVal(x.c) /\ ~IsVal(x.py)
    BY <1>1, <1>2 DEF Same
  <1>3. CASE x.c \in Values /\ x.py = x.c /\ IsVal(x.c) /\ x.c.v \in Int
    <2>1. PICK n \in Int : n = x.c.v
      BY <1>3
    <2>2. o.c = intj_grid_output(n) /\ o.py = PyDim(n)
      BY <1>1, <1>3, <2>1
    <2>3. CASE n \in 0 .. DimMax
      <3>1. ~(n < 0 \/ n >= DimMax + 1)
        BY <2>3, DimAssumption, IntsTyped
      <3>2. o.c = Val(n, FALSE) /\ o.py = Val(n, FALSE)
        BY <2>2, <2>3, <3>1 DEF intj_grid_output, PyDim
      <3>3. Val(n, FALSE).v = n /\ IsVal(Val(n, FALSE))
        BY DEF Val, IsVal
      <3>4. QED
        BY <2>3, <3>2, <3>3 DEF Same
    <2>4. CASE n \notin 0 .. DimMax
      <3>1. n < 0 \/ n >= DimMax + 1
        BY <2>4, DimAssumption, IntsTyped
      <3>2. o.c = Raise /\ o.py = Raise
        BY <2>2, <2>4, <3>1 DEF intj_grid_output, PyDim
      <3>3. QED
        BY <3>2, ValFacts DEF Same
    <2>5. QED
      BY <2>3, <2>4
  <1>4. QED
    BY <1>2, <1>3, AgreeCases

LEMMA GridReturnKeeps ==
  ASSUME AllRight, GridReturn
  PROVE  AllRight'
  <1>1. stack \in Seq(Right) /\ DOMAIN stack = 1 .. Len(stack)
        /\ \A i \in DOMAIN stack : stack[i] \in Right
    BY DEF AllRight
  <1>2. PICK g : /\ DOMAIN g = DOMAIN stack /\ out' = g
                 /\ \A i \in DOMAIN stack :
                      g[i] = Res("int", IF IsVal(stack[i].c) THEN intj_grid_output(stack[i].c.v)
                                        ELSE stack[i].c,
                                        IF IsVal(stack[i].py) THEN PyDim(stack[i].py.v)
                                        ELSE stack[i].py)
    BY DEF GridReturn, Strict1
  <1>3. \A i \in DOMAIN g : Same(g[i]) /\ (IsVal(g[i].c) => g[i].c.v \in 0 .. DimMax)
    BY <1>1, <1>2, DimAgrees
  <1>4. OutRight'
    BY <1>2, <1>3 DEF OutRight
  <1>5. stack' \in Seq(Right) /\ local' \in Seq(Right)
    BY DEF AllRight, GridReturn
  <1>6. QED
    BY <1>4, <1>5 DEF AllRight

-----------------------------------------------------------------------------
(* The invariant *)

LEMMA InitIInv == Init => IInv
  <1> SUFFICES ASSUME Init PROVE IInv
    OBVIOUS
  <1>1. stack \in Seq(Right) /\ local \in Seq(Right)
    BY DEF Init
  <1>2. OutRight
    BY DEF Init, OutRight
  <1>3. QED
    BY <1>1, <1>2 DEF Init, IInv, AllRight

(* A step that spells no wide int. *)
LEMMA StepKeeps ==
  ASSUME AllRight, ~wide, ~wide', Next
  PROVE  AllRight'
  <1>1. CASE GridInput \/ GridDep
    BY <1>1, GridInputKeeps, GridDepKeeps
  <1>2. CASE GridLiteral \/ GridName \/ HeuristicDep \/ HeuristicComp \/ HeuristicLiteral
    BY <1>2, ValueKeeps
  <1>3. CASE GridBaked \/ HeuristicBaked
    BY <1>3, BakedKeeps
  <1>4. CASE GridUnary \/ HeuristicUnary
    BY <1>4, UnaryKeeps
  <1>5. CASE GridArith \/ HeuristicArith
    BY <1>5, ArithKeeps DEF GridArith, HeuristicArith, Ops
  <1>6. CASE GridCall
    BY <1>6, GridCallKeeps
  <1>7. CASE GridIf \/ HeuristicIf
    BY <1>7, IfKeeps
  <1>8. CASE GridAssign \/ ComputedDone
    BY <1>8, FinishKeeps DEF GridAssign, ComputedDone
  <1>9. CASE GridReturn
    BY <1>9, GridReturnKeeps
  <1>10. CASE HeuristicInput \/ HeuristicIsNone \/ HeuristicDtype \/ TensorRead
    BY <1>10, HeuristicInputKeeps, HeuristicIsNoneKeeps, HeuristicDtypeKeeps, TensorReadKeeps
  <1>11. CASE HeuristicCompare \/ HeuristicBoolOp \/ HeuristicMinMax \/ HeuristicTriton
    BY <1>11, HeuristicCompareKeeps, ChoiceKeeps, HeuristicTritonKeeps
  <1>12. QED
    BY <1>1, <1>2, <1>3, <1>4, <1>5, <1>6, <1>7, <1>8, <1>9, <1>10, <1>11
    DEF Next, GridStep, HeuristicStep

(* A launcher is lowered for a grid or for a heuristic, for good. *)
LEMMA LoweringFixed == Next => lowering' = lowering
  <1> SUFFICES ASSUME Next PROVE lowering' = lowering
    OBVIOUS
  <1>1. CASE GridInput \/ GridDep \/ GridBaked \/ GridLiteral \/ GridName
    BY <1>1 DEF GridInput, GridDep, GridBaked, GridLiteral, GridName, Push, Add
  <1>2. CASE GridUnary \/ GridArith \/ GridCall \/ GridIf
    BY <1>2 DEF GridUnary, GridArith, GridCall, GridIf, Unary, Binary, Arith, Reduce
  <1>3. CASE GridAssign \/ GridReturn \/ ComputedDone
    BY <1>3 DEF GridAssign, GridReturn, ComputedDone
  <1>4. CASE HeuristicInput \/ HeuristicDep \/ HeuristicComp \/ HeuristicBaked
               \/ HeuristicLiteral \/ HeuristicIsNone \/ HeuristicDtype \/ TensorRead
    BY <1>4 DEF HeuristicInput, HeuristicDep, HeuristicComp, HeuristicBaked,
                HeuristicLiteral, HeuristicIsNone, HeuristicDtype, TensorRead, Push, Add
  <1>5. CASE HeuristicArith \/ HeuristicUnary \/ HeuristicCompare \/ HeuristicBoolOp
               \/ HeuristicIf \/ HeuristicMinMax \/ HeuristicTriton
    BY <1>5 DEF HeuristicArith, HeuristicUnary, HeuristicCompare, HeuristicBoolOp,
                HeuristicIf, HeuristicMinMax, HeuristicTriton, Unary, Binary, Arith, Reduce
  <1>6. QED
    BY <1>1, <1>2, <1>3, <1>4, <1>5 DEF Next, GridStep, HeuristicStep

(* Only a heuristic's baked value makes an evaluation wide. *)
LEMMA WideFixed == Next /\ ~HeuristicBaked => wide' = wide
  <1> SUFFICES ASSUME Next, ~HeuristicBaked PROVE wide' = wide
    OBVIOUS
  <1>1. CASE GridInput \/ GridDep \/ GridBaked \/ GridLiteral \/ GridName
    BY <1>1 DEF GridInput, GridDep, GridBaked, GridLiteral, GridName, Push
  <1>2. CASE GridUnary \/ GridArith \/ GridCall \/ GridIf
    BY <1>2 DEF GridUnary, GridArith, GridCall, GridIf, Unary, Binary, Arith, Reduce
  <1>3. CASE GridAssign \/ GridReturn \/ ComputedDone
    BY <1>3 DEF GridAssign, GridReturn, ComputedDone
  <1>4. CASE HeuristicInput \/ HeuristicDep \/ HeuristicComp
               \/ HeuristicLiteral \/ HeuristicIsNone \/ HeuristicDtype \/ TensorRead
    BY <1>4 DEF HeuristicInput, HeuristicDep, HeuristicComp,
                HeuristicLiteral, HeuristicIsNone, HeuristicDtype, TensorRead, Push
  <1>5. CASE HeuristicArith \/ HeuristicUnary \/ HeuristicCompare \/ HeuristicBoolOp
               \/ HeuristicIf \/ HeuristicMinMax \/ HeuristicTriton
    BY <1>5 DEF HeuristicArith, HeuristicUnary, HeuristicCompare, HeuristicBoolOp,
                HeuristicIf, HeuristicMinMax, HeuristicTriton, Unary, Binary, Arith, Reduce
  <1>6. QED
    BY <1>1, <1>2, <1>3, <1>4, <1>5 DEF Next, GridStep, HeuristicStep

LEMMA StepIInv == IInv /\ [Next]_vars => IInv'
  <1> SUFFICES ASSUME IInv, [Next]_vars PROVE IInv'
    OBVIOUS
  <1>1. CASE UNCHANGED vars
    BY <1>1 DEF IInv, AllRight, OutRight, vars
  <1>2. CASE Next /\ ~HeuristicBaked
    <2>1. wide' = wide /\ lowering' = lowering
      BY <1>2, WideFixed, LoweringFixed
    <2>2. ~wide' => AllRight'
      BY <1>2, <2>1, StepKeeps DEF IInv
    <2>3. QED
      BY <2>1, <2>2 DEF IInv
  <1>3. CASE HeuristicBaked
    <2>1. /\ lowering = "heuristic" /\ lowering' = lowering
          /\ wide' \in BOOLEAN /\ (~wide' => ~wide)
      BY <1>3 DEF HeuristicBaked, Heuristic, Add, IInv
    <2>2. ~wide' => AllRight'
      BY <1>3, <2>1, BakedKeeps DEF IInv
    <2>3. QED
      BY <2>1, <2>2 DEF IInv
  <1>4. QED
    BY <1>1, <1>2, <1>3

(* Every evaluation, of any nesting, has only right results until it has   *)
(* spelled a baked int outside int64, which a grid never does.             *)
THEOREM LoweringInvariance == Spec => []IInv
  <1>1. QED
    BY InitIInv, StepIInv, PTL DEF Spec

(* Every expression of a grid, whatever is baked, and every expression of  *)
(* a heuristic that reads no baked int outside int64, has Python's value   *)
(* and kind, or fails where Python does or an int has left int64 (grid.py, *)
(* heuristic.py, intj_runtime.h), for an int64 of any width.               *)
THEOREM ExpressionsAgree == Spec => []LoweredAgrees
  <1>1. IInv => LoweredAgrees
    <2>1. ASSUME IInv, WithinInt64 PROVE AllRight
      BY <2>1 DEF IInv, WithinInt64
    <2>2. QED
      BY <2>1, RightFacts DEF AllRight, LoweredAgrees, Right
  <1>2. QED
    BY <1>1, LoweringInvariance, PTL

(* What leaves an evaluator agrees with Python too, and a dimension it     *)
(* hands the driver is one of 32 bits (intj_grid_output): of every grid,   *)
(* whatever is baked, and of a heuristic that reads no int outside int64.  *)
THEOREM DimensionsAgree == Spec => []HandedOnAgrees
  <1>1. IInv => HandedOnAgrees
    <2>1. ASSUME IInv, WithinInt64 PROVE OutRight
      BY <2>1 DEF IInv, WithinInt64, AllRight
    <2>2. QED
      BY <2>1 DEF HandedOnAgrees, OutRight
  <1>2. QED
    BY <1>1, LoweringInvariance, PTL
=============================================================================
