------------------------------ MODULE KeyLayout ------------------------------
(***************************************************************************)
(* Annotations, the fields they contribute to a launcher's spec key, and   *)
(* the placement of these fields (src/intj/annotation.py,                  *)
(* src/intj/specialization.py, src/intj/scalar_types.py).                  *)
(*                                                                         *)
(* A type is a record of its class, its bits as its name has them, and, of *)
(* a pointer, the index of its element's dtype.                            *)
(***************************************************************************)
EXTENDS Integers, Sequences, FiniteSets

CONSTANT Launchers  (* what launchers there may be, see LaunchersTyped     *)

VARIABLES
  launcher, (* the launcher, fixed                                         *)
  todo,     (* its key fields that have no place yet                       *)
  offset,   (* field -> its first byte, or -1                              *)
  end,      (* the bytes given away                                        *)
  deviceAt  (* the byte of the device slot, or -1                          *)

layout == <<launcher, todo, offset, end, deviceAt>>

-----------------------------------------------------------------------------
(* Types (SCALARS and the pointers) *)

Type(cls, bits, dtype) == [cls |-> cls, bits |-> bits, dtype |-> dtype]
Signed(bits)   == Type("signed", bits, 0)
Unsigned(bits) == Type("unsigned", bits, 0)
Float(bits)    == Type("float", bits, 0)
Pointer(dtype) == Type("pointer", 0, dtype)
BoolType       == Type("bool", 1, 0)
NoneType       == Type("none", 0, 0)

IsInteger(t) == t.cls \in {"signed", "unsigned"}

(* The bytes a constexpr of this type keys its value in.                   *)
KeyBytes(t) == IF t.cls = "none" THEN 0 ELSE IF t.bits < 8 THEN 1 ELSE t.bits \div 8

(* A type is tried before those it is narrower than.                       *)
Narrower(t, u) == \/ t.bits < u.bits
                  \/ t.bits = u.bits /\ t.cls # "unsigned"

(* The facts a value of this type may have.                                *)
Applicable(t) == CASE t.cls = "pointer" -> {"aligned", "range"}
                   [] IsInteger(t)      -> {"one", "aligned"}
                   [] OTHER             -> {}

-----------------------------------------------------------------------------
(* Annotations: types is {} for inferred; modes maps each fact to "auto",  *)
(* "never" or "assume"; how is "public", "baked" (value is fixed),         *)
(* "tensor" or "pointer" (bound); a dynamic value is a further parameter.  *)

Facts == {"one", "aligned", "range"}
Modes == [Facts -> {"auto", "never", "assume"}]
IsAuto(a, t, fact) == a.modes[fact] = "auto" /\ fact \in Applicable(t)
Inferred(a)  == a.types = {}
OneType(a)   == Cardinality(a.types) = 1
TheType(a)   == CHOOSE t \in a.types : TRUE

(* The bits of the types that there are.                                   *)
ASSUME LaunchersTyped ==
  \A l \in Launchers : \A i \in DOMAIN l.params :
    \A t \in l.params[i].types : t.bits \in {0, 1, 8, 16, 32, 64}

-----------------------------------------------------------------------------
(* Key fields (_cache_key_fields, _dynamic_key_fields) *)

HasDescriptor(a) ==
  \/ Inferred(a) \/ ~OneType(a)
  \/ \E t \in a.types, fact \in Facts : IsAuto(a, t, fact)

(* The widths of a constexpr's types; of an inferred one, every value's.   *)
PayloadBytes(a) ==
  IF Inferred(a) THEN 8
  ELSE LET bytes == {KeyBytes(t) : t \in a.types} IN
       CHOOSE n \in bytes : \A m \in bytes : m <= n

ExactFields == {[kind |-> "exact_kind", width |-> 1], [kind |-> "exact", width |-> 8]}

ConstexprFields(a) ==
  IF a.powerOfTwo THEN {[kind |-> "payload", width |-> 1]}
  ELSE (IF Inferred(a) \/ ~OneType(a) THEN {[kind |-> "descriptor", width |-> 1]} ELSE {})
       \union (IF PayloadBytes(a) > 0
                 THEN {[kind |-> "payload", width |-> PayloadBytes(a)]} ELSE {})

ArgumentFields(a) ==
  (IF HasDescriptor(a) THEN {[kind |-> "descriptor", width |-> 1]} ELSE {})
  \union (IF a.exactKey THEN ExactFields ELSE {})

CacheKeyFields(a) ==
  IF a.kind = "dynamic" THEN ExactFields
  ELSE IF a.how # "public" THEN {}
  ELSE IF a.kind = "constexpr" THEN ConstexprFields(a)
  ELSE ArgumentFields(a)

(* The fields of a launcher's key: of its parameters, in their order.      *)
Fields(l) ==
  UNION {{[param |-> i, kind |-> f.kind, width |-> f.width] :
             f \in CacheKeyFields(l.params[i])} : i \in DOMAIN l.params}

-----------------------------------------------------------------------------
(* The placement (_layout_fields) *)

KindOrder == [descriptor |-> 1, payload |-> 2, exact_kind |-> 3, exact |-> 4]

(* Mutant of Before: the fields are placed in the order they come. *)
BeforeInOrder(f, g) ==
  \/ f.param < g.param
  \/ f.param = g.param /\ KindOrder[f.kind] < KindOrder[g.kind]

(* The widest first, and among them in the order they come.                *)
Before(f, g) ==
  \/ f.width > g.width
  \/ /\ f.width = g.width
     /\ \/ f.param < g.param
        \/ f.param = g.param /\ KindOrder[f.kind] < KindOrder[g.kind]

Place(f) ==
  /\ f \in todo
  /\ \A g \in todo \ {f} : Before(f, g)
  /\ offset' = [offset EXCEPT ![f] = end]
  /\ end' = end + f.width
  /\ todo' = todo \ {f}
  /\ UNCHANGED <<launcher, deviceAt>>

(* The device slot follows the fields, unless the device is fixed.         *)
PlaceDevice ==
  /\ todo = {} /\ ~launcher.fixedDevice /\ deviceAt = -1
  /\ deviceAt' = end
  /\ end' = end + 1
  /\ UNCHANGED <<launcher, todo, offset>>

Placed == todo = {} /\ (launcher.fixedDevice \/ deviceAt # -1)

Words == (end + 7) \div 8

LayoutInit ==
  /\ launcher \in Launchers
  /\ todo = Fields(launcher)
  /\ offset = [f \in Fields(launcher) |-> -1]
  /\ end = 0 /\ deviceAt = -1
=============================================================================
