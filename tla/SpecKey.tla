------------------------------- MODULE SpecKey -------------------------------
(***************************************************************************)
(* The packing of a call into a spec key, and what its key's first miss    *)
(* compiles: intj_pack of src/intj/render/entry.c.jinja with the decoders  *)
(* of src/intj/runtime/intj_runtime.h, and compiler_input of               *)
(* src/intj/specialization.py.                                             *)
(*                                                                         *)
(* Integers are scaled: Bits says how many bits stand for the 8, 16, 32    *)
(* and 64 of a type's name.  Everything C reads of a value is a number, so *)
(* a float and an integer may have the same bits.                          *)
(***************************************************************************)
EXTENDS CompileOptions

CONSTANTS
  Arguments(_),(* a launcher -> the argument lists that its calls pass     *)
  Bits,        (* 8, 16, 32, 64 -> the bits that stand for them            *)
  Divisor,     (* the divisibility that is keyed, 16 in the code           *)
  Devices,     (* device ordinals that calls pass                          *)
  DeviceCount, (* the ordinals that one byte holds, 256 in the code        *)
  Single,      (* a double's bits -> the bits of the float it rounds to    *)
  Overflows,   (* the finite doubles that are too large for a float        *)
  DoubleOf,    (* an integer -> the bits of the double it converts to      *)
  MaxKernels   (* bound: records of one launcher                           *)

(* How many values a type has. *)
Size(bits) == 2 ^ Bits[bits]
Two64 == Size(64)
AsSigned(bits) == IF bits < Two64 \div 2 THEN bits ELSE bits - Two64

(* Each size is a multiple of the next smaller, as powers of two are; C    *)
(* has room for a power's exponent in seven bits.                          *)
ASSUME SizesAssumption ==
  /\ \A bits \in {8, 16, 32, 64} : Size(bits) \in Nat /\ Size(bits) >= 4 /\ Size(bits) % 2 = 0
  /\ Size(16) % Size(8) = 0 /\ Size(32) % Size(16) = 0 /\ Size(64) % Size(32) = 0
  /\ Bits[64] \in 0 .. 128

ASSUME DivisorAssumption == Divisor \in Nat /\ Divisor > 1 /\ Two64 % Divisor = 0

ASSUME DevicesAssumption == Devices \subseteq Nat /\ DeviceCount \in Nat /\ DeviceCount > 0

(* The types of a constexpr, and of an argument.                           *)
ConstexprTypes ==
  {NoneType, BoolType, Float(64)} \union {Signed(bits) : bits \in {8, 16, 32, 64}}
  \union {Unsigned(bits) : bits \in {8, 16, 32, 64}}
ArgumentTypes == ConstexprTypes \union {Float(32)} \union {Pointer(dtype) : dtype \in 0 .. 31}

(* A value that a call may pass, or that is baked or bound.                *)
IsValue(v) ==
  /\ v.kind \in {"tensor", "int", "bool", "float", "none", "object"}
  /\ v.n \in Int /\ v.dtype \in 0 .. 31 /\ v.small \in BOOLEAN /\ v.own \subseteq BOOLEAN
  /\ v.kind = "none" => v.n = 0
  /\ v.kind = "bool" => v.n \in {0, 1}
  /\ v.kind \in {"tensor", "float", "object"} => v.n \in 0 .. Two64 - 1

(* What _merge_annotations leaves of an annotation.                        *)
IsAnnotation(a) ==
  /\ a.kind \in {"argument", "constexpr", "dynamic"} /\ a.modes \in Modes
  /\ {a.powerOfTwo, a.exactKey, a.tritonTyped, a.tensorOnly, a.noneOk, a.ptrRange} \subseteq BOOLEAN
  /\ a.types \subseteq (IF a.kind = "argument" THEN ArgumentTypes ELSE ConstexprTypes)
  /\ a.tritonTyped => a.kind = "argument" /\ OneType(a) /\ NoneType \notin a.types
  /\ (a.kind = "argument" /\ a.how # "public") => OneType(a)
  /\ a.how \in {"tensor", "pointer"} =>
       /\ a.kind = "argument" /\ IsValue(a.value)
       /\ \A t \in a.types, fact \in Facts : ~IsAuto(a, t, fact)
  /\ a.how = "baked" => IsValue(a.value) /\ a.value.kind # "tensor"
  /\ a.kind = "dynamic" => ~a.exactKey

ASSUME AnnotationsTyped ==
  \A l \in Launchers :
    /\ {l.fixedDevice, l.keysRange} \subseteq BOOLEAN
    /\ \A i \in DOMAIN l.params :
         /\ IsAnnotation(l.params[i])
         /\ l.params[i].how = "public" => \A args \in Arguments(l) : IsValue(args[i])

VARIABLES
  cache, (* key -> what was compiled for it                                *)
  call   (* the call under way, or Idle                                    *)

vars == <<layout, cache, call>>

Idle == [pc |-> "idle"]

-----------------------------------------------------------------------------
(* Decoding (the intj_decode functions).  within: the tensor's storage, or *)
(* its own ptr_range(), is small; what is no tensor has no storage.        *)

Decoded(kind, bits) == [kind |-> kind, bits |-> bits, dtype |-> 0, within |-> TRUE]
Refused == Decoded("refused", 0)

DecodeInt(n) ==
  CASE -(Two64 \div 2) <= n /\ n < Two64 \div 2 -> Decoded("i64", n % Two64)
    [] Two64 \div 2 <= n /\ n < Two64           -> Decoded("u64", n)
    [] OTHER                                    -> Refused

DecodeScalar(v) ==
  CASE v.kind = "int" -> DecodeInt(v.n)
    [] v.kind = "bool" -> Decoded("bool", v.n)
    [] v.kind = "float" -> Decoded("fp64", v.n)
    [] v.kind = "none" -> Decoded("none", 0)
    [] OTHER -> Refused

DecodeTensor(v, within) ==
  [kind |-> "tensor", bits |-> v.n, dtype |-> v.dtype, within |-> within]

(* Triton's own conversions: of floats, and of integers.                   *)
DecodeTypedFloat(v) ==
  CASE v.kind = "float" -> Decoded("fp64", v.n)
    [] v.kind \in {"int", "bool"} -> Decoded("fp64", DoubleOf[v.n])
    [] OTHER -> Refused

DecodeTypedInt(t, v) ==
  LET unsigned == t.cls # "signed"
      d == IF v.kind = "int" THEN DecodeInt(v.n) ELSE Refused
  IN
  CASE v.kind = "bool" -> Decoded("bool", v.n)
    [] v.kind = "int" /\ unsigned /\ v.n >= 0 /\ d # Refused -> Decoded("u64", d.bits)
    [] v.kind = "int" /\ ~unsigned /\ d.kind = "i64" -> d
    [] OTHER -> Refused

DecodeTyped(a, v) ==
  IF TheType(a).cls = "float" THEN DecodeTypedFloat(v) ELSE DecodeTypedInt(TheType(a), v)

IsTyped(a) == a.tritonTyped /\ a.how = "public" /\ TheType(a).cls # "pointer"
TakesObjects(a) ==
  \/ a.kind = "dynamic"
  \/ a.kind = "constexpr" /\ Inferred(a) /\ ~a.powerOfTwo

Decode(a, v, within) ==
  CASE a.kind = "argument" /\ IsTyped(a) -> DecodeTyped(a, v)
    [] a.kind = "argument" /\ ~IsTyped(a) /\ v.kind = "tensor" -> DecodeTensor(v, within)
    [] a.kind = "argument" /\ ~IsTyped(a) /\ v.kind # "tensor" ->
         IF a.tensorOnly /\ ~(a.noneOk /\ v.kind = "none") THEN Refused ELSE DecodeScalar(v)
    [] a.kind # "argument" ->
         IF v.kind = "object" /\ TakesObjects(a) THEN Decoded("object", v.n) ELSE DecodeScalar(v)

-----------------------------------------------------------------------------
(* Types and codes *)

InferType(d) ==
  CASE d.kind = "tensor" -> Pointer(d.dtype)
    [] d.kind = "bool" -> BoolType
    [] d.kind = "i64" -> IF AsSigned(d.bits) \in -(Size(32) \div 2) .. Size(32) \div 2 - 1
                           THEN Signed(32) ELSE Signed(64)
    [] d.kind = "u64" -> Unsigned(64)
    [] d.kind = "fp64" -> Float(32)
    [] OTHER -> NoneType

(* The macro type_valid: the decoded value is one of the type.             *)
TypeValid(t, d) ==
  CASE t.cls = "none" -> d.kind = "none"
    [] t.cls = "pointer" -> \/ d.kind = "none" \/ d = Decoded("i64", 0)
                            \/ d.kind = "tensor" /\ d.dtype = t.dtype
    [] t.cls = "bool" -> d.kind = "bool"
    [] t.cls = "float" -> d.kind = "fp64" /\ (t.bits = 64 \/ d.bits \notin Overflows)
    [] t.cls = "signed" -> /\ d.kind = "i64"
                           /\ AsSigned(d.bits) \in -(Size(t.bits) \div 2) .. Size(t.bits) \div 2 - 1
    [] t.cls = "unsigned" -> /\ (d.kind = "u64" \/ (d.kind = "i64" /\ AsSigned(d.bits) >= 0))
                             /\ d.bits < Size(t.bits)

(* The type a value keys and packs as; of several a constexpr has the      *)
(* narrowest.                                                              *)
Fitting(a, d) == {t \in a.types : TypeValid(t, d)}
TypeOf(a, d) ==
  CASE a.kind = "constexpr" /\ ~Inferred(a) /\ ~OneType(a) /\ Fitting(a, d) # {} ->
         CHOOSE t \in Fitting(a, d) : \A u \in Fitting(a, d) \ {t} : Narrower(t, u)
    [] ~Inferred(a) /\ OneType(a) -> TheType(a)
    [] OTHER -> InferType(d)

(* INTJ_B_*: a pointer's code has its dtype above two bits, an integer's   *)
(* leaves the lowest free.                                                 *)
IntegerCode(t) ==
  LET signed == t.cls = "signed" IN
  CASE t.bits = 8  -> IF signed THEN 144 ELSE 146
    [] t.bits = 16 -> IF signed THEN 148 ELSE 150
    [] t.bits = 32 -> IF signed THEN 128 ELSE 152
    [] t.bits = 64 -> IF signed THEN 130 ELSE 132
TypeCode(t) ==
  CASE t.cls = "pointer" -> 4 * t.dtype
    [] IsInteger(t) -> IntegerCode(t)
    [] t.cls = "float" -> IF t.bits = 32 THEN 134 ELSE 143
    [] t.cls = "bool" -> 135
    [] t.cls = "none" -> 136
One == 137

(* intj_constexpr_type *)
ConstexprCode(d) ==
  CASE d.kind = "bool" -> 139 [] d.kind = "i64" -> 140 [] d.kind = "u64" -> 141
    [] d.kind = "fp64" -> 142 [] d.kind = "object" -> 154 [] OTHER -> 138

SetBit(code, bit) == IF (code \div bit) % 2 = 1 THEN code ELSE code + bit

(* Mutant of IsOne: Triton-typed and NEVER parameters fold 1 as well. *)
IsOneAlways(a, t, d) == IsInteger(t) /\ d.bits = 1

(* An integer that keys and compiles as the constant 1.                    *)
IsOne(a, t, d) == /\ IsInteger(t) /\ a.modes["one"] # "never"
                  /\ a.modes["one"] = "auto" => d.bits = 1

AlignedCode(a, t, d) ==
  /\ a.modes["aligned"] = "auto" /\ d.bits % Divisor = 0
  /\ IsTyped(a) => d.kind # "bool"
  /\ (t.cls = "pointer" \/ IsInteger(t))

WithinCode(a, t, d) ==
  a.modes["range"] = "auto" /\ launcher.keysRange /\ t.cls = "pointer" /\ d.within

ArgumentCode(a, t, d) ==
  IF IsOne(a, t, d) THEN One
  ELSE LET c == IF ~AlignedCode(a, t, d) THEN TypeCode(t)
                ELSE SetBit(TypeCode(t), IF t.cls = "pointer" THEN 2 ELSE 1)
       IN IF WithinCode(a, t, d) THEN SetBit(c, 1) ELSE c

(* intj_power_of_two_or_zero, of a magnitude and a sign                    *)
Magnitude(d) == IF d.kind = "i64" /\ AsSigned(d.bits) < 0 THEN Two64 - d.bits ELSE d.bits
Powers == {2 ^ k : k \in 0 .. Bits[64] - 1}
PowerCode(d) ==
  IF d.bits = 0 THEN 0
  ELSE LET k == CHOOSE k \in 0 .. Bits[64] - 1 : 2 ^ k = Magnitude(d)
       IN k + 1 + IF d.kind = "i64" /\ AsSigned(d.bits) < 0 THEN 128 ELSE 0

(* The checks of verify_annotation                                         *)
Checks(a, d) ==
  /\ (a.types # {} /\ ~IsTyped(a)) =>
       IF OneType(a) THEN TypeValid(TheType(a), d)
       ELSE IF a.kind = "constexpr" THEN Fitting(a, d) # {} ELSE InferType(d) \in a.types
  /\ a.powerOfTwo => d.kind \in {"i64", "u64"} /\ Magnitude(d) \in Powers \union {0}
  /\ a.kind = "argument" =>
       LET t == TypeOf(a, d) IN
       /\ (a.modes["one"] = "assume" /\ IsInteger(t)) => d.bits = 1
       /\ (a.modes["aligned"] = "assume" /\ "aligned" \in Applicable(t))
            => d.bits % Divisor = 0
       /\ (a.modes["range"] = "assume" /\ t.cls = "pointer") => d.within

Accepts(a, d) == d # Refused /\ (a.how \in {"baked", "pointer"} \/ a.kind = "dynamic" \/ Checks(a, d))

(* What is decided before calls: a baked argument is of its type (fits, as *)
(* annotations are merged), and a bound one passes a pointer, or None.     *)
FixedFits(a) ==
  a.kind = "argument" =>
    /\ a.how = "baked" => TypeValid(TheType(a), Decode(a, a.value, TRUE))
    /\ a.how \in {"tensor", "pointer"} => TheType(a).cls \in {"none", "pointer"}

ASSUME FixedFit == \A l \in Launchers : \A i \in DOMAIN l.params : FixedFits(l.params[i])

-----------------------------------------------------------------------------
(* A call *)

Param(i) == launcher.params[i]

(* A fixed or bound value is the launcher's, a public one the call's.      *)
Passed(c, i) == IF Param(i).how = "public" THEN c.args[i] ELSE Param(i).value

(* What asking a tensor for its range may answer: its own ptr_range(), if  *)
(* it has one and the annotation wants it, anything each time.             *)
Answers(a, v) == CASE v.kind # "tensor" -> {TRUE}
                   [] v.kind = "tensor" /\ a.ptrRange /\ v.own # {} -> v.own
                   [] OTHER -> {v.small}

(* The range is read only if a key or a check needs it.                    *)
Asked(a, v) ==
  IF \/ a.modes["range"] = "auto" /\ launcher.keysRange
     \/ a.modes["range"] = "assume"
  THEN Answers(a, v) ELSE {TRUE}

ValueKind == [tensor |-> 0, bool |-> 1, i64 |-> 2, u64 |-> 3, fp64 |-> 4, none |-> 5, object |-> 6]

(* A field's content: C casts it to the field's width.                     *)
Content(f, a, d) ==
  CASE f.kind = "descriptor" /\ a.kind = "argument" -> ArgumentCode(a, TypeOf(a, d), d)
    [] f.kind = "descriptor" /\ a.kind = "constexpr" ->
         IF Inferred(a) THEN ConstexprCode(d) ELSE TypeCode(TypeOf(a, d))
    [] f.kind = "payload" ->
         IF a.powerOfTwo THEN PowerCode(d) ELSE d.bits % Size(8 * f.width)
    [] f.kind = "exact_kind" -> ValueKind[d.kind]
    [] f.kind = "exact" -> d.bits

(* The kernel's parameters that C passes, each in its slot of vals.        *)
Pushes(a, d) ==
  a.kind = "argument" /\ TypeOf(a, d) # NoneType /\ ~IsOne(a, TypeOf(a, d), d)

PackValue(t, bits) == IF t = Float(32) THEN Single[bits] ELSE bits

(* The auto path: if no parameter is annotated, C decodes and codes each   *)
(* value in one go (the decode_auto macros).                               *)
Plain(a) == /\ a.kind # "dynamic" /\ Inferred(a) /\ a.how = "public"
            /\ ~a.powerOfTwo /\ ~a.ptrRange /\ ~a.exactKey
            /\ \A fact \in Facts : a.modes[fact] = "auto"
AutoDecodes == \A i \in DOMAIN launcher.params : Plain(Param(i))

AutoAccepts(a, v) ==
  CASE v.kind = "object" -> a.kind = "constexpr"
    [] v.kind = "tensor" -> a.kind = "argument"
    [] v.kind = "none" /\ a.tensorOnly -> a.noneOk
    [] OTHER -> ~a.tensorOnly /\ DecodeScalar(v) # Refused

AutoCode(v) ==
  LET aligned == IF v.n % Divisor = 0 THEN 1 ELSE 0 IN
  CASE v.kind = "tensor" -> 4 * v.dtype + 2 * aligned
                            + (IF launcher.keysRange /\ v.small THEN 1 ELSE 0)
    [] v.kind = "int" -> IF v.n = 1 THEN One ELSE TypeCode(InferType(DecodeInt(v.n))) + aligned
    [] OTHER -> TypeCode(InferType(DecodeScalar(v)))

AutoContent(f, a, v) ==
  LET d == IF v.kind = "object" THEN Decoded("object", v.n) ELSE DecodeScalar(v) IN
  CASE f.kind = "payload" -> d.bits
    [] f.kind = "descriptor" /\ a.kind = "constexpr" -> ConstexprCode(d)
    [] f.kind = "descriptor" /\ a.kind = "argument" -> AutoCode(v)

AutoPushed(a, v) ==
  CASE a.kind = "constexpr" \/ v.kind = "none" \/ (v.kind = "int" /\ v.n = 1) -> <<>>
    [] OTHER -> <<CASE v.kind = "float" -> Single[v.n]
                    [] v.kind = "int"   -> v.n % Two64
                    [] OTHER            -> v.n>>

(* A fixed device is bound with the launcher: calls pass none.             *)
CallDevices == IF launcher.fixedDevice THEN {0} ELSE Devices

Call(args, dev) ==
  /\ Placed /\ call = Idle
  /\ (~launcher.fixedDevice) => dev < DeviceCount
  /\ call' = [pc |-> "pack", args |-> args, dev |-> dev,
              key |-> {}, vals |-> <<>>, within |-> <<>>]
  /\ UNCHANGED <<layout, cache>>

(* The parameter that is packed next; a fixed constexpr is not decoded.    *)
Current == Len(call.within) + 1
Packing == call.pc = "pack" /\ Current <= Len(launcher.params)
Skipped(a) == a.kind = "constexpr" /\ a.how = "baked"

Packed(within, key, pushed) ==
  call' = [call EXCEPT !.within = Append(@, within),
                       !.key = @ \union {<<offset[f], key[f]>> : f \in DOMAIN key},
                       !.vals = @ \o pushed]

FieldsNow == {f \in DOMAIN offset : f.param = Current}

Pack ==
  /\ Packing /\ ~AutoDecodes
  /\ LET a == Param(Current)
         v == Passed(call, Current)
     IN \E within \in Asked(a, v) :
          LET d == Decode(a, v, within) IN
          IF Skipped(a) THEN Packed(TRUE, <<>>, <<>>)
          ELSE IF ~Accepts(a, d) \/ (a.exactKey /\ d.kind = "tensor") THEN call' = Idle
          ELSE Packed(within, [f \in FieldsNow |-> Content(f, a, d)],
                      IF Pushes(a, d) THEN <<PackValue(TypeOf(a, d), d.bits)>> ELSE <<>>)
  /\ UNCHANGED <<layout, cache>>

PackAuto ==
  /\ Packing /\ AutoDecodes
  /\ LET a == Param(Current)
         v == Passed(call, Current)
     IN IF ~AutoAccepts(a, v) THEN call' = Idle
        ELSE Packed(v.kind # "tensor" \/ v.small,
                    [f \in FieldsNow |-> AutoContent(f, a, v)], AutoPushed(a, v))
  /\ UNCHANGED <<layout, cache>>

(* A tensor cannot be read, or its ptr_range() raises. *)
ReadFails ==
  /\ Packing /\ Passed(call, Current).kind = "tensor"
  /\ call' = Idle
  /\ UNCHANGED <<layout, cache>>

PackDevice ==
  /\ call.pc = "pack" /\ Current > Len(launcher.params)
  /\ call' = [call EXCEPT !.pc = "walk",
                 !.key = IF launcher.fixedDevice THEN @
                         ELSE @ \union {<<deviceAt, call.dev % DeviceCount>>}]
  /\ UNCHANGED <<layout, cache>>

-----------------------------------------------------------------------------
(* What a miss compiles (compiler_input) *)

(* External: Triton's specialize_impl: a type and facts, or constexpr.     *)
Constexpr == Type("constexpr", 0, 0)
SpecializeImpl(v, specialize, align, within) ==
  LET divisible == IF specialize /\ align /\ v.n % Divisor = 0 THEN {"aligned"} ELSE {}
      small     == IF specialize /\ within /\ launcher.keysRange THEN {"range"} ELSE {}
  IN
  CASE v.kind = "tensor" -> [type |-> Pointer(v.dtype), desc |-> divisible \union small]
    [] v.kind = "int" ->
         IF specialize /\ v.n = 1 THEN [type |-> Constexpr, desc |-> {}]
         ELSE [type |-> InferType(DecodeInt(v.n)), desc |-> divisible]
    [] v.kind = "bool" -> [type |-> BoolType, desc |-> {}]
    [] v.kind = "float" -> [type |-> Float(32), desc |-> {}]
    [] v.kind = "none" -> [type |-> Constexpr, desc |-> {}]

None == [kind |-> "none", n |-> 0, dtype |-> 0, small |-> TRUE, own |-> {}]
MockTensor(t) == [kind |-> "tensor", n |-> 0, dtype |-> t.dtype, small |-> TRUE, own |-> {}]
IsNull(v) == v.kind = "none" \/ (v.kind = "int" /\ v.n = 0)

(* A parameter's entry in the signature, constants and attrs.              *)
ArgumentInput(a, v, within) ==
  LET fixed == ~Inferred(a) /\ OneType(a)
      given == IF fixed THEN TheType(a) ELSE NoneType
      assumedOne == a.modes["one"] = "assume" /\ "one" \in Applicable(given)
      infers == /\ ~assumedOne
                /\ ~fixed \/ \E fact \in Facts : IsAuto(a, given, fact)
      shown == IF given.cls = "pointer" /\ IsNull(v) THEN MockTensor(given) ELSE v
      got == SpecializeImpl(shown, \E fact \in Facts : a.modes[fact] = "auto",
                            a.modes["aligned"] = "auto",
                            a.modes["range"] # "auto" \/ within)
      effective == IF fixed THEN given
                   ELSE IF got.type # Constexpr THEN got.type
                   ELSE IF v.kind = "none" THEN NoneType ELSE Signed(32)
      folds == /\ "one" \in Applicable(effective)
               /\ \/ a.modes["one"] = "assume"
                  \/ a.modes["one"] = "auto" /\ v.kind \in {"int", "bool"} /\ v.n = 1
      facts == {fact \in {"aligned", "range"} \intersect Applicable(effective) :
                  \/ a.modes[fact] = "assume"
                  \/ a.modes[fact] = "auto" /\ infers /\ fact \in got.desc}
  IN IF folds THEN [type |-> Constexpr, const |-> <<"int", 1>>, attrs |-> {}]
     ELSE IF effective = NoneType
       THEN [type |-> Constexpr, const |-> <<v.kind, v.n>>, attrs |-> {}]
     ELSE [type |-> effective, const |-> <<>>, attrs |-> facts]

(* An autotune key's exact value is what the kernel was tuned for.         *)
ParamInput(a, v, within) ==
  CASE a.kind = "dynamic" -> [type |-> Constexpr, const |-> <<>>, attrs |-> {}]
    [] a.kind = "constexpr" -> [type |-> Constexpr, const |-> <<v.kind, v.n>>, attrs |-> {}]
    [] a.how \in {"tensor", "pointer"} -> ArgumentInput(a, None, within)
    [] OTHER -> ArgumentInput(a, v, within)

ExactValue(a, v) == CASE ~a.exactKey -> <<>>
                      [] a.exactKey /\ IsTyped(a) ->
                           <<DecodeTyped(a, v).kind, DecodeTyped(a, v).bits>>
                      [] OTHER       -> <<v.kind, v.n>>

(* Mutant of RangeShown: the compile measures a tensor's range once more. *)
RangeShownAgain(c, i, again) == again[i]

(* The range that the key has is the one that is compiled; where it has    *)
(* none, the tensor is asked again.                                        *)
RangeShown(c, i, again) ==
  IF Param(i).ptrRange /\ Param(i).modes["range"] = "auto" /\ launcher.keysRange
    THEN c.within[i] ELSE again[i]

(* What the call's own values make of the options, and of the knobs.       *)
Setter(params, named, n) == CHOOSE i \in named : params[i].name = n
CallSets(c, named) ==
  [n \in {Param(i).name : i \in named} |->
     LET i == Setter(launcher.params, named, n) IN <<Passed(c, i).kind, Passed(c, i).n>>]
CallOptions(c) ==
  CallSets(c, {i \in DOMAIN launcher.params : DynamicOption(Param(i)) \/ ParameterOption(Param(i))})
CallKnobs(c) == CallSets(c, {i \in DOMAIN launcher.params : DynamicKnob(Param(i))})

CompileKnobs(c) == Overlay(launcher.knobs, CallKnobs(c))

Compiled(c, again) ==
  [options |-> Resolve(launcher.options, CallOptions(c), CompileKnobs(c)), knobs |-> CallKnobs(c),
   input |-> [i \in DOMAIN launcher.params |->
                ParamInput(Param(i), Passed(c, i), RangeShown(c, i, again))],
   exact |-> [i \in DOMAIN launcher.params |-> ExactValue(Param(i), Passed(c, i))],
   dev |-> c.dev]

-----------------------------------------------------------------------------
(* The walk *)

Hit ==
  /\ call.pc = "walk" /\ call.key \in DOMAIN cache
  /\ call' = [call EXCEPT !.pc = "launch"]
  /\ UNCHANGED <<layout, cache>>

Miss ==
  /\ call.pc = "walk" /\ call.key \notin DOMAIN cache
  /\ Cardinality(DOMAIN cache) < MaxKernels
  /\ \E again \in [DOMAIN launcher.params -> BOOLEAN] :
       /\ \A i \in DOMAIN again : again[i] \in Answers(Param(i), Passed(call, i))
       /\ cache' = [k \in DOMAIN cache \union {call.key} |->
                      IF k = call.key THEN Compiled(call, again) ELSE cache[k]]
  /\ call' = [call EXCEPT !.pc = "launch"]
  /\ UNCHANGED layout

(* The compile raises. *)
MissFails ==
  /\ call.pc = "walk" /\ call.key \notin DOMAIN cache
  /\ call' = Idle
  /\ UNCHANGED <<layout, cache>>

Launch ==
  /\ call.pc = "launch"
  /\ call' = Idle
  /\ UNCHANGED <<layout, cache>>

-----------------------------------------------------------------------------
Init == LayoutInit /\ cache = <<>> /\ call = Idle

PlaceStep == ((\E f \in todo : Place(f)) \/ PlaceDevice) /\ UNCHANGED <<cache, call>>

Next ==
  \/ PlaceStep
  \/ \E args \in Arguments(launcher), dev \in CallDevices : Call(args, dev)
  \/ Pack \/ PackAuto \/ ReadFails \/ PackDevice \/ Hit \/ Miss \/ MissFails \/ Launch

Spec == Init /\ [][Next]_vars
=============================================================================
