---------------------------- MODULE AnnotationMerge ----------------------------
(***************************************************************************)
(* How a parameter's annotations become one: those of the kernel's def and *)
(* of extra_annotation are merged field by field, checked, and what a      *)
(* baked value decides is decided (src/intj/annotation.py).                *)
(*                                                                         *)
(* What the code refuses has no result: an operator that may refuse is the *)
(* set of its result, or empty.  A field that is UNSET is <<>>, and <<x>>  *)
(* if it is x.                                                             *)
(***************************************************************************)
EXTENDS SpecKey

(* An Argument or Constexpr.  type: the types, {} for AUTO, and if they    *)
(* were given as a sequence; specialize: the facts it assumes, and what it *)
(* says of the others, "unset", "auto" or "never".                         *)
AnySpecialize == [facts |-> {}, rest |-> "unset"]
SourceOf(kind)  == [kind |-> kind, type |-> <<>>, specialize |-> AnySpecialize, value |-> <<>>,
                    bind |-> <<>>, ptrRange |-> FALSE, powerOfTwo |-> FALSE]
Argument        == SourceOf("argument")
ConstexprSource == SourceOf("constexpr")

(* specialize=Assume(...), Exactly(...), AUTO and NEVER                    *)
Assume(facts)  == [facts |-> facts, rest |-> "unset"]
Exactly(facts) == [facts |-> facts, rest |-> "never"]
AutoPolicy     == [facts |-> {}, rest |-> "auto"]

(* What a raw annotation says: "nothing", "tensor", "optional" (a tensor   *)
(* or None), or "source".                                                  *)
Says(source) == [says |-> "source", source |-> source]
SaysOnly(what) == [says |-> what, source |-> Argument]
SaysType(t)  == Says([Argument EXCEPT !.type = <<[types |-> {t}, listed |-> FALSE]>>])

AnnotationSource(raw) == IF raw.says = "source" THEN {raw.source} ELSE {}
TensorKinds(p) == {"tensor", "optional"} \intersect {p.inline.says, p.extra.says}

(* What an Argument and a Constexpr may hold; each lacks some fields of    *)
(* the other.                                                              *)
GivenTypes(s) == IF s.type = <<>> THEN {} ELSE s.type[1].types
IsSource(s) ==
  /\ s = [kind |-> s.kind, type |-> s.type, specialize |-> s.specialize, value |-> s.value,
          bind |-> s.bind, ptrRange |-> s.ptrRange, powerOfTwo |-> s.powerOfTwo]
  /\ s.kind \in {"argument", "constexpr"} /\ GivenTypes(s) \subseteq ArgumentTypes
  /\ s.specialize.facts \subseteq Facts /\ s.specialize.rest \in {"unset", "auto", "never"}
  /\ s.value # <<>> => IsValue(s.value[1])
  /\ s.bind \in {<<>>, <<"tensor">>, <<"pointer">>} /\ {s.ptrRange, s.powerOfTwo} \subseteq BOOLEAN
  /\ s.kind = "argument" => ~s.powerOfTwo
  /\ s.kind = "constexpr" => s.bind = <<>> /\ ~s.ptrRange
IsRaw(raw) ==
  /\ raw = [says |-> raw.says, source |-> raw.source] /\ IsSource(raw.source)
  /\ raw.says \in {"nothing", "tensor", "optional", "source"}

(* A parameter of a kernel; a type of Triton's is the inline annotation.   *)
IsParameter(p) ==
  /\ p = [name |-> p.name, inline |-> p.inline, extra |-> p.extra, isConstexpr |-> p.isConstexpr,
          tritonTyped |-> p.tritonTyped, doNotSpecialize |-> p.doNotSpecialize,
          doNotSpecializeOnAlignment |-> p.doNotSpecializeOnAlignment]
  /\ IsRaw(p.inline) /\ IsRaw(p.extra)
  /\ {p.tritonTyped, p.doNotSpecialize, p.doNotSpecializeOnAlignment} \subseteq BOOLEAN
  /\ p.tritonTyped =>
       /\ p.inline.says = "source" /\ p.inline.source.kind = "argument"
       /\ Cardinality(GivenTypes(p.inline.source)) = 1 /\ NoneType \notin GivenTypes(p.inline.source)

-----------------------------------------------------------------------------
(* Fields of two sources (_merge_field): one that is UNSET defers.         *)

MergeField(left, right) ==
  IF left = <<>> THEN {right} ELSE IF right \in {<<>>, left} THEN {left} ELSE {}

MergeType(left, right) ==
  IF left # <<>> /\ right # <<>> /\ left[1].types = right[1].types THEN {left}
  ELSE MergeField(left, right)

MergeMode(left, right) ==
  IF left = "unset" THEN {right} ELSE IF right \in {"unset", left} THEN {left} ELSE {}

ModeOf(specialize, fact) ==
  IF fact \in specialize.facts THEN "assume" ELSE specialize.rest

(* Triton's do_not_specialize flags are a third source of modes.           *)
DecoratorMode(p, fact) ==
  IF p.doNotSpecialize \/ (fact = "aligned" /\ p.doNotSpecializeOnAlignment)
    THEN "never" ELSE "unset"

MergedModes(p, left, right, fact) ==
  UNION {MergeMode(m, DecoratorMode(p, fact)) :
           m \in MergeMode(ModeOf(left.specialize, fact), ModeOf(right.specialize, fact))}

(* The binder of Triton never folds 1 of a parameter with Triton's type.   *)
SettledMode(p, mode, fact) ==
  IF mode \notin {"unset", "auto"} THEN mode
  ELSE IF p.tritonTyped /\ fact = "one" THEN "never" ELSE "auto"

(* The pair of sources, defaults where a side has none, if of one kind.    *)
Pair(p) ==
  LET inline == AnnotationSource(p.inline)
      other  == AnnotationSource(p.extra)
      kind   == IF \E s \in inline \union other : s.kind = "constexpr"
                  THEN ConstexprSource ELSE Argument
      side(sources) == IF sources = {} THEN {kind} ELSE sources
  IN {pair \in side(inline) \X side(other) : pair[1].kind = pair[2].kind}

(* A Constexpr has no modes: every fact of its value is left to Triton.    *)
DraftModes(p, l, r) ==
  [fact \in Facts |->
     IF l.kind = "constexpr" THEN "auto"
     ELSE SettledMode(p, CHOOSE m \in MergedModes(p, l, r, fact) : TRUE, fact)]
ModesMerge(p, l, r) ==
  l.kind = "argument" => \A fact \in Facts : MergedModes(p, l, r, fact) # {}

(* A field of an Argument that a Constexpr has not is unset there.         *)
Draft(p, l, r, type, value, bind) ==
  [kind |-> l.kind, type |-> type, value |-> value, bind |-> bind,
   ptrRange |-> l.ptrRange \/ r.ptrRange, powerOfTwo |-> l.powerOfTwo \/ r.powerOfTwo,
   modes |-> DraftModes(p, l, r)]
DraftsOf(p, l, r) ==
  {Draft(p, l, r, type, value, bind) :
     type \in MergeType(l.type, r.type), value \in MergeField(l.value, r.value),
     bind \in MergeField(l.bind, r.bind)}
Drafts(p) ==
  UNION {DraftsOf(p, pair[1], pair[2]) : pair \in {q \in Pair(p) : ModesMerge(p, q[1], q[2])}}

-----------------------------------------------------------------------------
(* Types and values *)

CanonicalTypes(d) == IF d.type = <<>> THEN {} ELSE d.type[1].types

(* _type_name: what types there are for an argument and for a constexpr.   *)
Supported(t, kind) ==
  \/ t \in {NoneType, BoolType, Float(64)} \/ IsInteger(t)
  \/ kind = "argument" /\ (t.cls = "pointer" \/ t = Float(32))

InferredScalarType(v) ==
  CASE v.kind = "none" -> {NoneType}
    [] v.kind = "bool" -> {BoolType}
    [] v.kind = "float" -> {Float(32)}
    [] v.kind = "int" /\ DecodeInt(v.n) # Refused -> {InferType(DecodeInt(v.n))}
    [] OTHER -> {}

(* scalar_types.fits; a constexpr has no fp32.                             *)
Fits(v, t) ==
  CASE t.cls \in {"none", "bool"} -> v.kind = t.cls
    [] t.cls = "signed" -> v.kind = "int" /\ v.n \in -(Size(t.bits) \div 2) .. Size(t.bits) \div 2 - 1
    [] t.cls = "unsigned" -> v.kind = "int" /\ v.n \in 0 .. Size(t.bits) - 1
    [] t.cls = "float" -> v.kind = "float" /\ (t.bits = 64 \/ v.n \notin Overflows)
    [] t.cls = "pointer" -> FALSE

IsBaked(d) == d.value # <<>>
IsBound(d) == d.bind # <<>>
BakedValue(d) == d.value[1]

(* The types that remain, in a set: those that were given or, of a baked   *)
(* value, the one it has.                                                  *)
BakedArgumentTypes(d) ==
  LET given == CanonicalTypes(d)
      chosen == IF Cardinality(given) = 1 THEN given
                ELSE {t \in InferredScalarType(BakedValue(d)) : given = {} \/ t \in given}
  IN {{t} : t \in {u \in chosen : InferredScalarType(BakedValue(d)) # {} /\ Fits(BakedValue(d), u)}}

BakedConstexprTypes(d) ==
  LET given == CanonicalTypes(d)
      matching == {t \in given : Fits(BakedValue(d), t)}
  IN IF given = {}
       THEN IF BakedValue(d).kind = "object" \/ InferredScalarType(BakedValue(d)) # {}
              THEN {{}} ELSE {}
     ELSE {{t} : t \in {u \in matching : \A w \in matching \ {u} : Narrower(u, w)}}

EffectiveTypes(d) ==
  IF ~IsBaked(d) THEN {CanonicalTypes(d)}
  ELSE IF d.kind = "argument" THEN BakedArgumentTypes(d) ELSE BakedConstexprTypes(d)

-----------------------------------------------------------------------------
(* The checks; branches are the types a value may turn out to have.        *)

TensorAllows(p, d) ==
  TensorKinds(p) # {} =>
    /\ Cardinality(TensorKinds(p)) = 1
    /\ d.kind = "argument" /\ ~IsBaked(d) /\ ~IsBound(d)
    /\ \A t \in CanonicalTypes(d) : t.cls = "pointer"

PowerAllows(d) ==
  d.powerOfTwo =>
    /\ \A t \in CanonicalTypes(d) : IsInteger(t)
    /\ IsBaked(d) => /\ BakedValue(d).kind = "int"
                     /\ \/ BakedValue(d).n = 0
                        \/ \E p \in Powers : BakedValue(d).n \in {p, -p}

BranchesOf(types) == IF types = {} THEN {Signed(32), Pointer(0)} ELSE types
Assumed(d) == {fact \in Facts : d.modes[fact] = "assume"}

NoDeadFact(d, types) ==
  \A fact \in Assumed(d) : \E t \in BranchesOf(types) : fact \in Applicable(t)

RangeAllows(d, types) ==
  d.ptrRange => /\ d.modes["range"] # "never" /\ ~IsBaked(d) /\ ~IsBound(d)
                /\ \E t \in BranchesOf(types) : "range" \in Applicable(t)

(* No integer is 1 and divisible. *)
NoImpossibleBranch(d, types) ==
  {"one", "aligned"} \subseteq Assumed(d)
    => \A t \in BranchesOf(types) : ~({"one", "aligned"} \subseteq Applicable(t))

BakedHasFacts(d, types) ==
  IsBaked(d) => \A t \in types : \A fact \in Assumed(d) \intersect Applicable(t) :
                  IF fact = "one" THEN BakedValue(d).n = 1 ELSE BakedValue(d).n % Divisor = 0

(* A pointer needs one explicit pointer type; a tensor has one, or finds   *)
(* its type at the bind.  No fact of a bound value is left to a call.      *)
BindAllows(d, types) ==
  /\ d.bind = <<"pointer">> => /\ d.type # <<>> /\ ~d.type[1].listed
                               /\ Cardinality(types) = 1
                               /\ \A t \in types : t.cls = "pointer"
  /\ d.bind = <<"tensor">> => /\ types = {} \/ Cardinality(types) = 1
                              /\ \A t \in types : t.cls \in {"none", "pointer"}
  /\ IsBound(d) => \A fact \in Facts : d.modes[fact] = "auto"
                       => \A t \in BranchesOf(types) : fact \notin Applicable(t)

Allowed(p, d, types) ==
  /\ \A t \in CanonicalTypes(d) : Supported(t, d.kind)
  /\ ~(IsBaked(d) /\ IsBound(d))
  /\ TensorAllows(p, d) /\ PowerAllows(d)
  /\ d.kind = "argument" => /\ NoDeadFact(d, types) /\ RangeAllows(d, types)
                            /\ NoImpossibleBranch(d, types)
                            /\ BakedHasFacts(d, types) /\ BindAllows(d, types)

-----------------------------------------------------------------------------
(* What the value of a baked argument decides *)

(* A likely slip: a baked 1 folds although no fact of it may be used.      *)
BakedModesAnyway(d, t) ==
  [d.modes EXCEPT !["one"] = IF "one" \in Applicable(t) /\ BakedValue(d).n = 1
                               THEN "assume" ELSE @]

BakedModes(d, t) ==
  LET decide(fact, holds) ==
        IF d.modes[fact] = "auto" /\ fact \in Applicable(t)
          THEN IF holds THEN "assume" ELSE "never"
        ELSE d.modes[fact]
      one == decide("one", BakedValue(d).n = 1)
  IN [d.modes EXCEPT !["one"] = one,
        !["aligned"] = decide("aligned", one # "assume" /\ BakedValue(d).n % Divisor = 0)]

(* _merge_annotations, of one parameter; a bound value comes at the bind.  *)
Merged(p, d, types) ==
  [name |-> p.name, kind |-> d.kind, types |-> types,
   modes |-> IF d.kind = "argument" /\ IsBaked(d)
               THEN BakedModes(d, CHOOSE t \in types : TRUE) ELSE d.modes,
   powerOfTwo |-> d.powerOfTwo, exactKey |-> FALSE,
   tritonTyped |-> p.tritonTyped /\ d.kind = "argument",
   tensorOnly |-> TensorKinds(p) # {}, noneOk |-> TensorKinds(p) = {"optional"},
   ptrRange |-> d.ptrRange,
   how |-> IF IsBaked(d) THEN "baked" ELSE IF IsBound(d) THEN d.bind[1] ELSE "public",
   value |-> IF IsBaked(d) THEN BakedValue(d) ELSE None]
MergeAnnotations(p) ==
  UNION {{Merged(p, d, types) : types \in {ts \in EffectiveTypes(d) : Allowed(p, d, ts)}}
         : d \in Drafts(p)}

(* The same parameter, its value passed by the calls.                      *)
Unbaked(p) == [p EXCEPT !.inline.source.value = <<>>, !.extra.source.value = <<>>]
=============================================================================
