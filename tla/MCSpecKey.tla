------------------------------ MODULE MCSpecKey ------------------------------
(* Types of 8, 16, 32 and 64 bits have 2, 3, 4 and 5; 4 stands for 16.     *)
EXTENDS SpecKeyProps, LaunchPlan

MCBits == (8 :> 2) @@ (16 :> 3) @@ (32 :> 4) @@ (64 :> 5)

(* The doubles 0 (0.0), 1 (so small that it rounds to 0), 25 (1.0) and 30, *)
(* too large for a float.                                                  *)
Doubles == {0, 1, 25, 30}
Ints == {-17, -16, -9, -8, -4, -2, -1, 0, 1, 2, 3, 4, 7, 8, 12, 15, 16, 17, 31, 32}
MCDoubleOf == [n \in Ints |-> IF n = 0 THEN 0 ELSE IF n = 1 THEN 25 ELSE 100 + n]
MCSingle == [d \in Doubles \union {MCDoubleOf[n] : n \in Ints} |->
               CASE d \in {0, 1} -> 0 [] d = 25 -> 5 [] d = 30 -> 9 [] OTHER -> d - 50]

Scalar(kind, n) == [kind |-> kind, n |-> n, dtype |-> 0, small |-> TRUE, own |-> {}]
Tensor(n, dtype, small, own) ==
  [kind |-> "tensor", n |-> n, dtype |-> dtype, small |-> small, own |-> own]
Tensors == {Tensor(8, 0, TRUE, {}), Tensor(6, 0, TRUE, {}), Tensor(8, 0, FALSE, {}),
            Tensor(8, 0, FALSE, {TRUE}), Tensor(0, 1, TRUE, BOOLEAN), Tensor(6, 1, FALSE, {})}
Values == {Scalar("int", n) : n \in Ints} \union {Scalar("float", d) : d \in Doubles}
          \union {Scalar("bool", n) : n \in {0, 1}} \union {Scalar("object", n) : n \in {0, 1}}
          \union Tensors \union {None}
FewValues == {Scalar("int", 1), Scalar("int", -4), Scalar("int", 16), Scalar("bool", 1),
              Scalar("float", 25), Tensor(8, 0, TRUE, {}), Tensor(6, 1, FALSE, BOOLEAN)}

(* All values to one parameter, few to two, the same to each of more.      *)
MCArguments(l) ==
  CASE Len(l.params) = 1 -> {<<v>> : v \in IF l.params[1].how = "public" THEN Values ELSE {None}}
    [] Len(l.params) = 2 -> FewValues \X FewValues
    [] OTHER -> {[i \in DOMAIN l.params |-> v] :
                   v \in IF l.grid.mode = "object" THEN Values ELSE FewValues}

-----------------------------------------------------------------------------
(* A parameter x, by what its def and extra_annotation say of it.          *)
P(inline, extra) ==
  [name |-> "x", inline |-> inline, extra |-> extra, isConstexpr |-> FALSE,
   tritonTyped |-> FALSE, doNotSpecialize |-> FALSE, doNotSpecializeOnAlignment |-> FALSE]
Nothing    == SaysOnly("nothing")
Plain1     == P(Nothing, Nothing)
Typed(ts)  == IF ts = {} THEN <<>> ELSE <<[types |-> ts, listed |-> Cardinality(ts) > 1]>>
ArgOf(ts, policy) == [Argument EXCEPT !.type = Typed(ts), !.specialize = policy]
CxOf(ts)   == [ConstexprSource EXCEPT !.type = Typed(ts)]
TlConstexpr == [P(Says(ConstexprSource), Nothing) EXCEPT !.isConstexpr = TRUE]

FactSets == (SUBSET Facts) \ {{}}
Policies == {AnySpecialize, AutoPolicy, Exactly({})}
            \union {Assume(s) : s \in FactSets} \union {Exactly(s) : s \in FactSets}

ArgTypes == {{}, {Signed(32)}, {Signed(8)}, {Unsigned(64)}, {Float(32)}, {BoolType},
             {NoneType}, {Pointer(0)}, {Signed(32), Float(32)}, {NoneType, Pointer(0)},
             {Signed(32), Signed(64), Unsigned(64), Pointer(1)}}
TypedTypes == {Signed(32), Signed(64), Unsigned(64), BoolType, Float(32)}
CxTypes == {{}, {NoneType}, {BoolType}, {Signed(8)}, {Float(64)}, {Signed(8), Unsigned(8)},
            {NoneType, Signed(16), Unsigned(32)}, {Signed(64), Unsigned(64), Float(64)}}

(* Of one source; of two that agree or do not; and Triton's flags.         *)
Arguments1 ==
  {P(Says(ArgOf(ts, policy)), Nothing) : ts \in ArgTypes, policy \in Policies}
  \union {P(Says(ArgOf(ts, p)), Says(ArgOf(us, q))) :
            ts, us \in {{}, {Signed(32)}, {Pointer(0)}}, p, q \in
              {AnySpecialize, AutoPolicy, Exactly({}), Assume({"one"}), Assume({"aligned", "range"})}}
  \union {[P(Says(ArgOf(ts, policy)), Nothing) EXCEPT !.doNotSpecialize = all,
             !.doNotSpecializeOnAlignment = ~all] :
            ts \in {{}, {Signed(32)}, {Pointer(0)}}, policy \in Policies, all \in BOOLEAN}
TritonTyped ==
  {[P(SaysType(t), Says(ArgOf({}, policy))) EXCEPT !.tritonTyped = TRUE, !.doNotSpecialize = flag] :
     t \in TypedTypes, policy \in Policies, flag \in BOOLEAN}
TensorArgs ==
  {P(SaysOnly(what), Says([ArgOf(ts, AnySpecialize) EXCEPT !.ptrRange = ranged])) :
     what \in {"tensor", "optional"}, ts \in {{}, {Pointer(0)}, {Signed(32)}}, ranged \in BOOLEAN}
  \union {P(Nothing, Says([ArgOf(ts, AnySpecialize) EXCEPT !.ptrRange = TRUE])) :
            ts \in {{}, {Pointer(0)}, {Signed(32)}}}
  \union {P(SaysOnly("tensor"), SaysOnly(what)) : what \in {"tensor", "optional"}}
Constexprs ==
  {P(Says([CxOf(ts) EXCEPT !.powerOfTwo = power]), Says(CxOf(us))) :
     ts \in CxTypes, us \in {{}, {Signed(8)}}, power \in BOOLEAN}
  \union {P(Says(ConstexprSource), Says(Argument))}

(* A value that is baked into the parameter. *)
Bake(p, v) == [p EXCEPT !.inline.source.value = <<v>>]
BakedValues == {Scalar("int", n) : n \in {-16, -4, 0, 1, 3, 16, 31}} \union {None}
               \union {Scalar("bool", 1), Scalar("float", 25), Scalar("float", 30), Scalar("object", 0)}
BakedArgs ==
  {Bake(p, v) : v \in BakedValues, p \in
     {P(Says(ArgOf(ts, policy)), Nothing) : ts \in ArgTypes, policy \in Policies}
     \union {[P(SaysType(t), Nothing) EXCEPT !.tritonTyped = TRUE] : t \in TypedTypes}
     \union {[Plain1 EXCEPT !.inline = Says(Argument), !.doNotSpecializeOnAlignment = TRUE]}
     \union {P(Says([CxOf(ts) EXCEPT !.powerOfTwo = power]), Nothing) : ts \in CxTypes, power \in BOOLEAN}}

-----------------------------------------------------------------------------
O(params) ==
  [params |-> params, options |-> <<>>, dynamic |-> <<>>, gridArg |-> <<>>, gridCpp |-> <<>>,
   gridPy |-> <<>>, bindDevice |-> <<0>>, bindValues |-> <<>>, exactKeys |-> {},
   knobs |-> [k \in {} |-> No], keysRange |-> TRUE]

SinglesOf(params) == {O(<<p>>) : p \in params}
Singles ==
  SinglesOf(Arguments1 \union TritonTyped \union TensorArgs \union Constexprs \union BakedArgs)
  \union {[O(<<p>>) EXCEPT !.exactKeys = {"x"}] :
            p \in {Plain1} \union {q \in TritonTyped : q.extra.source.specialize = AnySpecialize}}
  \union {[O(<<p>>) EXCEPT !.bindDevice = <<>>, !.keysRange = FALSE] :
            p \in {Plain1, P(SaysOnly("tensor"), Says([Argument EXCEPT !.ptrRange = TRUE]))}}

(* Bound values; a tensor may find its type when it is bound.              *)
Bound(how, ts, policy) == P(Nothing, Says([ArgOf(ts, policy) EXCEPT !.bind = <<how>>]))
AllFacts == Exactly({"aligned"})
BoundOnes ==
  {[O(<<[Bound(how, ts, policy) EXCEPT !.name = "b"], Plain1>>) EXCEPT !.bindValues = [b |-> v]] :
     how \in {"tensor", "pointer"}, ts \in {{}, {NoneType}, {Pointer(1)}},
     policy \in {Exactly({}), AllFacts, AnySpecialize},
     v \in {None, Tensor(8, 1, FALSE, {}), Scalar("tensor", 8)}}

At(p, name) == [p EXCEPT !.name = name]
Pairs ==
  {O(<<Plain1, At(TlConstexpr, "y")>>),
   O(<<At(Bake(P(Says(ArgOf({Signed(32)}, AnySpecialize)), Nothing), Scalar("int", 1)), "b"), Plain1>>),
   [O(<<TlConstexpr, At(P(Nothing, Says([Argument EXCEPT !.ptrRange = TRUE])), "y")>>)
      EXCEPT !.exactKeys = {"y"}, !.bindDevice = <<>>]}

(* Options and knobs that calls set, by a dynamic value or a constexpr.    *)
WARPS == "num_warps"
DEBUG == "knobs.runtime.debug"
Optioned ==
  {[O(<<p>>) EXCEPT !.options = options, !.dynamic = dynamic, !.knobs = (DEBUG :> debug)] :
     p \in {Plain1, At(TlConstexpr, WARPS), At(P(Nothing, Says(ConstexprSource)), WARPS)},
     options \in {<<>>, WARPS :> <<"int", 8>>, "debug" :> <<"bool", 1>>, "stream" :> <<"int", 0>>},
     dynamic \in {<<>>, <<WARPS>>, <<DEBUG>>, <<"debug">>, <<"instrumentation_mode">>, <<WARPS, WARPS>>},
     debug \in {False, <<"bool", 1>>}}

Longer ==
  {O(<<Plain1, At(P(Says(CxOf({Signed(16), NoneType})), Nothing), "y"), At(Plain1, "z"), At(TlConstexpr, "c")>>),
   [O(<<At(Bound("pointer", {Pointer(0)}, Exactly({})), "b"),
        At(P(Says(CxOf({Signed(8), Unsigned(32)})), Nothing), "y"), Plain1,
        At(Bake(P(Says(ArgOf({Signed(64)}, AnySpecialize)), Nothing), Scalar("int", -4)), "f"),
        At(Plain1, "z")>>)
      EXCEPT !.bindValues = [b |-> Scalar("tensor", 6)], !.exactKeys = {"z"}, !.bindDevice = <<>>],
   O(<<At(P(Says([ConstexprSource EXCEPT !.powerOfTwo = TRUE]), Nothing), "p"),
       At(Bake(P(Says(ConstexprSource), Nothing), Scalar("object", 0)), "f"),
       At(P(Says(CxOf({Signed(64)})), Nothing), "y"), Plain1,
       At(P(Says(CxOf({Unsigned(16)})), Nothing), "z")>>)}

(* Every grid, of launchers whose calls pass and do not pass parameters.   *)
Gridded ==
  {[o EXCEPT !.gridArg = a, !.gridCpp = c, !.gridPy = p, !.dynamic = d, !.bindDevice = dev] :
     o \in {[O(<<At(Bake(P(Says(Argument), Nothing), Scalar("int", 16)), "f"), Plain1,
                 At(Bound("tensor", {}, AllFacts), "b"), At(TlConstexpr, "y")>>)
               EXCEPT !.bindValues = [b |-> Tensor(8, 1, FALSE, {})]]},
     a \in {<<>>, <<2>>, <<4>>}, c \in {<<>>, <<0>>, <<2>>}, p \in {<<>>, <<0>>},
     d \in {<<>>, <<DEBUG, WARPS>>}, dev \in {<<>>, <<0>>}}

MCOptions == Singles \union BoundOnes \union Pairs \union Optioned \union Longer \union Gridded
MCLaunchers == UNION {BuildPlan(o) : o \in MCOptions}
=============================================================================
