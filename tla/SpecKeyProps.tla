----------------------------- MODULE SpecKeyProps -----------------------------
(***************************************************************************)
(* What makes a spec key one (see KeyLayout and SpecKey).                  *)
(***************************************************************************)
EXTENDS SpecKey, CallShape

(* Fields that were placed do not overlap each other or the device slot,   *)
(* and each lies in one word of the key, at a multiple of its width: C     *)
(* or-s it in with one shift.                                              *)
FieldsApart ==
  LET placed == DOMAIN offset \ todo IN
  /\ \A f, g \in placed : \/ f = g
                          \/ offset[f] + f.width <= offset[g]
                          \/ offset[g] + g.width <= offset[f]
  /\ deviceAt < 8 * Words
  /\ \A f \in placed : /\ offset[f] \div 8 = (offset[f] + f.width - 1) \div 8
                       /\ offset[f] % f.width = 0
                       /\ offset[f] + f.width <= 8 * Words
                       /\ deviceAt \notin offset[f] .. offset[f] + f.width - 1

(* What a compile makes of the call itself, at the range its key measured. *)
Wanted == Compiled(call, call.within)

(* A kernel found under a call's key is the one that the call's own        *)
(* arguments compile to, under the options and knobs that it sets, and was *)
(* tuned for its exact values: equal keys, equal compiler inputs.          *)
HitIsRight ==
  call.pc = "launch" =>
    LET record == cache[call.key] IN
    /\ record.input = Wanted.input /\ record.exact = Wanted.exact
    /\ record.options = Wanted.options /\ record.knobs = Wanted.knobs
    /\ launcher.fixedDevice \/ record.dev = Wanted.dev

(* The bits of a value as the kernel's parameter of this type.             *)
AsParameter(t, v) ==
  LET double == IF v.kind = "float" THEN v.n ELSE DoubleOf[v.n] IN
  CASE v.kind = "none" -> 0
    [] v.kind # "none" /\ t = Float(32) -> Single[double]
    [] v.kind # "none" /\ t = Float(64) -> double
    [] OTHER -> v.n % Two64

(* What C packs is what the kernel was compiled to take: one slot for each *)
(* parameter that is no constant of its signature, in order.               *)
SlotsMatch ==
  call.pc = "launch" =>
    LET input == cache[call.key].input
        runtime == InOrder({i \in DOMAIN input : input[i].type # Constexpr})
    IN call.vals = [j \in DOMAIN runtime |->
                      AsParameter(input[runtime[j]].type, Passed(call, runtime[j]))]

(* A baked value, which the merge of its annotations specializes, compiles *)
(* to what it would if calls passed it, and C and Triton specialized it.   *)
BakedAsPassed ==
  call.pc = "launch" =>
    \A i \in {j \in DOMAIN launcher.params : Param(j).how = "baked" /\ Param(j).kind = "argument"} :
      \A a \in launcher.asPassed[i] :
        Accepts(a, Decode(a, Param(i).value, TRUE)) =>
          ParamInput(a, Param(i).value, TRUE) = cache[call.key].input[i]

(* Every reader of a call's arguments, of a launcher's bound values and of *)
(* grid_py's fixed ones finds at its index what the signature that users   *)
(* see has there.                                                          *)
ReadersAgree ==
  call # Idle =>
    LET l == launcher IN
    /\ TakesExactly(l) = Len(Signature(l))
    /\ StreamRead(l) = Role("stream", 1)
    /\ IF l.fixedDevice THEN InitDevice(l) = Role("device", 1) ELSE DeviceRead(l) = Role("device", 1)
    /\ \A k \in 1 .. GridCount(l) : GridRead(l, k) = Role(IF l.grid.mode = "cpp" THEN "extra" ELSE "grid", k)
    /\ \A k \in 1 .. NDYN(l) : /\ DynamicRead(l, k) = Role("param", Dynamic(l)[k])
                               /\ SplitOff(l)[k] = DynamicRead(l, k)
    /\ \A i \in DOMAIN l.params :
         /\ IsPublic(l, i) => /\ PackRead(l, i) = Role("param", i)
                              /\ MissRead(l, i) = Role("param", i)
                              /\ l.grid.mode = "cpp" => CppGridRead(l, i) = Role("param", i)
         /\ IsBoundParam(l, i) => BoundRead(l, i) = Role("param", i)
         /\ (l.grid.mode = "py" /\ ~IsDynamic(l, i)) => MetaRead(l, i) = Role("param", i)
=============================================================================
