---------------------------- MODULE CompileOptions ----------------------------
(***************************************************************************)
(* The options of a compile: the launcher's own, under those that the call *)
(* sets, under what Triton derives from its knobs                          *)
(* (src/intj/compile_options.py), and which of them calls may set.         *)
(*                                                                         *)
(* A value is <<kind, n>>; an option or a knob is its name.                *)
(***************************************************************************)
EXTENDS KeyLayout, TLC

No    == <<"none", 0>>
False == <<"bool", 0>>
Empty == <<"object", 0>>  (* an empty string *)
Truthy(v) == v[1] # "none" /\ v[2] # 0

Knob(path, option, combine, default) ==
  [path |-> path, option |-> option, combine |-> combine, default |-> default]
KNOBS ==
  {Knob("knobs.runtime.debug", "debug", "or", False),
   Knob("knobs.compilation.instrumentation_mode", "instrumentation_mode", "overwrite", Empty),
   Knob("knobs.compilation.fpsan_homomorphic_casts", "fpsan_homomorphic_casts", "overwrite", No)}

(* Knobs that change the binary and no option, here one. *)
KnobPaths == {k.path : k \in KNOBS} \union {"knobs.compilation.override"}
KNOB_OVERWRITES == {k.option : k \in {j \in KNOBS : j.combine = "overwrite"}}
FORBIDDEN_OPTIONS == {"device", "stream", "device_type", "warp_size"}

(* External: the options of Triton's backend and their defaults.           *)
OptionDefaults ==
  [num_warps |-> <<"int", 4>>, debug |-> False, instrumentation_mode |-> Empty,
   fpsan_homomorphic_casts |-> False]

Overlay(base, over) == over @@ base

(* What knob k makes of the passed options, in a set.                      *)
KnobValue(k, knobValues) ==
  IF k.path \in DOMAIN knobValues THEN knobValues[k.path] ELSE k.default
KnobOption(k, options, knobValues) ==
  LET value  == KnobValue(k, knobValues)
      passed == IF k.option \in DOMAIN options THEN options[k.option] ELSE False
  IN IF k.combine = "or" THEN {IF Truthy(passed) THEN passed ELSE value}
     ELSE {value} \ {No}

KnobOptions(options, knobValues) ==
  LET set == {k \in KNOBS : KnobOption(k, options, knobValues) # {}} IN
  Overlay(options, [o \in {k.option : k \in set} |->
                      CHOOSE v \in UNION {KnobOption(k, options, knobValues) :
                                            k \in {j \in set : j.option = o}} : TRUE])

(* resolve; names that are no option of the backend are refused before.    *)
Resolve(base, over, knobValues) ==
  Overlay(OptionDefaults, KnobOptions(Overlay(base, over), knobValues))

-----------------------------------------------------------------------------
(* Options that calls set: dynamic values, and constexpr parameters named  *)
(* like an option; a parameter's name is its field name.                   *)

ParameterOption(a) ==
  /\ a.kind = "constexpr"
  /\ a.name \in DOMAIN OptionDefaults \ FORBIDDEN_OPTIONS

DynamicOption(a) == a.kind = "dynamic" /\ a.name \notin KnobPaths
DynamicKnob(a)   == a.kind = "dynamic" /\ a.name \in KnobPaths

(* _check_dynamic, of the declared names, the fixed options and the        *)
(* kernel's parameters, by what its def says of them.                      *)
Declarable(name, options, params) ==
  /\ name \notin FORBIDDEN_OPTIONS \union KNOB_OVERWRITES
  /\ \A i \in DOMAIN params : params[i].name = name => params[i].isConstexpr
  /\ name \notin DOMAIN options
  /\ \A k \in KNOBS : k.path = name => k.option \notin DOMAIN options

CheckDynamic(names, options, params) ==
  /\ \A i, j \in DOMAIN names : names[i] = names[j] => i = j
  /\ \A i \in DOMAIN names : Declarable(names[i], options, params)

(* _check_parameter_clash, and the options that a launch fixes.            *)
CheckOptions(options, params) ==
  /\ DOMAIN options \intersect FORBIDDEN_OPTIONS = {}
  /\ \A i \in DOMAIN params : params[i].isConstexpr => params[i].name \notin DOMAIN options

(* refuse_unknown_options, once the target is known. *)
KnownOptions(names) == names \subseteq DOMAIN OptionDefaults \union KnobPaths
=============================================================================
