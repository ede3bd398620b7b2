------------------------------- MODULE LaunchPlan -------------------------------
(***************************************************************************)
(* The launcher that a MakeLauncherOption asks for: its checks, in sets    *)
(* that are empty if they refuse, and what a build gets                    *)
(* (src/intj/plan.py).                                                     *)
(*                                                                         *)
(* An option o has the kernel's parameters (see AnnotationMerge, and also  *)
(* their names and what the def says, isConstexpr), options, dynamic,      *)
(* gridArg, gridCpp and gridPy (<<>> or <<n>>, n extra arguments of a      *)
(* grid_cpp), bindDevice (<<>> or <<n>>), bindValues by name, exactKeys    *)
(* (names an autotune layer keys on), the live knobs, and whether the      *)
(* backend keys pointer ranges.                                            *)
(***************************************************************************)
EXTENDS AnnotationMerge, CallShape, Functions

CONSTANT Options  (* the options that launchers are asked for with       *)

IsOption(o) ==
  /\ o.params \in Seq(Range(o.params)) /\ \A i \in DOMAIN o.params : IsParameter(o.params[i])
  /\ o.dynamic \in Seq(Range(o.dynamic))
  /\ o.gridArg \in Seq(Int) /\ o.gridCpp \in Seq(Nat)
  /\ \A n \in DOMAIN o.bindValues : IsValue(o.bindValues[n])
  /\ o.keysRange \in BOOLEAN

ASSUME OptionsTyped == \A o \in Options : IsOption(o)

(* _check_values *)
CheckValues(o) ==
  /\ \A n \in Range(o.gridArg) : n \in 1 .. 3
  /\ Len(o.gridArg) + Len(o.gridCpp) + Len(o.gridPy) <= 1

GridOf(o) ==
  CASE o.gridPy  # <<>> -> [mode |-> "py", n |-> 0]
    [] o.gridCpp # <<>> -> [mode |-> "cpp", n |-> o.gridCpp[1]]
    [] o.gridArg # <<>> -> [mode |-> "dims", n |-> o.gridArg[1]]
    [] OTHER -> [mode |-> "object", n |-> 0]

(* A parameter's annotation, the def's and extra_annotation's merged, and  *)
(* what the tuning plan adds to it.                                        *)
Annotate(o, i) ==
  {[a EXCEPT !.exactKey = o.params[i].name \in o.exactKeys] : a \in MergeAnnotations(o.params[i])}

-----------------------------------------------------------------------------
(* Bound values (_bind) *)

Named(a) == a.how \in {"tensor", "pointer"}

(* Every bound parameter has a value, and no other has.                    *)
BindNamesFit(o, params) ==
  DOMAIN o.bindValues = {params[i].name : i \in {j \in DOMAIN params : Named(params[j])}}

(* An inferred tensor has the type that it has when it is bound.           *)
BoundTypes(a, v) ==
  IF a.types = {} THEN {IF v.kind = "none" THEN NoneType ELSE Pointer(v.dtype)} ELSE a.types

BindTensor(a, v) ==
  {[a EXCEPT !.types = BoundTypes(a, v), !.value = v] :
     ok \in {b \in {TRUE} : /\ v.kind \in {"tensor", "none"}
                            /\ a.types = {NoneType} => v.kind = "none"}}

BindOne(o, a) ==
  CASE a.how = "tensor"  -> BindTensor(a, o.bindValues[a.name])
    [] a.how = "pointer" -> {[a EXCEPT !.value = o.bindValues[a.name]]}
    [] OTHER -> {a}

BindDeviceFits(o) == \A n \in Range(o.bindDevice) : n >= 0

-----------------------------------------------------------------------------
(* build_plan *)

Names(params) == {params[i].name : i \in DOMAIN params}

(* A declared name that is a parameter's feeds its option anyhow: no slot. *)
DynamicParams(o, params) ==
  LET slots == InOrder({j \in DOMAIN o.dynamic : o.dynamic[j] \notin Names(params)}) IN
  [k \in DOMAIN slots |->
     [kind |-> "dynamic", name |-> o.dynamic[slots[k]],
      types |-> {}, modes |-> [fact \in Facts |-> "auto"], powerOfTwo |-> FALSE,
      exactKey |-> FALSE, tritonTyped |-> FALSE, tensorOnly |-> FALSE, noneOk |-> FALSE,
      ptrRange |-> FALSE, how |-> "public", value |-> None]]

(* The knobs but the declared ones, as the first call finds them.          *)
KnobValues(o) == [k \in DOMAIN o.knobs \ Range(o.dynamic) |-> o.knobs[k]]

(* Each parameter's outcome is a set of one or none: so is their product.  *)
Annotated(o) ==
  LET sets == [i \in DOMAIN o.params |-> Annotate(o, i)] IN
  IF \E i \in DOMAIN sets : sets[i] = {} THEN {}
  ELSE {[i \in DOMAIN sets |-> CHOOSE a \in sets[i] : TRUE]}

BoundAll(o, params) ==
  LET sets == [i \in DOMAIN params |-> BindOne(o, params[i])] IN
  IF ~BindNamesFit(o, params) \/ \E i \in DOMAIN sets : sets[i] = {} THEN {}
  ELSE {[i \in DOMAIN sets |-> CHOOSE a \in sets[i] : TRUE]}

(* asPassed: what each parameter's annotation were, did calls pass it.     *)
Plan(o, params) ==
  [params |-> params \o DynamicParams(o, params), grid |-> GridOf(o),
   fixedDevice |-> o.bindDevice # <<>>, keysRange |-> o.keysRange,
   options |-> o.options, knobs |-> KnobValues(o),
   asPassed |-> [i \in DOMAIN o.params |->
                   IF params[i].how = "baked" THEN MergeAnnotations(Unbaked(o.params[i])) ELSE {}]]

PlanAllows(o) ==
  /\ CheckValues(o) /\ BindDeviceFits(o)
  /\ CheckOptions(o.options, o.params)
  /\ CheckDynamic(o.dynamic, o.options, o.params)
  /\ KnownOptions(DOMAIN o.options \union Range(o.dynamic))

BuildPlan(o) ==
  UNION {{Plan(o, params) : params \in BoundAll(o, merged)}
         : merged \in {m \in Annotated(o) : PlanAllows(o)}}

ASSUME LaunchersPlanned == Launchers = UNION {BuildPlan(o) : o \in Options}
=============================================================================
