------------------------------- MODULE CallShape -------------------------------
(***************************************************************************)
(* Where the arguments of a launcher's calls, its _init and its misses     *)
(* lie.  The signature that users see is one function's, every reader's    *)
(* index another's: C's parser, packer, grid and fill, the Python that     *)
(* compiles a miss, and the source that a grid_cpp is lowered to.          *)
(*                                                                         *)
(* A place holds a role: <<"device", 1>>, <<"stream", 1>>, <<"grid", k>>,  *)
(* an extra argument of the grid <<"extra", k>>, or <<"param", i>>, the    *)
(* launcher's i-th, which may be a dynamic value.                          *)
(*                                                                         *)
(* launcher.grid is [mode, n]: "object", "dims" (n of them), "cpp" (n      *)
(* extra arguments) or "py".                                               *)
(***************************************************************************)
EXTENDS KeyLayout

Role(what, k) == <<what, k>>

IsDynamic(l, i) == l.params[i].kind = "dynamic"
IsPublic(l, i)  == ~IsDynamic(l, i) /\ l.params[i].how = "public"
IsBoundParam(l, i) == l.params[i].how \in {"tensor", "pointer"}

(* Parameters are a tuple; a dynamic value, which is behind them, is one   *)
(* that calls pass.                                                        *)
ASSUME CallsTyped ==
  \A l \in Launchers :
    /\ l.params \in Seq({l.params[i] : i \in DOMAIN l.params})
    /\ \A i \in DOMAIN l.params :
         /\ l.params[i].how \in {"public", "baked", "tensor", "pointer"}
         /\ IsDynamic(l, i) => l.params[i].how = "public"
    /\ l.grid.mode \in {"object", "dims", "cpp", "py"} /\ l.grid.n \in Nat
    /\ l.fixedDevice \in BOOLEAN

(* The parameters of a set, in their order.                                *)
InOrder(S) ==
  [k \in 1 .. Cardinality(S) |-> CHOOSE i \in S : Cardinality({j \in S : j < i}) = k - 1]

Publics(l)  == {i \in DOMAIN l.params : IsPublic(l, i)}
Dynamics(l) == {i \in DOMAIN l.params : IsDynamic(l, i)}
Bounds(l)   == {i \in DOMAIN l.params : IsBoundParam(l, i)}
Hidden(l)   == {i \in DOMAIN l.params : IsBoundParam(l, i) \/ l.params[i].how = "baked"}

Public(l)  == InOrder(Publics(l))
Dynamic(l) == InOrder(Dynamics(l))
NPARAMS(l) == Len(Public(l))
NDYN(l)    == Len(Dynamic(l))

(* Param.call_index, counted by call_layout. *)
CallIndex(l, i) == Cardinality({j \in 1 .. i - 1 : IsPublic(l, j)})

-----------------------------------------------------------------------------
(* The user's side: __text_signature__ (_launch_doc).                      *)

Numbered(what, n) == [k \in 1 .. n |-> Role(what, k)]
Params(indices)   == [k \in DOMAIN indices |-> Role("param", indices[k])]

Signature(l) ==
  (IF l.fixedDevice THEN <<>> ELSE Numbered("device", 1)) \o Numbered("stream", 1)
  \o (CASE l.grid.mode = "object" -> Numbered("grid", 1)
        [] l.grid.mode = "dims"   -> Numbered("grid", l.grid.n)
        [] l.grid.mode = "cpp"    -> Numbered("extra", l.grid.n)
        [] l.grid.mode = "py"     -> <<>>)
  \o Params(Dynamic(l)) \o Params(Public(l))

-----------------------------------------------------------------------------
(* C's side: counts and offsets (RenderContext.from_key); a place is       *)
(* counted from 0.                                                         *)

LeadArgs(l)  == IF l.fixedDevice THEN 1 ELSE 2
GridCount(l) == CASE l.grid.mode = "object" -> 1
                  [] l.grid.mode \in {"dims", "cpp"} -> l.grid.n
                  [] l.grid.mode = "py" -> 0
NControls(l) == LeadArgs(l) + GridCount(l)

At0(seq, place) == IF place \in 0 .. Len(seq) - 1 THEN seq[place + 1] ELSE <<>>
Arg(l, place)   == At0(Signature(l), place)

(* intj_parse_call *)
TakesExactly(l) == NControls(l) + NDYN(l) + NPARAMS(l)
DeviceRead(l)   == Arg(l, 0)
StreamRead(l)   == Arg(l, LeadArgs(l) - 1)

(* intj_call, and intj_pack of dyn and kargs: the call's arguments from    *)
(* its grid on.                                                            *)
GridRead(l, k)     == Arg(l, LeadArgs(l) + k - 1)
DynamicRead(l, k)  == Arg(l, NControls(l) + k - 1)
PackRead(l, i)     == Arg(l, NControls(l) + NDYN(l) + CallIndex(l, i))

(* A likely slip: the offset leaves out the dynamic values. *)
CppGridReadNoDynamic(l, i) == Arg(l, LeadArgs(l) + l.grid.n + CallIndex(l, i))

(* The lowered grid has the arguments from the grid's own on.              *)
CppGridRead(l, i) == Arg(l, LeadArgs(l) + l.grid.n + NDYN(l) + CallIndex(l, i))

(* intj_fill: what follows the controls goes to the miss, which splits the *)
(* dynamic values off (split_call).                                        *)
Filled(l)  == [k \in 1 .. NDYN(l) + NPARAMS(l) |-> Arg(l, LeadArgs(l) + GridCount(l) + k - 1)]
SplitOff(l) == SubSeq(Filled(l), 1, NDYN(l))
MissRead(l, i) == At0(SubSeq(Filled(l), NDYN(l) + 1, NDYN(l) + NPARAMS(l)), CallIndex(l, i))

-----------------------------------------------------------------------------
(* _init and the values that no call passes *)

(* plan._bind: the bound values follow the device; grid_py's fixed values  *)
(* are the bound and baked ones, which a launcher passes with it.          *)
BoundParams(l) == InOrder(Bounds(l))
HiddenTuple(l) == Params(InOrder(Hidden(l)))
InitArgs(l) ==
  (IF l.grid.mode = "py" THEN Numbered("grid", 2) ELSE <<>>)
  \o (IF l.fixedDevice THEN Numbered("device", 1) ELSE <<>>) \o Params(BoundParams(l))

GridPyOffset(l) == IF l.grid.mode = "py" THEN 2 ELSE 0
InitExtra(l)    == (IF l.fixedDevice THEN 1 ELSE 0) + GridPyOffset(l)
InitDevice(l)   == At0(InitArgs(l), GridPyOffset(l))

(* A parameter's slots: its place among the bound, and among those that no *)
(* call passes.                                                            *)
BoundSlot(l, i)  == Cardinality({j \in 1 .. i - 1 : IsBoundParam(l, j)})
HiddenSlot(l, i) == Cardinality({j \in 1 .. i - 1 : ~IsPublic(l, j) /\ ~IsDynamic(l, j)})
BoundRead(l, i)  == At0(InitArgs(l), BoundSlot(l, i) + InitExtra(l))

(* grid_py's dictionary has every parameter of the kernel. *)
MetaRead(l, i) == IF IsPublic(l, i) THEN PackRead(l, i) ELSE At0(HiddenTuple(l), HiddenSlot(l, i))
=============================================================================
