----------------------------- MODULE LauncherLife -----------------------------
(***************************************************************************)
(* What a launcher promises its users, whatever threads do: it is unbuilt  *)
(* until one build succeeds; while unbuilt its options only gain edits,    *)
(* none is lost; the build takes the options as they are then, without     *)
(* `delayed`; from there on they are fixed.  Only the garbage collector    *)
(* takes options and state away.                                           *)
(***************************************************************************)
EXTENDS Integers

CONSTANTS Launchers, MaxEdits, NoOptions

VARIABLES
  phase,   (* h -> "unbuilt" or "built"                                    *)
  options, (* h -> the edits made and whether `delayed` is pending         *)
  kernel   (* h -> the options the launcher runs with, NoOptions if none   *)

vars == <<phase, options, kernel>>

Options == [edits : SUBSET (1 .. MaxEdits), delayed : BOOLEAN]

Init ==
  /\ phase = [h \in Launchers |-> "unbuilt"]
  /\ options \in [Launchers -> {o \in Options : o.edits = {}}]
  /\ kernel = [h \in Launchers |-> NoOptions]

(* An edit adds itself to the edits; resolving only drops `delayed`. *)
Edit(h) ==
  /\ phase[h] = "unbuilt" /\ options[h] # NoOptions
  /\ \E o \in Options :
       /\ options[h].edits \subseteq o.edits
       /\ options' = [options EXCEPT ![h] = o]
  /\ UNCHANGED <<phase, kernel>>

Build(h) ==
  /\ phase[h] = "unbuilt" /\ options[h] # NoOptions
  /\ ~options[h].delayed
  /\ phase' = [phase EXCEPT ![h] = "built"]
  /\ kernel' = [kernel EXCEPT ![h] = options[h]]
  /\ UNCHANGED options

Collect(h) ==
  /\ \/ /\ kernel' = [kernel EXCEPT ![h] = NoOptions]
        /\ UNCHANGED options
     \/ /\ kernel[h] = NoOptions
        /\ options' = [options EXCEPT ![h] = NoOptions]
        /\ UNCHANGED kernel
  /\ UNCHANGED phase

Next == \E h \in Launchers : Edit(h) \/ Build(h) \/ Collect(h)

Spec == Init /\ [][Next]_vars
=============================================================================
