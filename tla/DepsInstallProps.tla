-------------------------- MODULE DepsInstallProps --------------------------
(* What deps.py promises of the directory it installs into.                   *)
EXTENDS DepsInstall

(* A tree that toolchain_for would take as provisioned is a whole one: the    *)
(* built marker, "written last, so a half-finished build tree never looks     *)
(* provisioned", stands only in a tree with every header and every library.   *)
MarkerMeansWhole == {"marker", "built"} \subseteq disk => disk = Whole

(* That holds until the first --force. *)
MarkedIsWhole == ~forced => MarkerMeansWhole

(* The toolchain a module is being built with has every library and they, and *)
(* the headers, are still on disk, although toolchain_for looked at three     *)
(* moments and held no lock; until the first --force.                         *)
WholeToolchain ==
    ~forced => \A p \in Proc : At(p, "use") => tool[p] = Libs /\ Source \cup Libs \subseteq disk

(* The clearing does its work, but it ignores errors: a call whose rmtree got *)
(* rid of the source marker, be it --force's or the sweep before a new tree   *)
(* is placed, leaves a whole tree if it comes to its end, whatever was killed *)
(* before it and whatever a cmake without parent still writes there.  Nothing *)
(* is said of a forced install whose rmtree left the marker.                  *)
ClearedIsWhole == \A p \in Proc : At(p, "leave") /\ cleared[p] => disk = Whole

(* The option as install's docstring has it: "force: Discard an existing     *)
(* (possibly half-written) tree first."  Where nobody else writes, nothing    *)
(* of the old tree is there when a forced install looks for the sources.      *)
ForceDiscards == \A p \in Proc : At(p, "source") /\ kind[p] = "force" => disk = {}

(* Every caller comes back, with a toolchain, a refusal or by its death: a    *)
(* killed installer does not wedge the later ones.                            *)
CallersReturn == \A p \in Proc : ~At(p, "idle") ~> At(p, "idle")
=============================================================================
