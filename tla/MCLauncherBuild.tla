---------------------------- MODULE MCLauncherBuild ----------------------------
(* Instances of LauncherBuildProofs for TLC. *)
EXTENDS LauncherBuildProofs, TLC

Symmetry == Permutations(Threads) \union Permutations(Launchers)
=============================================================================
