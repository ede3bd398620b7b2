---------------------------- MODULE MCDepsInstall ----------------------------
(* Two processes and two libraries, with and without --force.                *)
EXTENDS DepsInstallProps
=============================================================================
