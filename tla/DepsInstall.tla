---------------------------- MODULE DepsInstall ----------------------------
(* src/intj/render/deps.py: the directory on disk that holds one fetched and  *)
(* built dependency (abseil), shared by every process of the machine.  A      *)
(* process looks for the toolchain without a lock, installs it under a flock, *)
(* and looks again.  It may fail, and it may be killed, between any two steps.*)
(* tsl is the same code without the cmake steps.                              *)
EXTENDS FiniteSets

CONSTANTS
    Proc,       \* processes, each with one caller of _provision or install
    Libs,       \* the libraries the build emits
    Forces,     \* SUBSET BOOLEAN: the values of --force the command line gets
    Survives,   \* BOOLEAN: whether cmake outlives the process that started it
    NoProc

ASSUME NoProcAssumption == NoProc \notin Proc
ASSUME ForcesAssumption == Forces \subseteq BOOLEAN
ASSUME SurvivesAssumption == Survives \in BOOLEAN
ASSUME LibsAssumption == Libs # {} /\ {"marker", "include", "built"} \cap Libs = {}

VARIABLES
    disk,       \* the files under _source_root
    lock,       \* the holder of the flock
    pc,         \* each process's place
    kind,       \* "check" from _provision, else the command line's install
    installed,  \* whether this install has already left the lock
    failed,     \* _INSTALL_FAILED: this process remembers a failure
    tool,       \* the archives of the toolchain the process was given
    todo,       \* what the process's cmake has still to emit
    orphan,     \* what a cmake whose parent was killed has still to emit
    cleared,    \* history: whether this install's last rmtree left no source marker
    forced      \* history: --force has been given

vars == <<disk, lock, pc, kind, installed, failed, tool, todo, orphan, cleared,
          forced>>

(* The tree as the tarball holds it, and once built. *)
Source == {"marker", "include"}
Whole == Source \cup Libs \cup {"built"}

Init ==
    /\ disk = {}
    /\ lock = NoProc
    /\ pc = [p \in Proc |-> "idle"]
    /\ kind = [p \in Proc |-> "check"]
    /\ installed = [p \in Proc |-> FALSE]
    /\ failed = [p \in Proc |-> FALSE]
    /\ tool = [p \in Proc |-> {}]
    /\ todo = [p \in Proc |-> {}]
    /\ orphan = {}
    /\ cleared = [p \in Proc |-> FALSE]
    /\ forced = FALSE

At(p, here) == pc[p] = here
Go(p, there) == pc' = [pc EXCEPT ![p] = there]
Unlocked(p) == IF lock = p THEN NoProc ELSE lock

(* The call's own variables end with it. *)
Return(p) ==
    /\ Go(p, "idle")
    /\ kind' = [kind EXCEPT ![p] = "check"]
    /\ installed' = [installed EXCEPT ![p] = FALSE]
    /\ tool' = [tool EXCEPT ![p] = {}]
    /\ todo' = [todo EXCEPT ![p] = {}]
    /\ cleared' = [cleared EXCEPT ![p] = FALSE]

(* An exception leaves install, and the lock with it; only _provision keeps   *)
(* the failure.                                                               *)
Raise(p) ==
    /\ Return(p)
    /\ lock' = Unlocked(p)
    /\ failed' = [failed EXCEPT ![p] = @ \/ kind[p] = "check"]
    /\ UNCHANGED <<disk, orphan>>

-----------------------------------------------------------------------------
(* The unlocked look, toolchain_for, before an install and after it.          *)

Provision(p) ==
    /\ At(p, "idle")
    /\ Go(p, "seeMarker")
    /\ UNCHANGED <<disk, lock, kind, installed, failed, tool, todo, orphan, cleared, forced>>

CommandLine(p, force) ==
    /\ At(p, "idle")
    /\ Go(p, "lock")
    /\ kind' = [kind EXCEPT ![p] = IF force THEN "force" ELSE "retry"]
    /\ forced' = (forced \/ force)
    /\ UNCHANGED <<disk, lock, installed, failed, tool, todo, orphan, cleared>>

(* toolchain_for answers None: install, unless that was tried, now or before. *)
NotThere(p) ==
    IF installed[p] \/ failed[p] THEN Raise(p)
    ELSE /\ Go(p, "lock")
         /\ UNCHANGED <<disk, lock, kind, installed, failed, tool, todo, orphan, cleared>>

SeeMarker(p) ==
    /\ At(p, "seeMarker")
    /\ IF "marker" \in disk
       THEN /\ Go(p, "seeBuilt")
            /\ UNCHANGED <<disk, lock, kind, installed, failed, tool, todo, orphan, cleared>>
       ELSE NotThere(p)

(* A likely slip: any library there stands for a finished build. *)
SeeBuiltByArchives(p) ==
    /\ At(p, "seeBuilt")
    /\ IF disk \cap Libs # {}
       THEN /\ Go(p, "seeArchives")
            /\ UNCHANGED <<disk, lock, kind, installed, failed, tool, todo, orphan, cleared>>
       ELSE NotThere(p)

SeeBuilt(p) ==
    /\ At(p, "seeBuilt")
    /\ IF "built" \in disk
       THEN /\ Go(p, "seeArchives")
            /\ UNCHANGED <<disk, lock, kind, installed, failed, tool, todo, orphan, cleared>>
       ELSE NotThere(p)

SeeArchives(p) ==
    /\ At(p, "seeArchives")
    /\ IF disk \cap Libs # {}
       THEN /\ Go(p, "use")
            /\ tool' = [tool EXCEPT ![p] = disk \cap Libs]
            /\ UNCHANGED <<disk, lock, kind, installed, failed, todo, orphan, cleared>>
       ELSE NotThere(p)

(* The module build that was given the toolchain ends. *)
Used(p) ==
    /\ At(p, "use")
    /\ Return(p)
    /\ UNCHANGED <<disk, lock, failed, orphan>>

-----------------------------------------------------------------------------
(* install, under the lock.                                                   *)

(* A likely slip: LOCK_SH for LOCK_EX. *)
LockShared(p) ==
    /\ At(p, "lock")
    /\ lock' = p
    /\ Go(p, IF kind[p] = "force" THEN "clear" ELSE "source")
    /\ UNCHANGED <<disk, kind, installed, failed, tool, todo, orphan, cleared, forced>>

Lock(p) ==
    /\ At(p, "lock")
    /\ lock = NoProc
    /\ lock' = p
    /\ Go(p, IF kind[p] = "force" THEN "clear" ELSE "source")
    /\ UNCHANGED <<disk, kind, installed, failed, tool, todo, orphan, cleared, forced>>

(* shutil.rmtree takes the files one by one, in the order of the directory,   *)
(* and with ignore_errors it goes on whatever is left.                        *)
Rmtree(p, here, there) ==
    /\ At(p, here)
    /\ \/ \E f \in disk : disk' = disk \ {f} /\ UNCHANGED <<pc, cleared>>
       \/ /\ Go(p, there)
          /\ cleared' = [cleared EXCEPT ![p] = "marker" \notin disk]
          /\ UNCHANGED disk
    /\ UNCHANGED <<lock, kind, installed, failed, tool, todo, orphan>>

FindSource(p) ==
    /\ At(p, "source")
    /\ Go(p, IF "marker" \in disk THEN "build" ELSE "fetch")
    /\ UNCHANGED <<disk, lock, kind, installed, failed, tool, todo, orphan, cleared>>

(* The download, verified and extracted to a scratch directory. *)
Fetch(p) ==
    /\ At(p, "fetch")
    /\ Go(p, "sweep")
    /\ UNCHANGED <<disk, lock, kind, installed, failed, tool, todo, orphan, cleared>>

(* os.replace of the extracted tree onto a root that holds nothing: onto one *)
(* with files left it is ENOTEMPTY, one of the ways to fail.                  *)
Place(p) ==
    /\ At(p, "place")
    /\ disk = {}
    /\ disk' = Source
    /\ Go(p, "build")
    /\ UNCHANGED <<lock, kind, installed, failed, tool, todo, orphan, cleared>>

(* cmake starts in a tree that is not marked as built; it emits what is missing. *)
Build(p) ==
    /\ At(p, "build")
    /\ IF "built" \in disk
       THEN Go(p, "leave") /\ UNCHANGED todo
       ELSE Go(p, "cmake") /\ todo' = [todo EXCEPT ![p] = Libs \ disk]
    /\ UNCHANGED <<disk, lock, kind, installed, failed, tool, orphan, cleared>>

Emit(p, lib) ==
    /\ lib \in todo[p]
    /\ todo' = [todo EXCEPT ![p] = @ \ {lib}]
    /\ disk' = disk \cup {lib}
    /\ UNCHANGED <<lock, pc, kind, installed, failed, tool, orphan, cleared>>

OrphanEmits(lib) ==
    /\ lib \in orphan
    /\ orphan' = orphan \ {lib}
    /\ disk' = disk \cup {lib}
    /\ UNCHANGED <<lock, pc, kind, installed, failed, tool, todo, cleared, forced>>

(* A likely slip: cmake's exit status is not looked at. *)
MarkUnfinished(p) ==
    /\ At(p, "cmake")
    /\ disk' = disk \cup {"built"}
    /\ todo' = [todo EXCEPT ![p] = {}]
    /\ Go(p, "leave")
    /\ UNCHANGED <<lock, kind, installed, failed, tool, orphan, cleared>>

(* The build ended well, and only then is the marker written. *)
Mark(p) ==
    /\ At(p, "cmake")
    /\ todo[p] = {}
    /\ disk' = disk \cup {"built"}
    /\ Go(p, "leave")
    /\ UNCHANGED <<lock, kind, installed, failed, tool, todo, orphan, cleared>>

(* The download, the checksum, the disk or cmake fails. *)
Fails(p) == (\E here \in {"fetch", "place", "cmake"} : At(p, here)) /\ Raise(p)

Leave(p) ==
    /\ At(p, "leave")
    /\ lock' = NoProc
    /\ installed' = [installed EXCEPT ![p] = TRUE]
    /\ Go(p, "seeMarker")
    /\ cleared' = [cleared EXCEPT ![p] = FALSE]
    /\ UNCHANGED <<disk, kind, failed, tool, todo, orphan>>

(* The process is killed and started again: the kernel drops its flock, what  *)
(* it had written stays, and what it remembered is gone.                      *)
Die(p, lockLeft) ==
    /\ Return(p)
    /\ lock' = lockLeft
    /\ failed' = [failed EXCEPT ![p] = FALSE]
    /\ orphan' = IF Survives THEN orphan \cup todo[p] ELSE orphan
    /\ UNCHANGED <<disk, forced>>

(* A likely slip: a lock file that only its maker deletes. *)
KilledHolding(p) == Die(p, lock)
Killed(p) == Die(p, Unlocked(p))

Work(p) ==
    \/ SeeMarker(p) \/ SeeBuilt(p) \/ SeeArchives(p) \/ Used(p)
    \/ Rmtree(p, "clear", "source") \/ FindSource(p) \/ Fetch(p)
    \/ Rmtree(p, "sweep", "place") \/ Place(p) \/ Build(p)
    \/ \E lib \in Libs : Emit(p, lib)
    \/ Mark(p) \/ Fails(p) \/ Leave(p)
Step(p) == Work(p) /\ UNCHANGED forced

Next ==
    \/ \E p \in Proc :
        \/ Provision(p) \/ Lock(p) \/ Step(p) \/ Killed(p)
        \/ \E force \in Forces : CommandLine(p, force)
    \/ \E lib \in Libs : OrphanEmits(lib)

Spec == Init /\ [][Next]_vars

(* A process that runs takes its next step, and a flock that is let go of     *)
(* again and again is at last given to each process queued for it.            *)
FairSpec ==
    Spec /\ \A p \in Proc : WF_vars(Step(p)) /\ SF_vars(Lock(p))
=============================================================================
