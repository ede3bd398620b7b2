-------------------------- MODULE DepsInstallProofs --------------------------
(* Until the first --force, whatever fails and whoever is killed, what looks  *)
(* like a provisioned tree is whole; and an install whose rmtree got rid of    *)
(* the source marker leaves one, always.  For any processes and libraries, and whether or not cmake    *)
(* outlives its parent.                                                       *)
EXTENDS DepsInstallProps, TLAPS

Places == {"idle", "seeMarker", "seeBuilt", "seeArchives", "use", "lock", "clear",
           "source", "fetch", "sweep", "place", "build", "cmake", "leave"}

(* The places under the flock at which the tree can still change. *)
Locked == {"clear", "source", "fetch", "sweep", "place", "build", "cmake", "leave"}

TypeOK ==
    /\ disk \subseteq Whole
    /\ lock \in Proc \cup {NoProc}
    /\ pc \in [Proc -> Places]
    /\ kind \in [Proc -> {"check", "retry", "force"}]
    /\ installed \in [Proc -> BOOLEAN]
    /\ failed \in [Proc -> BOOLEAN]
    /\ tool \in [Proc -> SUBSET Libs]
    /\ todo \in [Proc -> SUBSET Libs]
    /\ orphan \subseteq Libs
    /\ cleared \in [Proc -> BOOLEAN]

(* Who is inside holds the flock, so no two are. *)
Exclusive == \A p \in Proc : pc[p] \in Locked => lock = p

NotForced == \A p \in Proc : kind[p] # "force" /\ pc[p] # "clear"

(* The tree grows in one order: the sources at once, the libraries, the mark. *)
Grown ==
    /\ "marker" \in disk => Source \subseteq disk
    /\ "built" \in disk => disk = Whole

(* A process that sweeps found no source marker, and one that builds found no *)
(* built marker, and both stay true while it holds the lock.                  *)
Seen(p) ==
    /\ pc[p] \in {"fetch", "sweep", "place"} => "marker" \notin disk
    /\ pc[p] = "build" => "marker" \in disk
    /\ pc[p] = "cmake" => "marker" \in disk /\ "built" \notin disk /\ Libs \subseteq disk \cup todo[p]
    /\ todo[p] # {} => pc[p] = "cmake"
    /\ pc[p] = "seeArchives" => "built" \in disk
    /\ pc[p] = "use" => "built" \in disk /\ tool[p] = Libs

Calm == TypeOK /\ Exclusive /\ NotForced /\ Grown /\ \A p \in Proc : Seen(p)

(* The inductive invariant: a history flag that is never lowered guards it.   *)
IInv == forced \in BOOLEAN /\ (~forced => Calm)

-----------------------------------------------------------------------------
(* The three names are no libraries. *)
LEMMA NamesAreNoLibs ==
    /\ "marker" \notin Libs /\ "include" \notin Libs /\ "built" \notin Libs
    /\ "built" \notin Source /\ Source \subseteq Whole /\ Libs \subseteq Whole
    /\ "built" \in Whole /\ "marker" \in Whole /\ "marker" \in Source
    /\ Whole = Source \cup Libs \cup {"built"}
  BY LibsAssumption DEF Source, Whole

LEMMA InitCalm == Init => Calm
  BY NamesAreNoLibs DEF Init, Calm, TypeOK, Exclusive, NotForced, Grown, Seen, Places, Locked

(* A step that changes neither the tree, nor the lock, nor anything of the    *)
(* other processes, need only be looked at in its own process.                *)
LEMMA Quiet ==
    ASSUME Calm, TypeOK', NEW p \in Proc, disk' = disk,
           \A q \in Proc \ {p} : /\ pc'[q] = pc[q] /\ kind'[q] = kind[q]
                                 /\ todo'[q] = todo[q] /\ tool'[q] = tool[q],
           lock' = lock \/ (lock = p /\ lock' = NoProc) \/ (lock = NoProc /\ lock' = p),
           pc'[p] \in Locked => lock' = p,
           kind'[p] # "force" /\ pc'[p] # "clear",
           Seen(p)'
    PROVE  Calm'
  <1>1. Exclusive'
    <2> SUFFICES ASSUME NEW q \in Proc, pc'[q] \in Locked PROVE lock' = q
      BY DEF Exclusive
    <2>1. CASE q = p
      BY <2>1
    <2>2. CASE q # p
      <3>1. lock = q
        BY <2>2 DEF Calm, Exclusive
      <3>2. QED
        BY <3>1, <2>2, NoProcAssumption
    <2>3. QED
      BY <2>1, <2>2
  <1>2. NotForced'
    BY DEF Calm, NotForced
  <1>3. Grown'
    BY DEF Calm, Grown
  <1>4. ASSUME NEW q \in Proc PROVE Seen(q)'
    <2>1. CASE q # p
      BY <2>1 DEF Calm, Seen
    <2>2. QED
      BY <2>1
  <1>5. QED
    BY <1>1, <1>2, <1>3, <1>4 DEF Calm

(* The steps that leave the tree as it is. *)
Unforced(p) ==
    \/ Provision(p) \/ Lock(p) \/ Killed(p) \/ CommandLine(p, FALSE)
    \/ SeeMarker(p) \/ SeeBuilt(p) \/ SeeArchives(p) \/ Used(p)
    \/ FindSource(p) \/ Fetch(p) \/ Build(p) \/ Fails(p) \/ Leave(p)

LEMMA QuietStep == ASSUME Calm, NEW p \in Proc, Unforced(p) PROVE Calm'
  <1> USE DEF Go, At, Return, Unlocked
  <1> DEFINE Others == \A q \in Proc \ {p} : /\ pc'[q] = pc[q] /\ kind'[q] = kind[q]
                                            /\ todo'[q] = todo[q] /\ tool'[q] = tool[q]
             LockMoves == lock' = lock \/ (lock = p /\ lock' = NoProc)
                             \/ (lock = NoProc /\ lock' = p)
             Own == /\ pc'[p] \in Locked => lock' = p
                    /\ kind'[p] # "force" /\ pc'[p] # "clear"
                    /\ Seen(p)'
             Goal == TypeOK' /\ disk' = disk /\ Others /\ LockMoves /\ Own
  <1> SUFFICES Goal
    BY Quiet
  <1>0. ASSUME Raise(p) PROVE Goal
    BY <1>0, NamesAreNoLibs DEF Raise, Calm, TypeOK, Exclusive, NotForced, Seen, Places, Locked
  <1>1. ASSUME NotThere(p), pc[p] \in {"seeMarker", "seeBuilt", "seeArchives"} PROVE Goal
    <2>1. CASE installed[p] \/ failed[p]
      BY <1>0, <1>1, <2>1 DEF NotThere
    <2>2. QED
      BY <1>1, <2>1 DEF NotThere, Calm, TypeOK, Exclusive, NotForced, Seen, Places, Locked
  <1>2. CASE Provision(p)
    BY <1>2 DEF Provision, Calm, TypeOK, Exclusive, NotForced, Seen, Places, Locked
  <1>3. CASE Lock(p)
    BY <1>3 DEF Lock, Calm, TypeOK, Exclusive, NotForced, Seen, Places, Locked
  <1>4. CASE Killed(p)
    BY <1>4 DEF Killed, Die, Calm, TypeOK, Exclusive, NotForced, Seen, Places, Locked
  <1>5. CASE CommandLine(p, FALSE)
    BY <1>5 DEF CommandLine, Calm, TypeOK, Exclusive, NotForced, Seen, Places, Locked
  <1>6. CASE SeeMarker(p)
    <2>1. CASE "marker" \in disk
      BY <1>6, <2>1 DEF SeeMarker, Calm, TypeOK, Exclusive, NotForced, Seen, Places, Locked
    <2>2. QED
      BY <1>1, <1>6, <2>1 DEF SeeMarker
  <1>7. CASE SeeBuilt(p)
    <2>1. CASE "built" \in disk
      BY <1>7, <2>1 DEF SeeBuilt, Calm, TypeOK, Exclusive, NotForced, Seen, Places, Locked
    <2>2. QED
      BY <1>1, <1>7, <2>1 DEF SeeBuilt
  <1>8. CASE SeeArchives(p)
    <2>1. CASE disk \cap Libs # {}
      <3>1. "built" \in disk /\ disk \cap Libs = Libs
        BY <1>8, NamesAreNoLibs DEF SeeArchives, Calm, Seen, Grown
      <3>2. QED
        <4>1. pc' = [pc EXCEPT ![p] = "use"] /\ tool' = [tool EXCEPT ![p] = Libs]
          BY <1>8, <2>1, <3>1 DEF SeeArchives
        <4>2. UNCHANGED <<disk, lock, kind, installed, failed, todo, orphan, cleared>>
          BY <1>8, <2>1 DEF SeeArchives
        <4>3. TypeOK' /\ Others
          BY <4>1, <4>2 DEF Calm, TypeOK, Places
        <4>4. Own
          BY <1>8, <3>1, <4>1, <4>2 DEF SeeArchives, Calm, TypeOK, NotForced, Seen, Locked
        <4>5. QED
          BY <4>2, <4>3, <4>4
    <2>2. QED
      BY <1>1, <1>8, <2>1 DEF SeeArchives
  <1>9. CASE Used(p)
    BY <1>9 DEF Used, Calm, TypeOK, Exclusive, NotForced, Seen, Places, Locked
  <1>10. CASE FindSource(p)
    BY <1>10 DEF FindSource, Calm, TypeOK, Exclusive, NotForced, Seen, Places, Locked
  <1>11. CASE Fetch(p)
    BY <1>11 DEF Fetch, Calm, TypeOK, Exclusive, NotForced, Seen, Places, Locked
  <1>12. CASE Build(p)
    <2>1. CASE "built" \in disk
      BY <1>12, <2>1 DEF Build, Calm, TypeOK, Exclusive, NotForced, Seen, Places, Locked
    <2>2. CASE "built" \notin disk
      BY <1>12, <2>2 DEF Build, Calm, TypeOK, Exclusive, NotForced, Seen, Places, Locked
    <2>3. QED
      BY <2>1, <2>2
  <1>13. CASE Fails(p)
    BY <1>0, <1>13 DEF Fails
  <1>14. CASE Leave(p)
    BY <1>14 DEF Leave, Calm, TypeOK, Exclusive, NotForced, Seen, Places, Locked
  <1> HIDE DEF Goal
  <1>15. QED
    BY <1>2, <1>3, <1>4, <1>5, <1>6, <1>7, <1>8, <1>9, <1>10, <1>11, <1>12, <1>13, <1>14 DEF Unforced

-----------------------------------------------------------------------------
(* The steps that change the tree. *)

LEMMA Swept == ASSUME Calm, NEW p \in Proc, Rmtree(p, "sweep", "place") PROVE Calm'
  <1> USE DEF Go, At, Rmtree
  <1>1. pc[p] = "sweep" /\ lock = p /\ "marker" \notin disk /\ "built" \notin disk
    BY NamesAreNoLibs DEF Calm, TypeOK, Exclusive, Seen, Grown, Locked
  <1>2. /\ disk' \subseteq disk
        /\ \/ pc' = pc /\ cleared' = cleared
           \/ /\ pc' = [pc EXCEPT ![p] = "place"]
              /\ cleared' = [cleared EXCEPT ![p] = "marker" \notin disk]
        /\ UNCHANGED <<lock, kind, installed, failed, tool, todo, orphan>>
    OBVIOUS
  <1>3. TypeOK'
    BY <1>2 DEF Calm, TypeOK, Places
  <1>4. Exclusive' /\ NotForced' /\ Grown'
    BY <1>1, <1>2 DEF Calm, TypeOK, Exclusive, NotForced, Grown, Locked
  <1>5. ASSUME NEW q \in Proc PROVE Seen(q)'
    <2>1. q # p => pc[q] \notin Locked
      BY <1>1 DEF Calm, Exclusive
    <2>2. todo' = todo /\ tool' = tool
      BY <1>2
    <2>3. pc'[q] = pc[q] \/ (q = p /\ pc'[q] = "place")
      BY <1>2 DEF Calm, TypeOK
    <2>4. Seen(q) /\ "built" \notin disk' /\ "marker" \notin disk'
      BY <1>1, <1>2 DEF Calm
    <2>5. CASE q = p
      BY <1>1, <2>2, <2>3, <2>4, <2>5 DEF Seen
    <2>6. CASE q # p
      BY <1>1, <2>1, <2>2, <2>3, <2>4, <2>6 DEF Seen, Locked
    <2>7. QED
      BY <2>5, <2>6
  <1>6. QED
    BY <1>3, <1>4, <1>5 DEF Calm

LEMMA Placed == ASSUME Calm, NEW p \in Proc, Place(p) PROVE Calm'
  <1> USE DEF Go, At, Place
  <1>1. lock = p /\ disk = {} /\ disk' = Source
    BY DEF Calm, TypeOK, Exclusive, Locked
  <1>2. TypeOK'
    BY <1>1, NamesAreNoLibs DEF Calm, TypeOK, Places
  <1>3. Exclusive' /\ NotForced' /\ Grown'
    BY <1>1, NamesAreNoLibs DEF Calm, TypeOK, Exclusive, NotForced, Grown, Locked
  <1>4. ASSUME NEW q \in Proc PROVE Seen(q)'
    <2>1. CASE q = p
      BY <1>1, <2>1, NamesAreNoLibs DEF Calm, TypeOK, Seen
    <2>2. CASE q # p
      <3>1. pc[q] \notin Locked /\ pc'[q] = pc[q]
        BY <1>1, <2>2 DEF Calm, TypeOK, Exclusive
      <3>2. QED
        BY <1>1, <3>1 DEF Calm, Seen, Locked
    <2>3. QED
      BY <2>1, <2>2
  <1>5. QED
    BY <1>2, <1>3, <1>4 DEF Calm

(* A library more, from whichever cmake. *)
LEMMA OneMore ==
    ASSUME Calm, TypeOK', NEW lib \in Libs, disk' = disk \cup {lib},
           UNCHANGED <<lock, pc, kind, tool>>,
           \A p \in Proc : todo'[p] = todo[p] \/ todo'[p] = todo[p] \ {lib}
    PROVE  Calm'
  <1>1. Exclusive' /\ NotForced'
    BY DEF Calm, Exclusive, NotForced
  <1>2. Grown'
    BY NamesAreNoLibs DEF Calm, Grown
  <1>3. ASSUME NEW p \in Proc PROVE Seen(p)'
    <2>1. "marker" \in disk' <=> "marker" \in disk
      BY NamesAreNoLibs
    <2>2. "built" \in disk' <=> "built" \in disk
      BY NamesAreNoLibs
    <2>3. todo'[p] = todo[p] \/ todo'[p] = todo[p] \ {lib}
      OBVIOUS
    <2>4. Libs \subseteq disk \cup todo[p] => Libs \subseteq disk' \cup todo'[p]
      BY <2>3
    <2>5. QED
      BY <2>1, <2>2, <2>3, <2>4 DEF Calm, Seen
  <1>4. QED
    BY <1>1, <1>2, <1>3 DEF Calm

LEMMA Emitted == ASSUME Calm, NEW p \in Proc, NEW lib \in Libs, Emit(p, lib) PROVE Calm'
  <1>1. TypeOK'
    BY NamesAreNoLibs DEF Emit, Calm, TypeOK
  <1>2. \A q \in Proc : todo'[q] = todo[q] \/ todo'[q] = todo[q] \ {lib}
    BY DEF Emit, Calm, TypeOK
  <1>3. QED
    BY <1>1, <1>2, OneMore DEF Emit

LEMMA OrphanEmitted == ASSUME Calm, NEW lib \in Libs, OrphanEmits(lib) PROVE Calm'
  <1>1. TypeOK'
    BY NamesAreNoLibs DEF OrphanEmits, Calm, TypeOK
  <1>2. QED
    BY <1>1, OneMore DEF OrphanEmits

LEMMA Marked == ASSUME Calm, NEW p \in Proc, Mark(p) PROVE Calm'
  <1> USE DEF Go, At, Mark
  <1>1. lock = p /\ "marker" \in disk /\ disk' = Whole
    <2>1. "marker" \in disk /\ Libs \subseteq disk
      BY DEF Calm, Seen
    <2>2. Source \subseteq disk /\ disk \subseteq Whole /\ lock = p
      BY <2>1 DEF Calm, TypeOK, Grown, Exclusive, Locked
    <2>3. QED
      BY <2>1, <2>2, NamesAreNoLibs
  <1>2. TypeOK'
    BY <1>1 DEF Calm, TypeOK, Places
  <1>3. Exclusive' /\ NotForced' /\ Grown'
    BY <1>1, NamesAreNoLibs DEF Calm, TypeOK, Exclusive, NotForced, Grown, Locked
  <1>4. ASSUME NEW q \in Proc PROVE Seen(q)'
    <2>1. CASE q = p
      BY <1>1, <2>1, NamesAreNoLibs DEF Calm, TypeOK, Seen
    <2>2. CASE q # p
      <3>1. pc[q] \notin Locked /\ pc'[q] = pc[q]
        BY <1>1, <2>2 DEF Calm, TypeOK, Exclusive
      <3>2. QED
        BY <1>1, <3>1, NamesAreNoLibs DEF Calm, Seen, Locked
    <2>3. QED
      BY <2>1, <2>2
  <1>5. QED
    BY <1>2, <1>3, <1>4 DEF Calm

-----------------------------------------------------------------------------
LEMMA NextIInv == ASSUME IInv, [Next]_vars PROVE IInv'
  <1>1. CASE UNCHANGED vars
    BY <1>1 DEF vars, IInv, Calm, TypeOK, Exclusive, NotForced, Grown, Seen
  <1>2. ASSUME NEW p \in Proc, NEW force \in Forces, CommandLine(p, force) PROVE IInv'
    <2>1. force \in BOOLEAN /\ forced' = (forced \/ force)
      BY <1>2, ForcesAssumption DEF CommandLine
    <2>2. CASE forced \/ force
      BY <2>1, <2>2 DEF IInv
    <2>3. CASE ~(forced \/ force)
      <3>1. force = FALSE /\ Calm
        BY <2>1, <2>3 DEF IInv
      <3>2. CommandLine(p, FALSE)
        BY <1>2, <3>1
      <3>3. Calm'
        BY <3>1, <3>2, QuietStep DEF Unforced
      <3>4. QED
        BY <2>1, <3>3, <2>3 DEF IInv
    <2>4. QED
      BY <2>2, <2>3
  <1>3. ASSUME UNCHANGED forced,
               \/ \E lib \in Libs : OrphanEmits(lib)
               \/ \E p \in Proc : Provision(p) \/ Lock(p) \/ Work(p) \/ Killed(p),
               Calm
        PROVE  Calm'
    <2>1. ASSUME NEW lib \in Libs, OrphanEmits(lib) PROVE Calm'
      BY <1>3, <2>1, OrphanEmitted
    <2>2. ASSUME NEW p \in Proc, Work(p) PROVE Calm'
      <3>1. ~Rmtree(p, "clear", "source")
        BY <1>3 DEF Rmtree, At, Calm, NotForced
      <3>2. QED
        BY <1>3, <2>2, <3>1, QuietStep, Swept, Placed, Emitted, Marked DEF Work, Unforced
    <2>3. QED
      BY <1>3, <2>1, <2>2, QuietStep DEF Unforced
  <1>4. UNCHANGED forced => IInv'
    <2>1. CASE UNCHANGED vars
      BY <1>1, <2>1
    <2>2. CASE \E p \in Proc, force \in Forces : CommandLine(p, force)
      BY <1>2, <2>2
    <2>3. CASE \/ \E lib \in Libs : OrphanEmits(lib)
               \/ \E p \in Proc : Provision(p) \/ Lock(p) \/ Work(p) \/ Killed(p)
      <3> HAVE UNCHANGED forced
      <3> HIDE DEF Calm
      <3>1. QED
        BY <1>3, <2>3 DEF IInv
    <2>4. QED
      BY <2>1, <2>2, <2>3 DEF Next, Step
  <1>5. QED
    <2>1. CASE \E p \in Proc, force \in Forces : CommandLine(p, force)
      BY <1>2, <2>1
    <2>2. CASE ~\E p \in Proc, force \in Forces : CommandLine(p, force)
      <3>1. UNCHANGED forced
        BY <2>2 DEF Next, vars, Provision, Lock, Step, Killed, Die, OrphanEmits
      <3>2. QED
        BY <3>1, <1>4
    <2>3. QED
      BY <2>1, <2>2

(* Every reachable state satisfies the inductive invariant. *)
THEOREM DepsInvariance == Spec => []IInv
  <1>1. IInv /\ [Next]_vars => IInv'
    BY NextIInv
  <1>2. Init => IInv
    BY InitCalm DEF Init, IInv
  <1>3. QED
    BY <1>2, <1>1, PTL DEF Spec

(* What the markers say is provisioned is whole, until the first --force:     *)
(* _BUILT_MARKER's comment.                                                   *)
THEOREM HalfTreesLookUnprovisioned == Spec => []MarkedIsWhole
  <1>1. IInv => MarkedIsWhole
    BY DEF IInv, Calm, Grown, MarkedIsWhole, MarkerMeansWhole
  <1>2. QED
    BY DepsInvariance, <1>1, PTL

(* A toolchain that toolchain_for gave out, without a lock, has every library *)
(* and stays on disk as long as it is used, until the first --force.          *)
THEOREM ToolchainsAreWhole == Spec => []WholeToolchain
  <1>1. IInv => WholeToolchain
    BY NamesAreNoLibs DEF IInv, Calm, Grown, Seen, WholeToolchain, At
  <1>2. QED
    BY DepsInvariance, <1>1, PTL

-----------------------------------------------------------------------------
(* After a clearing, in any state the tree may be in: what the install that   *)
(* got rid of the source marker holds the flock over has no marker until the  *)
(* new tree is placed, and from then on the sources and no built marker; only *)
(* libraries come from elsewhere, until its own cmake is done.                *)
Repair(p) ==
    cleared[p] =>
        /\ pc[p] \in {"source", "fetch", "sweep", "place"} => "marker" \notin disk
        /\ pc[p] = "build" => Source \subseteq disk /\ "built" \notin disk
        /\ pc[p] = "cmake" => Source \subseteq disk /\ Libs \subseteq disk \cup todo[p]
        /\ pc[p] = "leave" => disk = Whole
        /\ pc[p] \in Locked

RInv == TypeOK /\ Exclusive /\ \A p \in Proc : Repair(p)

(* What a step of process p must show for the others, who are not inside or   *)
(* see at most a library more.                                                *)
LEMMA RepairStep ==
    ASSUME RInv, TypeOK', NEW p \in Proc,
           \A q \in Proc \ {p} : pc'[q] = pc[q] /\ cleared'[q] = cleared[q] /\ todo'[q] = todo[q],
           lock' = lock \/ (lock = p /\ lock' = NoProc) \/ (lock = NoProc /\ lock' = p),
           disk' = disk \/ (\E lib \in Libs : disk' = disk \cup {lib}) \/ lock = p,
           pc'[p] \in Locked => lock' = p,
           Repair(p)'
    PROVE  RInv'
  <1>1. ASSUME NEW q \in Proc \ {p}, pc'[q] \in Locked PROVE lock = q /\ lock' = q
    <2>1. lock = q
      BY <1>1 DEF RInv, Exclusive
    <2>2. QED
      BY <2>1, NoProcAssumption
  <1>2. Exclusive'
    BY <1>1 DEF Exclusive
  <1>3. ASSUME NEW q \in Proc \ {p} PROVE Repair(q)'
    <2>1. CASE pc[q] \notin Locked
      BY <2>1 DEF RInv, Repair
    <2>2. CASE pc[q] \in Locked
      <3>1. disk' = disk \/ \E lib \in Libs : disk' = disk \cup {lib}
        BY <1>1, <2>2
      <3>2. Repair(q)
        BY DEF RInv
      <3>3. CASE disk' = disk
        BY <3>2, <3>3 DEF Repair
      <3>4. ASSUME NEW lib \in Libs, disk' = disk \cup {lib} PROVE Repair(q)'
        BY <3>2, <3>4, NamesAreNoLibs DEF Repair
      <3>5. QED
        BY <3>1, <3>3, <3>4
    <2>3. QED
      BY <2>1, <2>2
  <1>4. QED
    BY <1>2, <1>3 DEF RInv

LEMMA InitRInv == Init => RInv
  BY NamesAreNoLibs DEF Init, RInv, TypeOK, Exclusive, Repair, Places, Locked

(* The steps that leave the tree as it is. *)
LEMMA QuietRepair ==
    ASSUME RInv, NEW p \in Proc, Unforced(p) \/ CommandLine(p, TRUE)
    PROVE  RInv'
  <1> USE DEF Go, At, Return, Unlocked
  <1> DEFINE Others == \A q \in Proc \ {p} :
                         pc'[q] = pc[q] /\ cleared'[q] = cleared[q] /\ todo'[q] = todo[q]
             LockMoves == lock' = lock \/ (lock = p /\ lock' = NoProc)
                             \/ (lock = NoProc /\ lock' = p)
             Own == (pc'[p] \in Locked => lock' = p) /\ Repair(p)'
             Goal == TypeOK' /\ disk' = disk /\ Others /\ LockMoves /\ Own
  <1> SUFFICES Goal
    BY RepairStep
  <1>0. ASSUME Raise(p) PROVE Goal
    BY <1>0 DEF Raise, RInv, TypeOK, Exclusive, Repair, Places, Locked
  <1>1. ASSUME NotThere(p), pc[p] \in {"seeMarker", "seeBuilt", "seeArchives"} PROVE Goal
    <2>1. CASE installed[p] \/ failed[p]
      BY <1>0, <1>1, <2>1 DEF NotThere
    <2>2. QED
      BY <1>1, <2>1 DEF NotThere, RInv, TypeOK, Exclusive, Repair, Places, Locked
  <1>2. CASE Provision(p)
    BY <1>2 DEF Provision, RInv, TypeOK, Exclusive, Repair, Places, Locked
  <1>3. CASE Lock(p)
    BY <1>3 DEF Lock, RInv, TypeOK, Exclusive, Repair, Places, Locked
  <1>4. CASE Killed(p)
    BY <1>4 DEF Killed, Die, RInv, TypeOK, Exclusive, Repair, Places, Locked
  <1>5. CASE CommandLine(p, FALSE) \/ CommandLine(p, TRUE)
    BY <1>5 DEF CommandLine, RInv, TypeOK, Exclusive, Repair, Places, Locked
  <1>6. CASE SeeMarker(p)
    BY <1>1, <1>6 DEF SeeMarker, RInv, TypeOK, Exclusive, Repair, Places, Locked
  <1>7. CASE SeeBuilt(p)
    BY <1>1, <1>7 DEF SeeBuilt, RInv, TypeOK, Exclusive, Repair, Places, Locked
  <1>8. CASE SeeArchives(p)
    BY <1>1, <1>8 DEF SeeArchives, RInv, TypeOK, Exclusive, Repair, Places, Locked
  <1>9. CASE Used(p)
    BY <1>9 DEF Used, RInv, TypeOK, Exclusive, Repair, Places, Locked
  <1>10. CASE FindSource(p)
    BY <1>10 DEF FindSource, RInv, TypeOK, Exclusive, Repair, Places, Locked
  <1>11. CASE Fetch(p)
    BY <1>11 DEF Fetch, RInv, TypeOK, Exclusive, Repair, Places, Locked
  <1>12. CASE Build(p)
    BY <1>12, NamesAreNoLibs DEF Build, RInv, TypeOK, Exclusive, Repair, Places, Locked
  <1>13. CASE Fails(p)
    BY <1>0, <1>13 DEF Fails
  <1>14. CASE Leave(p)
    BY <1>14 DEF Leave, RInv, TypeOK, Exclusive, Repair, Places, Locked
  <1> HIDE DEF Goal
  <1>15. QED
    BY <1>2, <1>3, <1>4, <1>5, <1>6, <1>7, <1>8, <1>9, <1>10, <1>11, <1>12, <1>13, <1>14 DEF Unforced

(* The steps that change it, under the lock or by a library. *)
LEMMA TreeRepair ==
    ASSUME RInv, NEW p \in Proc,
           \/ Rmtree(p, "clear", "source") \/ Rmtree(p, "sweep", "place")
           \/ Place(p) \/ Mark(p) \/ \E lib \in Libs : Emit(p, lib)
    PROVE  RInv'
  <1> USE DEF Go, At
  <1>0. \A q \in Proc : pc[q] \in Locked => lock = q
    BY DEF RInv, Exclusive
  <1>1. ASSUME NEW here \in {"clear", "sweep"}, NEW there \in {"source", "place"},
               Rmtree(p, here, there)
        PROVE  RInv'
    <2>1. lock = p /\ pc[p] = here
      BY <1>0, <1>1 DEF Rmtree, Locked
    <2>2. /\ disk' \subseteq disk
          /\ \/ pc' = pc /\ cleared' = cleared
             \/ /\ pc' = [pc EXCEPT ![p] = there]
                /\ disk' = disk
                /\ cleared' = [cleared EXCEPT ![p] = "marker" \notin disk]
          /\ UNCHANGED <<lock, kind, installed, failed, tool, todo, orphan>>
      BY <1>1 DEF Rmtree
    <2>3. TypeOK'
      BY <2>2 DEF RInv, TypeOK, Places
    <2>4. Repair(p)'
      <3>1. CASE pc' = pc /\ cleared' = cleared
        BY <2>1, <2>2, <3>1 DEF RInv, Repair
      <3>2. CASE pc' = [pc EXCEPT ![p] = there] /\ disk' = disk
        BY <2>1, <2>2, <3>2 DEF RInv, TypeOK, Repair, Locked
      <3>3. QED
        BY <2>2, <3>1, <3>2
    <2>5. \A q \in Proc \ {p} : pc'[q] = pc[q] /\ cleared'[q] = cleared[q] /\ todo'[q] = todo[q]
      BY <2>2 DEF RInv, TypeOK
    <2>6. QED
      BY <2>1, <2>2, <2>3, <2>4, <2>5, RepairStep
  <1>2. CASE Place(p)
    <2>1. lock = p /\ disk' = Source
      BY <1>0, <1>2 DEF Place, Locked
    <2>2. TypeOK'
      BY <1>2, <2>1, NamesAreNoLibs DEF RInv, TypeOK, Places, Place
    <2>3. Repair(p)'
      BY <1>2, <2>1, NamesAreNoLibs DEF RInv, TypeOK, Repair, Place, Locked
    <2>4. QED
      BY <1>2, <2>1, <2>2, <2>3, RepairStep DEF Place, RInv, TypeOK
  <1>3. CASE Mark(p)
    <2>1. lock = p
      BY <1>0, <1>3 DEF Mark, Locked
    <2>2. TypeOK'
      BY <1>3, NamesAreNoLibs DEF RInv, TypeOK, Places, Mark
    <2>3. Repair(p)'
      <3>1. cleared[p] => Source \subseteq disk /\ Libs \subseteq disk
        BY <1>3 DEF RInv, Repair, Mark
      <3>2. disk \subseteq Whole /\ disk' = disk \cup {"built"} /\ cleared' = cleared /\ pc'[p] = "leave"
        BY <1>3 DEF RInv, TypeOK, Mark
      <3>3. cleared[p] => disk' = Whole
        BY <3>1, <3>2, NamesAreNoLibs
      <3>4. QED
        BY <3>2, <3>3 DEF Repair, Locked
    <2>4. QED
      BY <1>3, <2>1, <2>2, <2>3, RepairStep DEF Mark, RInv, TypeOK
  <1>4. ASSUME NEW lib \in Libs, Emit(p, lib) PROVE RInv'
    <2>1. TypeOK'
      BY <1>4, NamesAreNoLibs DEF RInv, TypeOK, Emit
    <2>2. Repair(p)'
      <3>1. /\ todo'[p] = todo[p] \ {lib} /\ disk' = disk \cup {lib}
            /\ pc' = pc /\ cleared' = cleared
        BY <1>4 DEF RInv, TypeOK, Emit
      <3>2. Repair(p) /\ disk \subseteq Whole
        BY DEF RInv, TypeOK
      <3>3. QED
        BY <3>1, <3>2, NamesAreNoLibs DEF Repair
    <2>3. QED
      BY <1>4, <2>1, <2>2, RepairStep DEF Emit, RInv, TypeOK, Exclusive
  <1>5. QED
    BY <1>1, <1>2, <1>3, <1>4

LEMMA NextRInv == ASSUME RInv, [Next]_vars PROVE RInv'
  <1>1. CASE UNCHANGED vars
    BY <1>1 DEF vars, RInv, TypeOK, Exclusive, Repair
  <1>2. ASSUME NEW lib \in Libs, OrphanEmits(lib) PROVE RInv'
    <2>1. TypeOK' /\ Exclusive'
      BY <1>2, NamesAreNoLibs DEF RInv, TypeOK, Exclusive, OrphanEmits
    <2>2. ASSUME NEW q \in Proc PROVE Repair(q)'
      <3>1. Repair(q) /\ disk \subseteq Whole
        BY DEF RInv, TypeOK
      <3>2. QED
        BY <1>2, <3>1, NamesAreNoLibs DEF Repair, OrphanEmits
    <2>3. QED
      BY <2>1, <2>2 DEF RInv
  <1>3. ASSUME NEW p \in Proc, NEW force \in Forces, CommandLine(p, force) PROVE RInv'
    <2>1. force \in BOOLEAN
      BY ForcesAssumption
    <2>2. CASE force = TRUE
      BY <1>3, <2>2, QuietRepair
    <2>3. CASE force = FALSE
      BY <1>3, <2>3, QuietRepair DEF Unforced
    <2>4. QED
      BY <2>1, <2>2, <2>3
  <1>4. ASSUME NEW p \in Proc, Provision(p) \/ Lock(p) \/ Work(p) \/ Killed(p) PROVE RInv'
    BY <1>4, QuietRepair, TreeRepair DEF Work, Unforced
  <1>5. QED
    BY <1>1, <1>2, <1>3, <1>4 DEF Next, Step

(* An install whose last rmtree got rid of the source marker leaves a whole   *)
(* tree if it comes to its end: --force's removal and the sweep of _unpack,   *)
(* although both ignore errors, whatever was there before and although a      *)
(* cmake whose parent was killed may still write there.                       *)
THEOREM ClearedRepairs == Spec => []ClearedIsWhole
  <1>1. RInv /\ [Next]_vars => RInv'
    BY NextRInv
  <1>2. RInv => ClearedIsWhole
    BY DEF RInv, Repair, ClearedIsWhole, At
  <1>3. QED
    BY InitRInv, <1>1, <1>2, PTL DEF Spec
=============================================================================
