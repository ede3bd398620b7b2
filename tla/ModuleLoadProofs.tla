-------------------------- MODULE ModuleLoadProofs --------------------------
(***************************************************************************)
(* Proofs about ModuleLoad, for any number of processes and threads; and,  *)
(* last, about TunedLaunch, a launcher of the type that it loads for tuned *)
(* kernels, for any threads and chains.                                    *)
(***************************************************************************)
EXTENDS Integers, ModuleLoadProps, TunedLaunchProps, FiniteSetTheorems, SequenceTheorems, TLAPS

Files   == {"none", "half", "whole"}
Modules == [by : Thread \cup {Nobody}, file : Files,
            stub : Thread \cup {Nobody}, ready : BOOLEAN]

(* Where a thread holds the stub's lock, or the loader's; where it has seen *)
(* that no module of its key is loaded; where the stub is there, where its  *)
(* launcher has its type, and where it has a module.                        *)
InStub   == {"loadStub", "leaveStub"}
Building == {"flags", "compile", "stage", "write", "replace", "exec", "setUp"}
InLoad   == Building \cup {"get", "leaveLoad"}
HasModule == {"leaveLoad", "built"}
HasType  == InLoad \cup {"awaitLoad", "built"}
HasStub  == HasType \cup {"leaveStub", "type", "awaitTuned"}
Pcs      == HasStub \cup {"idle", "awaitStub", "loadStub"}

(* Types of the state. *)
TypeOK ==
    /\ so \in [Keys -> Files]
    /\ staged \in [Pids -> [Keys -> Files]]
    /\ cpp \in [Proc -> {"ok", "broken", "differs"}]
    /\ stub \in [Proc -> Thread \cup {Nobody}]
    /\ tuned \in [Proc -> Thread \cup {Nobody}]
    /\ modules \in [Proc -> [Keys -> Modules]]
    /\ stubLock \in [Proc -> Thread \cup {Nobody}]
    /\ loadLock \in [Proc -> Thread \cup {Nobody}]
    /\ pc \in [Thread -> Pcs]
    /\ key \in [Thread -> Keys]
    /\ type \in [Thread -> Thread \cup {Nobody}]
    /\ module \in [Thread -> Modules]

(* The locks exclude. *)
Locked ==
    \A t \in Thread : /\ pc[t] \in InStub => stubLock[Home[t]] = t
                      /\ pc[t] \in InLoad => loadLock[Home[t]] = t

(* The launcher type is made once, and the chains' type is over it. *)
StubKnown ==
    /\ \A p \in Proc : tuned[p] # Nobody => tuned[p] = stub[p]
    /\ \A t \in Thread : /\ pc[t] = "loadStub" => stub[Home[t]] = Nobody
                         /\ pc[t] \in HasStub => stub[Home[t]] # Nobody
                         /\ pc[t] \in HasType => type[t] = stub[Home[t]]

(* Whoever loads a module is the first to, and writes its own staged file. *)
FilesWhole ==
    /\ \A k \in Keys : so[k] # "half"
    /\ \A t \in Thread :
          /\ pc[t] = "replace" => staged[Pid[Home[t]]][key[t]] = "whole"
          /\ pc[t] = "exec" => so[key[t]] = "whole"
          /\ pc[t] = "setUp" => module[t].file = "whole"

(* What is in _LOADED is ready and of this process's launcher type. *)
Published ==
    \A p \in Proc, k \in Keys : modules[p][k] # NoModule =>
        /\ modules[p][k].file = "whole" /\ modules[p][k].ready
        /\ stub[p] # Nobody /\ modules[p][k].stub = stub[p]

(* Who builds is the first to; who is given a module, is given that of      *)
(* _LOADED; and no other has any.                                           *)
ModuleKnown(t) ==
    /\ pc[t] \in Building => modules[Home[t]][key[t]] = NoModule
    /\ pc[t] \in HasModule => module[t] = modules[Home[t]][key[t]] /\ module[t] # NoModule
    /\ pc[t] \notin HasModule \cup {"setUp"} => module[t] = NoModule

(* The other mode is chosen for a reason that stays. *)
KeyChosen ==
    \A t \in Thread : key[t] = "shim" => cpp[Home[t]] = "broken" /\ t \notin Explicit

IInv ==
    /\ TypeOK /\ Locked /\ StubKnown /\ FilesWhole /\ Published
    /\ \A t \in Thread : ModuleKnown(t)
    /\ KeyChosen

-----------------------------------------------------------------------------
USE HomeAssumption, ThreadAssumption, NobodyAssumption
    DEF InStub, Building, InLoad, HasModule, HasType, HasStub, Pcs, Keys, Pids, Files

(* What a step of thread t leaves alone: the other threads. *)
OnlyMoves(t) ==
    \A u \in Thread \ {t} :
        pc'[u] = pc[u] /\ key'[u] = key[u] /\ type'[u] = type[u] /\ module'[u] = module[u]

LEMMA NoModuleType == NoModule \in Modules
  BY DEF NoModule, Modules

(* A step that publishes nothing is only to be looked at in its own thread. *)
LEMMA ModulesStay ==
    ASSUME IInv, NEW t \in Thread, OnlyMoves(t), UNCHANGED modules,
           \A p \in Proc : stub'[p] # stub[p] => stub[p] = Nobody,
           ModuleKnown(t)'
    PROVE  Published' /\ \A u \in Thread : ModuleKnown(u)'
  <1>1. Published'
    BY DEF IInv, Published
  <1>2. ASSUME NEW u \in Thread \ {t} PROVE ModuleKnown(u)'
    BY <1>2 DEF IInv, ModuleKnown, OnlyMoves
  <1>3. QED
    BY <1>1, <1>2

(* A call that ends, wherever it was. *)
LEMMA EndIInv ==
    ASSUME IInv, NEW t \in Thread, End(t),
           UNCHANGED <<so, staged, cpp, stub, tuned, modules>>,
           \/ UNCHANGED <<stubLock, loadLock>>
           \/ Free(stubLock, t) /\ Free(loadLock, t)
    PROVE  IInv'
  <1> USE DEF End, Go, Free
  <1>1. TypeOK'
    <2>1. module' \in [Thread -> Modules]
      BY NoModuleType DEF IInv, TypeOK
    <2>2. /\ pc' \in [Thread -> Pcs] /\ key' \in [Thread -> Keys]
          /\ type' \in [Thread -> Thread \cup {Nobody}]
      BY DEF IInv, TypeOK
    <2>3. /\ stubLock' \in [Proc -> Thread \cup {Nobody}]
          /\ loadLock' \in [Proc -> Thread \cup {Nobody}]
      <3>1. CASE UNCHANGED <<stubLock, loadLock>>
        BY <3>1 DEF IInv, TypeOK
      <3>2. CASE Free(stubLock, t) /\ Free(loadLock, t)
        <4>1. stubLock' \in [Proc -> Thread \cup {Nobody}]
          BY <3>2 DEF IInv, TypeOK
        <4>2. loadLock' \in [Proc -> Thread \cup {Nobody}]
          BY <3>2 DEF IInv, TypeOK
        <4>3. QED
          BY <4>1, <4>2
      <3>3. QED
        BY <3>1, <3>2
    <2>4. QED
      BY <2>1, <2>2, <2>3 DEF IInv, TypeOK
  <1>2. Locked'
    BY DEF IInv, TypeOK, Locked
  <1>3. StubKnown' /\ KeyChosen'
    BY DEF IInv, TypeOK, StubKnown, KeyChosen
  <1>4. FilesWhole'
    BY DEF IInv, TypeOK, FilesWhole
  <1>5. OnlyMoves(t) /\ ModuleKnown(t)'
    BY DEF IInv, TypeOK, OnlyMoves, ModuleKnown
  <1>6. Published' /\ \A u \in Thread : ModuleKnown(u)'
    BY <1>5, ModulesStay
  <1>7. QED
    BY <1>1, <1>2, <1>3, <1>4, <1>6 DEF IInv

LEMMA StepIInv == ASSUME IInv, NEW t \in Thread, Step(t) PROVE IInv'
  <1> USE DEF At, Go, Free, Take, memory
  <1>0. ASSUME Raise(t) PROVE IInv'
    BY <1>0, EndIInv DEF Raise
  <1>1. ASSUME Make(t) PROVE IInv'
    <2>1. TypeOK'
      BY <1>1 DEF Make, IInv, TypeOK
    <2>2. Locked' /\ KeyChosen'
      BY <1>1 DEF Make, IInv, TypeOK, Locked, KeyChosen
    <2>3. StubKnown'
      BY <1>1 DEF Make, IInv, TypeOK, Locked, StubKnown
    <2>4. FilesWhole'
      BY <1>1, PidAssumption DEF Make, IInv, TypeOK, Locked, FilesWhole
    <2>5. OnlyMoves(t) /\ ModuleKnown(t)' /\ UNCHANGED modules
      BY <1>1 DEF Make, IInv, TypeOK, OnlyMoves, ModuleKnown
    <2>6. \A p \in Proc : stub'[p] # stub[p] => stub[p] = Nobody
      BY <1>1 DEF Make, IInv, TypeOK, StubKnown
    <2>7. QED
      BY <2>1, <2>2, <2>3, <2>4, <2>5, <2>6, ModulesStay DEF IInv
  <1>2. ASSUME LockStub(t) PROVE IInv'
    <2>1. TypeOK'
      BY <1>2 DEF LockStub, IInv, TypeOK
    <2>2. Locked' /\ KeyChosen'
      BY <1>2 DEF LockStub, IInv, TypeOK, Locked, KeyChosen
    <2>3. StubKnown'
      BY <1>2 DEF LockStub, IInv, TypeOK, Locked, StubKnown
    <2>4. FilesWhole'
      BY <1>2, PidAssumption DEF LockStub, IInv, TypeOK, Locked, FilesWhole
    <2>5. OnlyMoves(t) /\ ModuleKnown(t)' /\ UNCHANGED modules
      BY <1>2 DEF LockStub, IInv, TypeOK, OnlyMoves, ModuleKnown
    <2>6. \A p \in Proc : stub'[p] # stub[p] => stub[p] = Nobody
      BY <1>2 DEF LockStub, IInv, TypeOK, StubKnown
    <2>7. QED
      BY <2>1, <2>2, <2>3, <2>4, <2>5, <2>6, ModulesStay DEF IInv
  <1>3. ASSUME LoadStub(t), ~Raise(t) PROVE IInv'
    <2>1. TypeOK'
      <3>1. stub' \in [Proc -> Thread \cup {Nobody}]
        BY <1>3 DEF LoadStub, IInv, TypeOK
      <3>2. pc' \in [Thread -> Pcs]
        BY <1>3 DEF LoadStub, IInv, TypeOK
      <3>3. QED
        BY <1>3, <3>1, <3>2 DEF LoadStub, IInv, TypeOK
    <2>2. Locked' /\ KeyChosen'
      BY <1>3 DEF LoadStub, IInv, TypeOK, Locked, KeyChosen
    <2>3. StubKnown'
      BY <1>3 DEF LoadStub, IInv, TypeOK, Locked, StubKnown
    <2>4. FilesWhole'
      BY <1>3, PidAssumption DEF LoadStub, IInv, TypeOK, Locked, FilesWhole
    <2>5. OnlyMoves(t) /\ ModuleKnown(t)' /\ UNCHANGED modules
      BY <1>3 DEF LoadStub, IInv, TypeOK, OnlyMoves, ModuleKnown
    <2>6. \A p \in Proc : stub'[p] # stub[p] => stub[p] = Nobody
      BY <1>3 DEF LoadStub, IInv, TypeOK, StubKnown
    <2>7. QED
      BY <2>1, <2>2, <2>3, <2>4, <2>5, <2>6, ModulesStay DEF IInv
  <1>4. ASSUME LeaveStub(t) PROVE IInv'
    <2>1. TypeOK'
      BY <1>4 DEF LeaveStub, IInv, TypeOK
    <2>2. Locked' /\ KeyChosen'
      BY <1>4 DEF LeaveStub, IInv, TypeOK, Locked, KeyChosen
    <2>3. StubKnown'
      BY <1>4 DEF LeaveStub, IInv, TypeOK, Locked, StubKnown
    <2>4. FilesWhole'
      BY <1>4, PidAssumption DEF LeaveStub, IInv, TypeOK, Locked, FilesWhole
    <2>5. OnlyMoves(t) /\ ModuleKnown(t)' /\ UNCHANGED modules
      BY <1>4 DEF LeaveStub, IInv, TypeOK, OnlyMoves, ModuleKnown
    <2>6. \A p \in Proc : stub'[p] # stub[p] => stub[p] = Nobody
      BY <1>4 DEF LeaveStub, IInv, TypeOK, StubKnown
    <2>7. QED
      BY <2>1, <2>2, <2>3, <2>4, <2>5, <2>6, ModulesStay DEF IInv
  <1>5. ASSUME ReadType(t) PROVE IInv'
    <2>1. TypeOK'
      BY <1>5 DEF ReadType, IInv, TypeOK
    <2>2. Locked' /\ KeyChosen'
      BY <1>5 DEF ReadType, IInv, TypeOK, Locked, KeyChosen
    <2>3. StubKnown'
      BY <1>5 DEF ReadType, IInv, TypeOK, Locked, StubKnown
    <2>4. FilesWhole'
      BY <1>5, PidAssumption DEF ReadType, IInv, TypeOK, Locked, FilesWhole
    <2>5. OnlyMoves(t) /\ ModuleKnown(t)' /\ UNCHANGED modules
      BY <1>5 DEF ReadType, IInv, TypeOK, OnlyMoves, ModuleKnown
    <2>6. \A p \in Proc : stub'[p] # stub[p] => stub[p] = Nobody
      BY <1>5 DEF ReadType, IInv, TypeOK, StubKnown
    <2>7. QED
      BY <2>1, <2>2, <2>3, <2>4, <2>5, <2>6, ModulesStay DEF IInv
  <1>6. ASSUME LockTuned(t) PROVE IInv'
    <2>1. TypeOK'
      BY <1>6 DEF LockTuned, IInv, TypeOK
    <2>2. Locked' /\ KeyChosen'
      BY <1>6 DEF LockTuned, IInv, TypeOK, Locked, KeyChosen
    <2>3. StubKnown'
      BY <1>6 DEF LockTuned, IInv, TypeOK, Locked, StubKnown
    <2>4. FilesWhole'
      BY <1>6, PidAssumption DEF LockTuned, IInv, TypeOK, Locked, FilesWhole
    <2>5. OnlyMoves(t) /\ ModuleKnown(t)' /\ UNCHANGED modules
      BY <1>6 DEF LockTuned, IInv, TypeOK, OnlyMoves, ModuleKnown
    <2>6. \A p \in Proc : stub'[p] # stub[p] => stub[p] = Nobody
      BY <1>6 DEF LockTuned, IInv, TypeOK, StubKnown
    <2>7. QED
      BY <2>1, <2>2, <2>3, <2>4, <2>5, <2>6, ModulesStay DEF IInv
  <1>7. ASSUME LockLoad(t) PROVE IInv'
    <2>1. TypeOK'
      BY <1>7 DEF LockLoad, IInv, TypeOK
    <2>2. Locked' /\ KeyChosen'
      BY <1>7 DEF LockLoad, IInv, TypeOK, Locked, KeyChosen
    <2>3. StubKnown'
      BY <1>7 DEF LockLoad, IInv, TypeOK, Locked, StubKnown
    <2>4. FilesWhole'
      BY <1>7, PidAssumption DEF LockLoad, IInv, TypeOK, Locked, FilesWhole
    <2>5. OnlyMoves(t) /\ ModuleKnown(t)' /\ UNCHANGED modules
      BY <1>7 DEF LockLoad, IInv, TypeOK, OnlyMoves, ModuleKnown
    <2>6. \A p \in Proc : stub'[p] # stub[p] => stub[p] = Nobody
      BY <1>7 DEF LockLoad, IInv, TypeOK, StubKnown
    <2>7. QED
      BY <2>1, <2>2, <2>3, <2>4, <2>5, <2>6, ModulesStay DEF IInv
  <1>8. ASSUME Get(t) PROVE IInv'
    <2>1. TypeOK'
      <3>1. modules[Home[t]][key[t]] \in Modules
        BY DEF IInv, TypeOK
      <3>2. module' \in [Thread -> Modules] /\ pc' \in [Thread -> Pcs]
        BY <1>8, <3>1 DEF Get, IInv, TypeOK
      <3>3. QED
        BY <1>8, <3>2 DEF Get, IInv, TypeOK
    <2>2. Locked' /\ KeyChosen'
      BY <1>8 DEF Get, IInv, TypeOK, Locked, KeyChosen
    <2>3. StubKnown'
      BY <1>8 DEF Get, IInv, TypeOK, Locked, StubKnown
    <2>4. FilesWhole'
      BY <1>8, PidAssumption DEF Get, IInv, TypeOK, Locked, FilesWhole
    <2>5. OnlyMoves(t) /\ ModuleKnown(t)' /\ UNCHANGED modules
      BY <1>8 DEF Get, IInv, TypeOK, OnlyMoves, ModuleKnown
    <2>6. \A p \in Proc : stub'[p] # stub[p] => stub[p] = Nobody
      BY <1>8 DEF Get, IInv, TypeOK, StubKnown
    <2>7. QED
      BY <2>1, <2>2, <2>3, <2>4, <2>5, <2>6, ModulesStay DEF IInv
  <1>9. ASSUME Flags(t), ~Raise(t) PROVE IInv'
    <2>1. TypeOK'
      BY <1>9 DEF Flags, IInv, TypeOK
    <2>2. Locked' /\ KeyChosen'
      BY <1>9 DEF Flags, IInv, TypeOK, Locked, KeyChosen
    <2>3. StubKnown'
      BY <1>9 DEF Flags, IInv, TypeOK, Locked, StubKnown
    <2>4. FilesWhole'
      BY <1>9, PidAssumption DEF Flags, IInv, TypeOK, Locked, FilesWhole
    <2>5. OnlyMoves(t) /\ ModuleKnown(t)' /\ UNCHANGED modules
      BY <1>9 DEF Flags, IInv, TypeOK, OnlyMoves, ModuleKnown
    <2>6. \A p \in Proc : stub'[p] # stub[p] => stub[p] = Nobody
      BY <1>9 DEF Flags, IInv, TypeOK, StubKnown
    <2>7. QED
      BY <2>1, <2>2, <2>3, <2>4, <2>5, <2>6, ModulesStay DEF IInv
  <1>10. ASSUME Compile(t), ~Raise(t) PROVE IInv'
    <2>1. TypeOK'
      BY <1>10 DEF Compile, IInv, TypeOK
    <2>2. Locked' /\ KeyChosen'
      BY <1>10 DEF Compile, IInv, TypeOK, Locked, KeyChosen
    <2>3. StubKnown'
      BY <1>10 DEF Compile, IInv, TypeOK, Locked, StubKnown
    <2>4. FilesWhole'
      BY <1>10, PidAssumption DEF Compile, IInv, TypeOK, Locked, FilesWhole
    <2>5. OnlyMoves(t) /\ ModuleKnown(t)' /\ UNCHANGED modules
      BY <1>10 DEF Compile, IInv, TypeOK, OnlyMoves, ModuleKnown
    <2>6. \A p \in Proc : stub'[p] # stub[p] => stub[p] = Nobody
      BY <1>10 DEF Compile, IInv, TypeOK, StubKnown
    <2>7. QED
      BY <2>1, <2>2, <2>3, <2>4, <2>5, <2>6, ModulesStay DEF IInv
  <1>11. ASSUME Stage(t) PROVE IInv'
    <2>1. TypeOK'
      BY <1>11 DEF Stage, IInv, TypeOK
    <2>2. Locked' /\ KeyChosen'
      BY <1>11 DEF Stage, IInv, TypeOK, Locked, KeyChosen
    <2>3. StubKnown'
      BY <1>11 DEF Stage, IInv, TypeOK, Locked, StubKnown
    <2>4. FilesWhole'
      BY <1>11, PidAssumption DEF Stage, IInv, TypeOK, Locked, FilesWhole
    <2>5. OnlyMoves(t) /\ ModuleKnown(t)' /\ UNCHANGED modules
      BY <1>11 DEF Stage, IInv, TypeOK, OnlyMoves, ModuleKnown
    <2>6. \A p \in Proc : stub'[p] # stub[p] => stub[p] = Nobody
      BY <1>11 DEF Stage, IInv, TypeOK, StubKnown
    <2>7. QED
      BY <2>1, <2>2, <2>3, <2>4, <2>5, <2>6, ModulesStay DEF IInv
  <1>12. ASSUME Write(t), ~Raise(t) PROVE IInv'
    <2>1. TypeOK'
      <3>1. /\ staged' = [staged EXCEPT ![Pid[Home[t]]][key[t]] = "whole"]
            /\ pc' = [pc EXCEPT ![t] = "replace"]
            /\ UNCHANGED <<so, cpp, memory, key, type, module>>
        BY <1>12 DEF Write
      <3>2. QED
        BY <3>1 DEF IInv, TypeOK
    <2>2. Locked' /\ KeyChosen'
      BY <1>12 DEF Write, IInv, TypeOK, Locked, KeyChosen
    <2>3. StubKnown'
      BY <1>12 DEF Write, IInv, TypeOK, Locked, StubKnown
    <2>4. FilesWhole'
      BY <1>12, PidAssumption DEF Write, IInv, TypeOK, Locked, FilesWhole
    <2>5. OnlyMoves(t) /\ ModuleKnown(t)' /\ UNCHANGED modules
      BY <1>12 DEF Write, IInv, TypeOK, OnlyMoves, ModuleKnown
    <2>6. \A p \in Proc : stub'[p] # stub[p] => stub[p] = Nobody
      BY <1>12 DEF Write, IInv, TypeOK, StubKnown
    <2>7. QED
      BY <2>1, <2>2, <2>3, <2>4, <2>5, <2>6, ModulesStay DEF IInv
  <1>13. ASSUME Replace(t) PROVE IInv'
    <2>1. TypeOK'
      BY <1>13 DEF Replace, IInv, TypeOK
    <2>2. Locked' /\ KeyChosen'
      BY <1>13 DEF Replace, IInv, TypeOK, Locked, KeyChosen
    <2>3. StubKnown'
      BY <1>13 DEF Replace, IInv, TypeOK, Locked, StubKnown
    <2>4. FilesWhole'
      BY <1>13, PidAssumption DEF Replace, IInv, TypeOK, Locked, FilesWhole
    <2>5. OnlyMoves(t) /\ ModuleKnown(t)' /\ UNCHANGED modules
      BY <1>13 DEF Replace, IInv, TypeOK, OnlyMoves, ModuleKnown
    <2>6. \A p \in Proc : stub'[p] # stub[p] => stub[p] = Nobody
      BY <1>13 DEF Replace, IInv, TypeOK, StubKnown
    <2>7. QED
      BY <2>1, <2>2, <2>3, <2>4, <2>5, <2>6, ModulesStay DEF IInv
  <1>14. ASSUME Exec(t) PROVE IInv'
    <2>1. TypeOK'
      <3>1. [NoModule EXCEPT !.by = t, !.file = so[key[t]]] \in Modules
        BY NoModuleType DEF IInv, TypeOK, Modules
      <3>2. module' \in [Thread -> Modules] /\ pc' \in [Thread -> Pcs]
        BY <1>14, <3>1 DEF Exec, IInv, TypeOK
      <3>3. QED
        BY <1>14, <3>2 DEF Exec, IInv, TypeOK
    <2>2. Locked' /\ KeyChosen'
      BY <1>14 DEF Exec, IInv, TypeOK, Locked, KeyChosen
    <2>3. StubKnown'
      BY <1>14 DEF Exec, IInv, TypeOK, Locked, StubKnown
    <2>4. FilesWhole'
      BY <1>14, PidAssumption DEF Exec, IInv, TypeOK, Locked, FilesWhole
    <2>5. OnlyMoves(t) /\ ModuleKnown(t)' /\ UNCHANGED modules
      BY <1>14 DEF Exec, IInv, TypeOK, OnlyMoves, ModuleKnown
    <2>6. \A p \in Proc : stub'[p] # stub[p] => stub[p] = Nobody
      BY <1>14 DEF Exec, IInv, TypeOK, StubKnown
    <2>7. QED
      BY <2>1, <2>2, <2>3, <2>4, <2>5, <2>6, ModulesStay DEF IInv
  <1>15. ASSUME SetUp(t), ~Raise(t) PROVE IInv'
    <2> DEFINE ready == [module[t] EXCEPT !.stub = stub[Home[t]], !.ready = TRUE]
    <2>0. module[t] \in Modules /\ stub[Home[t]] \in Thread \cup {Nobody}
      BY DEF IInv, TypeOK
    <2>1. /\ ready \in Modules /\ ready # NoModule
          /\ ready.file = "whole" /\ ready.ready /\ ready.stub = stub[Home[t]]
          /\ stub[Home[t]] # Nobody
      BY <1>15, <2>0 DEF SetUp, IInv, StubKnown, FilesWhole, Modules, NoModule
    <2>2. /\ modules' = [modules EXCEPT ![Home[t]][key[t]] = ready]
          /\ module' = [module EXCEPT ![t] = ready]
          /\ pc[t] = "setUp" /\ pc' = [pc EXCEPT ![t] = "leaveLoad"]
          /\ UNCHANGED <<so, staged, cpp, stub, tuned, stubLock, loadLock, key, type>>
      BY <1>15 DEF SetUp
    <2> HIDE DEF ready
    <2>3. TypeOK'
      BY <2>1, <2>2 DEF IInv, TypeOK
    <2>4. Locked' /\ StubKnown' /\ KeyChosen'
      BY <2>2 DEF IInv, TypeOK, Locked, StubKnown, KeyChosen
    <2>5. FilesWhole'
      BY <2>2 DEF IInv, TypeOK, FilesWhole
    <2>6. Published'
      BY <2>1, <2>2 DEF IInv, TypeOK, Published
    <2>7. ModuleKnown(t)'
      BY <2>1, <2>2 DEF IInv, TypeOK, ModuleKnown
    <2>8. ASSUME NEW u \in Thread \ {t} PROVE ModuleKnown(u)'
      <3>1. pc'[u] = pc[u] /\ key'[u] = key[u] /\ module'[u] = module[u]
        BY <2>2 DEF IInv, TypeOK
      <3>2. CASE Home[u] # Home[t] \/ key[u] # key[t]
        BY <2>2, <3>1, <3>2 DEF IInv, TypeOK, ModuleKnown
      <3>3. CASE Home[u] = Home[t] /\ key[u] = key[t]
        BY <2>2, <3>1, <3>3 DEF IInv, TypeOK, Locked, ModuleKnown
      <3>4. QED
        BY <3>2, <3>3
    <2>9. QED
      BY <2>3, <2>4, <2>5, <2>6, <2>7, <2>8 DEF IInv
  <1>16. ASSUME LeaveLoad(t) PROVE IInv'
    <2>1. TypeOK'
      BY <1>16 DEF LeaveLoad, IInv, TypeOK
    <2>2. Locked' /\ KeyChosen'
      BY <1>16 DEF LeaveLoad, IInv, TypeOK, Locked, KeyChosen
    <2>3. StubKnown'
      BY <1>16 DEF LeaveLoad, IInv, TypeOK, Locked, StubKnown
    <2>4. FilesWhole'
      BY <1>16, PidAssumption DEF LeaveLoad, IInv, TypeOK, Locked, FilesWhole
    <2>5. OnlyMoves(t) /\ ModuleKnown(t)' /\ UNCHANGED modules
      BY <1>16 DEF LeaveLoad, IInv, TypeOK, OnlyMoves, ModuleKnown
    <2>6. \A p \in Proc : stub'[p] # stub[p] => stub[p] = Nobody
      BY <1>16 DEF LeaveLoad, IInv, TypeOK, StubKnown
    <2>7. QED
      BY <2>1, <2>2, <2>3, <2>4, <2>5, <2>6, ModulesStay DEF IInv
  <1>17. ASSUME Drop(t) PROVE IInv'
    BY <1>17, EndIInv DEF Drop
  <1>18. QED
    BY <1>0, <1>1, <1>2, <1>3, <1>4, <1>5, <1>6, <1>7, <1>8, <1>9, <1>10, <1>11, <1>12, <1>13, <1>14, <1>15, <1>16, <1>17 DEF Step

LEMMA InitIInv == Init => IInv
  BY NoModuleType DEF Init, IInv, TypeOK, Locked, StubKnown, FilesWhole, Published, ModuleKnown,
     KeyChosen

(* A killed process takes its threads and its memory with it, and the files *)
(* of the others stay as they were.                                         *)
LEMMA KillIInv == ASSUME IInv, NEW p \in Proc, Kill(p) PROVE IInv'
  <1>1. TypeOK'
    BY NoModuleType DEF Kill, IInv, TypeOK
  <1>2. Locked'
    BY DEF Kill, IInv, TypeOK, Locked
  <1>3. StubKnown' /\ KeyChosen'
    BY DEF Kill, IInv, TypeOK, StubKnown, KeyChosen
  <1>4. FilesWhole'
    BY DEF Kill, IInv, TypeOK, FilesWhole
  <1>5. Published'
    BY DEF Kill, IInv, TypeOK, Published
  <1>6. ASSUME NEW t \in Thread PROVE ModuleKnown(t)'
    BY DEF Kill, IInv, TypeOK, ModuleKnown
  <1>7. QED
    BY <1>1, <1>2, <1>3, <1>4, <1>5, <1>6 DEF IInv

(* The invariant holds in every state. *)
THEOREM LoadInvariance == Spec => []IInv
  <1>1. IInv /\ [Next]_vars => IInv'
    <2> SUFFICES ASSUME IInv, [Next]_vars PROVE IInv'
      OBVIOUS
    <2>1. CASE \E t \in Thread : Step(t)
      BY <2>1, StepIInv
    <2>2. CASE \E p \in Proc : Kill(p)
      BY <2>2, KillIInv
    <2>3. CASE UNCHANGED vars
      BY <2>3 DEF vars, memory, IInv, TypeOK, Locked, StubKnown, FilesWhole, Published, ModuleKnown,
         KeyChosen
    <2>4. QED
      BY <2>1, <2>2, <2>3 DEF Next
  <1>2. QED
    BY InitIInv, <1>1, PTL DEF Spec

(* No module is loaded from a half-written file, whoever builds it and      *)
(* whoever is killed at it (_install of render/build.py).                   *)
THEOREM OnlyWholeFilesLoad == Spec => []LoadedIsWhole
  <1>1. IInv => LoadedIsWhole
    BY DEF IInv, TypeOK, LoadedIsWhole, FilesWhole, Published, ModuleKnown
  <1>2. QED
    BY <1>1, LoadInvariance, PTL

(* What _LOADED holds is set up (load_module of render/module.py).          *)
THEOREM OnlyReadyIsPublished == Spec => []PublishedIsReady
  <1>1. IInv => PublishedIsReady
    BY DEF IInv, PublishedIsReady, Published
  <1>2. QED
    BY <1>1, LoadInvariance, PTL

(* A process has one launcher type and one module for a key, however many   *)
(* of its threads make launchers at once (launcher.py, render/module.py).   *)
THEOREM OneTypeOneModule == Spec => []OneOfEach
  <1>1. IInv => OneOfEach
    BY DEF IInv, TypeOK, OneOfEach, At, StubKnown, Published, ModuleKnown
  <1>2. QED
    BY <1>1, LoadInvariance, PTL

(* Another access mode only where STATIC_COMPILE cannot be built, and never *)
(* for who asked for it (build_flags of render/build.py).                   *)
THEOREM ModeIsTheAskedOne == Spec => []ModeAsAsked
  <1>1. IInv => ModeAsAsked
    BY DEF IInv, ModeAsAsked, KeyChosen
  <1>2. QED
    BY <1>1, LoadInvariance, PTL

-----------------------------------------------------------------------------
(* The launcher of a chain of tuners and heuristics that the loaded module *)
(* makes, TunedLaunch: its runs.                                           *)

(* A stack of calls.                                                       *)
IsStack(s) == s \in Seq({s[i] : i \in DOMAIN s})
IsCall(f) ==
  f = [at |-> f.at, args |-> f.args, env |-> f.env, path |-> f.path, config |-> f.config, out |-> f.out]

CallsTyped ==
  /\ kernel.depth \in Nat
  /\ stack = [t \in Threads |-> stack[t]]
  /\ \A t \in Threads : /\ IsStack(stack[t]) /\ Len(stack[t]) \in 0 .. kernel.depth
                        /\ \A i \in 1 .. Len(stack[t]) : IsCall(stack[t][i])

(* The one run, if any, is that of the thread that has the lock and of the *)
(* call whose ranges and knobs are set.                                    *)
In(t, i) == i \in 1 .. Len(stack[t]) /\ stack[t][i].at \in InRun
OneRun ==
  /\ running <=> \E t \in Threads : \E i \in 1 .. Len(stack[t]) : In(t, i)
  /\ \A t, u \in Threads : \A i \in 1 .. Len(stack[t]), j \in 1 .. Len(stack[u]) :
        In(t, i) /\ In(u, j) => t = u /\ i = j
  /\ \A t \in Threads : \A i \in 1 .. Len(stack[t]) :
        In(t, i) => owner = t /\ mine = stack[t][i].args

RunInv == CallsTyped /\ OneRun

(* A stack without its last call, and with one more.                       *)
LEMMA Popped ==
  ASSUME NEW s, IsStack(s), s # <<>>
  PROVE  /\ IsStack(Front(s)) /\ Len(s) \in Nat \ {0}
         /\ Len(Front(s)) = Len(s) - 1
         /\ \A i \in 1 .. Len(s) - 1 : Front(s)[i] = s[i]
<1> DEFINE S == {s[i] : i \in DOMAIN s}
           u == Front(s)
<1>1. s \in Seq(S)
  BY DEF IsStack
<1> HIDE DEF S
<1>2. Len(s) \in Nat \ {0} /\ \A i \in 1 .. Len(s) : s[i] \in S
  BY <1>1, EmptySeq, ElementOfSeq
<1>3. u = SubSeq(s, 1, Len(s) - 1)
  BY DEF Front
<1> HIDE DEF u
<1>4. u \in Seq(S) /\ Len(u) = Len(s) - 1 /\ \A i \in 1 .. Len(s) - 1 : u[i] = s[i]
  <2> DEFINE n == Len(s)
             w == SubSeq(s, 1, n - 1)
  <2>1. n \in Nat \ {0}
    BY <1>2
  <2>2. n - 1 \in Nat /\ n = Len(s)
    BY <2>1
  <2> HIDE DEF n
  <2>3. w \in Seq(S) /\ Len(w) = n - 1 /\ \A i \in 1 .. n - 1 : w[i] = s[i]
    BY <1>1, <2>1, <2>2
  <2> QED BY <1>3, <2>2, <2>3
<1>5. u \in Seq(Range(u))
  BY <1>4, SeqOfRange
<1>6. IsStack(u)
  BY <1>5 DEF IsStack, Range
<1> QED BY <1>2, <1>4, <1>6 DEF u

(* Call: a stack with one more call has the others where they were.       *)
LEMMA Pushed ==
  ASSUME NEW s, IsStack(s), NEW f, NEW u, u = Append(s, f)
  PROVE  /\ IsStack(u) /\ Len(s) \in Nat /\ Len(u) = Len(s) + 1 /\ u = s \o <<f>>
         /\ \A i \in 1 .. Len(s) : u[i] = s[i]
         /\ u[Len(s) + 1] = f
<1> DEFINE S == {s[i] : i \in DOMAIN s} \union {f}
<1>1. s \in Seq(S)
  BY SeqMonotonic DEF IsStack
<1> HIDE DEF S
<1>2. f \in S
  BY DEF S
<1>3. /\ u \in Seq(S) /\ Len(s) \in Nat /\ Len(u) = Len(s) + 1
      /\ \A i \in 1 .. Len(s) : u[i] = s[i]
      /\ u[Len(s) + 1] = f
  BY <1>1, <1>2, AppendProperties, LenProperties
<1>4. u = s \o <<f>>
  BY <1>1, <1>2, AppendIsConcat
<1>5. u \in Seq(Range(u))
  BY <1>3, SeqOfRange
<1>6. IsStack(u)
  BY <1>5 DEF IsStack, Range
<1> QED BY <1>3, <1>4, <1>6

(* What a step makes of the stacks.                                        *)
OtherStacks(t) ==
  /\ stack' = [u \in Threads |-> stack'[u]]
  /\ \A u \in Threads \ {t} : stack'[u] = stack[u]
  /\ IsStack(stack'[t])
  /\ \A i \in 1 .. Len(stack[t]) : i \in 1 .. Len(stack'[t]) /\ i # Len(stack[t]) => stack'[t][i] = stack[t][i]

(* Pop: the innermost call returns, and no other call changes.             *)
LEMMA PopIs ==
  ASSUME CallsTyped, NEW t \in Threads, stack[t] # <<>>, Pop(t)
  PROVE  OtherStacks(t) /\ Len(stack'[t]) = Len(stack[t]) - 1 /\ Len(stack[t]) \in Nat \ {0}
<1>1. IsStack(stack[t]) /\ stack = [u \in Threads |-> stack[u]]
  BY DEF CallsTyped
<1>2. stack' = [stack EXCEPT ![t] = Front(stack[t])]
  BY DEF Pop
<1>3. stack'[t] = Front(stack[t]) /\ \A u \in Threads \ {t} : stack'[u] = stack[u]
  BY <1>1, <1>2
<1>4. stack' = [u \in Threads |-> stack'[u]]
  BY <1>1, <1>2
<1>5. /\ IsStack(stack'[t]) /\ Len(stack[t]) \in Nat \ {0} /\ Len(stack'[t]) = Len(stack[t]) - 1
      /\ \A i \in 1 .. Len(stack[t]) - 1 : stack'[t][i] = stack[t][i]
  BY <1>1, <1>3, Popped
<1> QED BY <1>3, <1>4, <1>5 DEF OtherStacks

(* Becomes: a step of the innermost call changes no other call.            *)
LEMMA BecomesIs ==
  ASSUME CallsTyped, NEW t \in Threads, stack[t] # <<>>, NEW f, Becomes(t, f)
  PROVE  /\ OtherStacks(t) /\ Len(stack'[t]) = Len(stack[t]) /\ Len(stack[t]) \in Nat \ {0}
         /\ stack'[t][Len(stack[t])] = f
<1> DEFINE n == Len(stack[t])
           u == Front(stack[t])
<1>1. IsStack(stack[t]) /\ stack = [v \in Threads |-> stack[v]]
  BY DEF CallsTyped
<1>2. stack' = [stack EXCEPT ![t] = u \o <<f>>]
  BY DEF Becomes
<1>3. /\ IsStack(u) /\ n \in Nat \ {0} /\ Len(u) = n - 1
      /\ \A i \in 1 .. n - 1 : u[i] = stack[t][i]
  BY <1>1, Popped
<1> HIDE DEF u
<1>4. stack'[t] = u \o <<f>> /\ \A v \in Threads \ {t} : stack'[v] = stack[v]
  BY <1>1, <1>2
<1>5. stack' = [v \in Threads |-> stack'[v]]
  BY <1>1, <1>2
<1>6. u \o <<f>> = Append(u, f)
  BY <1>3, Pushed
<1>7. /\ IsStack(stack'[t]) /\ Len(stack'[t]) = n /\ stack'[t][n] = f
      /\ \A i \in 1 .. n - 1 : stack'[t][i] = stack[t][i]
  <2> DEFINE w == stack'[t]
  <2>1. w = Append(u, f) /\ IsStack(u)
    BY <1>3, <1>4, <1>6
  <2> HIDE DEF w
  <2>2. IsStack(w) /\ Len(w) = Len(u) + 1
    BY <2>1, Pushed
  <2>3. w[Len(u) + 1] = f
    BY <2>1, Pushed
  <2>4. \A i \in 1 .. Len(u) : w[i] = u[i]
    BY <2>1, Pushed
  <2>5. Len(u) + 1 = n /\ \A i \in 1 .. n - 1 : i \in 1 .. Len(u)
    BY <1>3
  <2>6. IsStack(w) /\ Len(w) = n /\ w[n] = f /\ \A i \in 1 .. n - 1 : w[i] = stack[t][i]
    BY <1>3, <2>2, <2>3, <2>4, <2>5
  <2> QED BY <2>6 DEF w
<1> QED BY <1>3, <1>4, <1>5, <1>7 DEF OtherStacks, n

(* Call: a call starts inside the others of its thread, which do not       *)
(* change.                                                                 *)
LEMMA CallIs ==
  ASSUME CallsTyped, NEW t \in Threads, NEW args, Call(t, args)
  PROVE  /\ OtherStacks(t) /\ Len(stack'[t]) = Len(stack[t]) + 1 /\ Len(stack[t]) \in Nat
         /\ Len(stack[t]) < kernel.depth
         /\ \A i \in 1 .. Len(stack[t]) : stack'[t][i] = stack[t][i]
         /\ stack'[t][Len(stack[t]) + 1] = Frame(args)
<1> DEFINE f == Frame(args)
<1>1. IsStack(stack[t]) /\ stack = [u \in Threads |-> stack[u]]
  BY DEF CallsTyped
<1>2. stack' = [stack EXCEPT ![t] = Append(stack[t], f)] /\ Len(stack[t]) < kernel.depth
  BY DEF Call
<1> HIDE DEF f
<1>3. stack'[t] = Append(stack[t], f) /\ \A u \in Threads \ {t} : stack'[u] = stack[u]
  BY <1>1, <1>2
<1>4. stack' = [u \in Threads |-> stack'[u]]
  BY <1>1, <1>2
<1>5. /\ IsStack(stack'[t]) /\ Len(stack[t]) \in Nat /\ Len(stack'[t]) = Len(stack[t]) + 1
      /\ \A i \in 1 .. Len(stack[t]) : stack'[t][i] = stack[t][i]
      /\ stack'[t][Len(stack[t]) + 1] = f
  <2> DEFINE w == stack'[t]
             s == stack[t]
  <2>1. w = Append(s, f) /\ IsStack(s)
    BY <1>1, <1>3
  <2> HIDE DEF w, s
  <2>2. IsStack(w) /\ Len(s) \in Nat /\ Len(w) = Len(s) + 1
    BY <2>1, Pushed
  <2>3. w[Len(s) + 1] = f
    BY <2>1, Pushed
  <2>4. \A i \in 1 .. Len(s) : w[i] = s[i]
    BY <2>1, Pushed
  <2> QED BY <2>2, <2>3, <2>4 DEF w, s
<1> QED BY <1>2, <1>3, <1>4, <1>5 DEF OtherStacks, f

(* What a step makes of the calls, and of those in a run.                  *)
StackMoves(t, f) ==
  LET n == Len(stack[t]) IN
  /\ CallsTyped' /\ n \in 1 .. Len(stack[t]) /\ n \in 1 .. Len(stack'[t]) /\ stack'[t][n] = f
  /\ \A u \in Threads : \A i :
       /\ In(u, i)' <=> IF u = t /\ i = n THEN f.at \in InRun ELSE In(u, i)
       /\ (u # t \/ i # n) /\ In(u, i) => stack'[u][i] = stack[u][i]
Leaves(t) ==
  /\ CallsTyped'
  /\ \A u \in Threads : \A i :
       /\ In(u, i)' <=> In(u, i) /\ (u # t \/ i # Len(stack[t]))
       /\ In(u, i)' => stack'[u][i] = stack[u][i]
Enters ==
  /\ CallsTyped'
  /\ \A u \in Threads : \A i :
       /\ In(u, i)' <=> In(u, i)
       /\ In(u, i) => stack'[u][i] = stack[u][i]

(* Stacks stay typed.                                                      *)
LEMMA StaysTyped ==
  ASSUME CallsTyped, NEW t \in Threads, OtherStacks(t), kernel' = kernel, Len(stack'[t]) \in 0 .. kernel.depth,
         \A i \in 1 .. Len(stack'[t]) :
           (i \in 1 .. Len(stack[t]) /\ stack'[t][i] = stack[t][i]) \/ IsCall(stack'[t][i])
  PROVE  CallsTyped'
<1>1. \A u \in Threads : /\ IsStack(stack'[u]) /\ Len(stack'[u]) \in 0 .. kernel'.depth
                         /\ \A i \in 1 .. Len(stack'[u]) : IsCall(stack'[u][i])
  <2> SUFFICES ASSUME NEW u \in Threads
               PROVE  /\ IsStack(stack'[u]) /\ Len(stack'[u]) \in 0 .. kernel'.depth
                      /\ \A i \in 1 .. Len(stack'[u]) : IsCall(stack'[u][i])
    OBVIOUS
  <2>1. CASE u = t
    <3>1. IsStack(stack'[t]) /\ Len(stack'[t]) \in 0 .. kernel'.depth
      BY DEF OtherStacks
    <3>2. \A i \in 1 .. Len(stack'[t]) : IsCall(stack'[t][i])
      BY DEF CallsTyped
    <3> QED BY <2>1, <3>1, <3>2
  <2>2. CASE u # t
    <3>1. stack'[u] = stack[u]
      BY <2>2 DEF OtherStacks
    <3>2. /\ IsStack(stack[u]) /\ Len(stack[u]) \in 0 .. kernel.depth
          /\ \A i \in 1 .. Len(stack[u]) : IsCall(stack[u][i])
      BY DEF CallsTyped
    <3> QED BY <3>1, <3>2
  <2> QED BY <2>1, <2>2
<1>2. kernel'.depth \in Nat /\ stack' = [u \in Threads |-> stack'[u]]
  BY DEF CallsTyped, OtherStacks
<1> QED BY <1>1, <1>2 DEF CallsTyped, IsStack, IsCall

(* What Becomes does to the calls in a run, of whichever thread.           *)
LEMMA BecomesMoves ==
  ASSUME CallsTyped, NEW t \in Threads, stack[t] # <<>>, NEW f, IsCall(f), Becomes(t, f), kernel' = kernel
  PROVE  StackMoves(t, f)
<1> DEFINE n == Len(stack[t])
<1>1. OtherStacks(t) /\ Len(stack'[t]) = n /\ n \in Nat \ {0} /\ stack'[t][n] = f
  BY BecomesIs
<1>2. \A i \in 1 .. n : i # n => stack'[t][i] = stack[t][i]
  BY <1>1 DEF OtherStacks
<1>3. \A u \in Threads : u # t => stack'[u] = stack[u]
  BY <1>1 DEF OtherStacks
<1>4. CallsTyped'
  <2>1. n \in 0 .. kernel.depth
    BY DEF CallsTyped
  <2>2. \A i \in 1 .. Len(stack'[t]) :
          (i \in 1 .. Len(stack[t]) /\ stack'[t][i] = stack[t][i]) \/ IsCall(stack'[t][i])
    BY <1>1, <1>2
  <2> QED BY <1>1, <2>1, <2>2, StaysTyped
<1>5. ASSUME NEW u \in Threads, NEW i
      PROVE  /\ In(u, i)' <=> IF u = t /\ i = n THEN f.at \in InRun ELSE In(u, i)
             /\ (u # t \/ i # n) /\ In(u, i) => stack'[u][i] = stack[u][i]
  <2>1. CASE u # t
    BY <1>3, <2>1 DEF In, InRun
  <2>2. CASE u = t
    BY <1>1, <1>2, <2>2 DEF In, InRun
  <2> QED BY <2>1, <2>2
<1> QED BY <1>1, <1>4, <1>5 DEF StackMoves

(* What Pop does to them: at most the popped call is gone.                 *)
LEMMA PopLeaves ==
  ASSUME CallsTyped, NEW t \in Threads, stack[t] # <<>>, Pop(t), kernel' = kernel
  PROVE  Leaves(t)
<1> DEFINE n == Len(stack[t])
<1>1. OtherStacks(t) /\ Len(stack'[t]) = n - 1 /\ n \in Nat \ {0}
  BY PopIs
<1>2. \A i \in 1 .. n - 1 : stack'[t][i] = stack[t][i]
  BY <1>1 DEF OtherStacks
<1>3. \A u \in Threads : u # t => stack'[u] = stack[u]
  BY <1>1 DEF OtherStacks
<1>4. CallsTyped'
  <2>1. n \in 0 .. kernel.depth /\ kernel.depth \in Nat
    BY DEF CallsTyped
  <2>2. \A i \in 1 .. Len(stack'[t]) :
          (i \in 1 .. Len(stack[t]) /\ stack'[t][i] = stack[t][i]) \/ IsCall(stack'[t][i])
    BY <1>1, <1>2
  <2>3. Len(stack'[t]) \in 0 .. kernel.depth
    BY <1>1, <2>1
  <2> QED BY <1>1, <2>2, <2>3, StaysTyped
<1>5. ASSUME NEW u \in Threads, NEW i
      PROVE  /\ In(u, i)' <=> In(u, i) /\ (u # t \/ i # Len(stack[t]))
             /\ In(u, i)' => stack'[u][i] = stack[u][i]
  <2>1. CASE u # t
    BY <1>3, <2>1 DEF In, InRun
  <2>2. CASE u = t
    BY <1>1, <1>2, <2>2 DEF In, InRun
  <2> QED BY <2>1, <2>2
<1> QED BY <1>4, <1>5 DEF Leaves

(* A new call is in no run: it walks the levels first.                     *)
LEMMA CallEnters ==
  ASSUME CallsTyped, NEW t \in Threads, NEW args, Call(t, args)
  PROVE  Enters
<1> DEFINE n == Len(stack[t])
<1>1. /\ OtherStacks(t) /\ Len(stack'[t]) = n + 1 /\ n \in Nat /\ n < kernel.depth
      /\ \A i \in 1 .. n : stack'[t][i] = stack[t][i]
      /\ stack'[t][n + 1] = Frame(args)
  BY CallIs
<1>2. Frame(args).at = "walk" /\ IsCall(Frame(args))
  BY DEF Frame, IsCall
<1>3. \A u \in Threads : u # t => stack'[u] = stack[u]
  BY <1>1 DEF OtherStacks
<1>4. CallsTyped'
  <2>1. kernel' = kernel
    BY DEF Call, made
  <2>2. kernel.depth \in Nat
    BY DEF CallsTyped
  <2>3. \A i \in 1 .. Len(stack'[t]) :
          (i \in 1 .. Len(stack[t]) /\ stack'[t][i] = stack[t][i]) \/ IsCall(stack'[t][i])
    <3>1. \A i \in 1 .. n + 1 : i \in 1 .. n \/ i = n + 1
      BY <1>1
    <3> QED BY <1>1, <1>2, <3>1
  <2>4. Len(stack'[t]) \in 0 .. kernel.depth
    BY <1>1, <2>2
  <2> QED BY <1>1, <2>1, <2>3, <2>4, StaysTyped
<1>5. ASSUME NEW u \in Threads, NEW i
      PROVE  /\ In(u, i)' <=> In(u, i)
             /\ In(u, i) => stack'[u][i] = stack[u][i]
  <2>1. CASE u # t
    BY <1>3, <2>1 DEF In, InRun
  <2>2. CASE u = t
    <3>1. stack'[t][n + 1].at \notin InRun
      BY <1>1, <1>2 DEF InRun
    <3>2. i \in 1 .. n + 1 <=> i \in 1 .. n \/ i = n + 1
      BY <1>1
    <3> QED BY <1>1, <2>2, <3>1, <3>2 DEF In, InRun
  <2> QED BY <2>1, <2>2
<1> QED BY <1>4, <1>5 DEF Enters

(* A run goes on, begins or ends.                                          *)
LEMMA RunKept ==
  ASSUME OneRun, running' = running, owner' = owner, mine' = mine,
         \A u \in Threads : \A i : /\ In(u, i)' <=> In(u, i)
                                   /\ In(u, i) => stack'[u][i].args = stack[u][i].args
  PROVE  OneRun'
<1>1. running' <=> \E u \in Threads : \E i \in 1 .. Len(stack'[u]) : In(u, i)'
  BY DEF OneRun, In
<1>2. \A u, v \in Threads : \A i \in 1 .. Len(stack'[u]), j \in 1 .. Len(stack'[v]) :
        In(u, i)' /\ In(v, j)' => u = v /\ i = j
  BY DEF OneRun, In
<1>3. \A u \in Threads : \A i \in 1 .. Len(stack'[u]) :
        In(u, i)' => owner' = u /\ mine' = stack'[u][i].args
  BY DEF OneRun, In
<1> QED BY <1>1, <1>2, <1>3 DEF OneRun

(* TunedCompileState.run sets running where it is not set: the call that   *)
(* takes it is then the only one in a run.                                 *)
LEMMA RunBegins ==
  ASSUME OneRun, ~running, running', NEW t \in Threads, NEW n, In(t, n)', owner' = t, mine' = stack'[t][n].args,
         \A u \in Threads : \A i : (u # t \/ i # n) => (In(u, i)' <=> In(u, i))
  PROVE  OneRun'
<1>1. \A u \in Threads : \A i : ~In(u, i)
  BY DEF OneRun, In
<1>2. \A u \in Threads : \A i : In(u, i)' <=> u = t /\ i = n
  BY <1>1
<1>3. running' <=> \E u \in Threads : \E i \in 1 .. Len(stack'[u]) : In(u, i)'
  BY <1>2 DEF In
<1>4. \A u, v \in Threads : \A i \in 1 .. Len(stack'[u]), j \in 1 .. Len(stack'[v]) :
        In(u, i)' /\ In(v, j)' => u = v /\ i = j
  BY <1>2
<1>5. \A u \in Threads : \A i \in 1 .. Len(stack'[u]) :
        In(u, i)' => owner' = u /\ mine' = stack'[u][i].args
  BY <1>2
<1> QED BY <1>3, <1>4, <1>5 DEF OneRun

(* The finally blocks clear running: the run of the one call that had it   *)
(* is over, and there was no other.                                        *)
LEMMA RunEnds ==
  ASSUME OneRun, ~running', NEW t \in Threads, NEW n, In(t, n),
         \A u \in Threads : \A i : In(u, i)' => In(u, i) /\ (u # t \/ i # n)
  PROVE  OneRun'
<1>1. \A u \in Threads : \A i : In(u, i) => u = t /\ i = n
  BY DEF OneRun, In
<1>2. \A u \in Threads : \A i : ~In(u, i)'
  BY <1>1
<1> QED BY <1>2 DEF OneRun

(* The innermost call of a thread.                                         *)
LEMMA TopIs ==
  ASSUME CallsTyped, NEW t \in Threads, stack[t] # <<>>
  PROVE  /\ Len(stack[t]) \in Nat \ {0} /\ Len(stack[t]) \in 1 .. Len(stack[t])
         /\ Top(t) = stack[t][Len(stack[t])] /\ IsCall(Top(t))
         /\ In(t, Len(stack[t])) <=> Top(t).at \in InRun
<1>1. IsStack(stack[t])
  BY DEF CallsTyped
<1>2. Len(stack[t]) \in Nat \ {0}
  BY <1>1, Popped
<1>3. Top(t) = stack[t][Len(stack[t])]
  BY DEF Top, Last
<1> QED BY <1>2, <1>3 DEF CallsTyped, In

(* A call that only moves on keeps its arguments.                          *)
LEMMA Went ==
  ASSUME NEW f, IsCall(f), NEW there
  PROVE  LET g == [f EXCEPT !.at = there] IN
         IsCall(g) /\ g.at = there /\ g.args = f.args
  BY DEF IsCall

(* A call, by its fields.                                                  *)
LEMMA CallIn ==
  ASSUME NEW f
  PROVE  /\ IsCall(f) => f \in [at : {f.at}, args : {f.args}, env : {f.env}, path : {f.path},
                                config : {f.config}, out : {f.out}]
         /\ \A at, args, env, path, config, out :
              f \in [at : {at}, args : {args}, env : {env}, path : {path}, config : {config}, out : {out}]
                => IsCall(f) /\ f.at = at
  BY DEF IsCall

(* A call that is in no run steps to one that is in none.                  *)
LEMMA OutsideMoves ==
  ASSUME RunInv, NEW t \in Threads, stack[t] # <<>>, Top(t).at \notin InRun,
         NEW f, IsCall(f), f.at \notin InRun, Becomes(t, f),
         kernel' = kernel, running' = running, owner' = owner, mine' = mine
  PROVE  RunInv'
<1>1. CallsTyped /\ OneRun
  BY DEF RunInv
<1>2. StackMoves(t, f)
  BY <1>1, BecomesMoves
<1>3. ~In(t, Len(stack[t]))
  BY <1>1, TopIs
<1>4. \A u \in Threads : \A i : /\ In(u, i)' <=> In(u, i)
                                /\ In(u, i) => stack'[u][i].args = stack[u][i].args
  BY <1>2, <1>3 DEF StackMoves
<1>5. CallsTyped'
  BY <1>2 DEF StackMoves
<1>6. OneRun'
  BY <1>1, <1>4, RunKept
<1> QED BY <1>5, <1>6 DEF RunInv

(* A call that is in no run returns.                                       *)
LEMMA OutsideLeaves ==
  ASSUME RunInv, NEW t \in Threads, stack[t] # <<>>, Top(t).at \notin InRun, Pop(t),
         kernel' = kernel, running' = running, owner' = owner, mine' = mine
  PROVE  RunInv'
<1>1. CallsTyped /\ OneRun
  BY DEF RunInv
<1>2. Leaves(t)
  BY <1>1, PopLeaves
<1>3. ~In(t, Len(stack[t]))
  BY <1>1, TopIs
<1>4. \A u \in Threads : \A i : /\ In(u, i)' <=> In(u, i)
                                /\ In(u, i) => stack'[u][i].args = stack[u][i].args
  BY <1>2, <1>3 DEF Leaves
<1>5. CallsTyped'
  BY <1>2 DEF Leaves
<1>6. OneRun'
  BY <1>1, <1>4, RunKept
<1> QED BY <1>5, <1>6 DEF RunInv

(* Within a run, its call goes on.                                         *)
LEMMA InsideGoes ==
  ASSUME RunInv, NEW t \in Threads, stack[t] # <<>>, Top(t).at \in InRun,
         NEW there \in InRun, TopGoes(t, there),
         kernel' = kernel, running' = running, owner' = owner, mine' = mine
  PROVE  RunInv'
<1> DEFINE f == [Top(t) EXCEPT !.at = there]
           n == Len(stack[t])
<1>1. CallsTyped /\ OneRun
  BY DEF RunInv
<1>2. IsCall(Top(t)) /\ Top(t) = stack[t][n] /\ In(t, n)
  BY <1>1, TopIs
<1>3. IsCall(f) /\ f.at \in InRun /\ f.args = Top(t).args
  BY <1>2, Went
<1>4. Becomes(t, f)
  BY DEF TopGoes
<1> HIDE DEF f
<1>5. StackMoves(t, f)
  BY <1>1, <1>3, <1>4, BecomesMoves
<1>6. \A u \in Threads : \A i : /\ In(u, i)' <=> In(u, i)
                                /\ In(u, i) => stack'[u][i].args = stack[u][i].args
  BY <1>2, <1>3, <1>5 DEF StackMoves
<1>7. CallsTyped'
  BY <1>5 DEF StackMoves
<1>8. OneRun'
  BY <1>1, <1>6, RunKept
<1> QED BY <1>7, <1>8 DEF RunInv

(* A run ends, its call returning or going on to the fill.                 *)
LEMMA InsideLeaves ==
  ASSUME RunInv, NEW t \in Threads, stack[t] # <<>>, Top(t).at \in InRun, Pop(t),
         kernel' = kernel, running' = FALSE
  PROVE  RunInv'
<1>1. CallsTyped /\ OneRun
  BY DEF RunInv
<1>2. Leaves(t)
  BY <1>1, PopLeaves
<1>3. In(t, Len(stack[t]))
  BY <1>1, TopIs
<1>4. \A u \in Threads : \A i : In(u, i)' => In(u, i) /\ (u # t \/ i # Len(stack[t]))
  BY <1>2 DEF Leaves
<1>5. CallsTyped'
  BY <1>2 DEF Leaves
<1>6. OneRun'
  BY <1>1, <1>3, <1>4, RunEnds
<1> QED BY <1>5, <1>6 DEF RunInv

(* A run ends, and its call goes on to the fill.                           *)
LEMMA InsideMovesOut ==
  ASSUME RunInv, NEW t \in Threads, stack[t] # <<>>, Top(t).at \in InRun,
         NEW f, IsCall(f), f.at \notin InRun, Becomes(t, f),
         kernel' = kernel, running' = FALSE
  PROVE  RunInv'
<1>1. CallsTyped /\ OneRun
  BY DEF RunInv
<1>2. StackMoves(t, f)
  BY <1>1, BecomesMoves
<1>3. In(t, Len(stack[t]))
  BY <1>1, TopIs
<1>4. \A u \in Threads : \A i : In(u, i)' => In(u, i) /\ (u # t \/ i # Len(stack[t]))
  BY <1>2 DEF StackMoves
<1>5. CallsTyped'
  BY <1>2 DEF StackMoves
<1>6. OneRun'
  BY <1>1, <1>3, <1>4, RunEnds
<1> QED BY <1>5, <1>6 DEF RunInv

(* Each action keeps the invariant.  A launcher called by user code, in a   *)
(* run or not, starts no run.                                              *)
LEMMA CallKeeps ==
  ASSUME RunInv, NEW t \in Threads, NEW args, Call(t, args)
  PROVE  RunInv'
<1>1. CallsTyped /\ OneRun
  BY DEF RunInv
<1>2. Enters
  BY <1>1, CallEnters
<1>3. running' = running /\ owner' = owner /\ mine' = mine
  BY DEF Call, runVars
<1>4. OneRun'
  BY <1>1, <1>2, <1>3, RunKept DEF Enters
<1> QED BY <1>2, <1>4 DEF RunInv, Enters

(* The walk ends with a hit, a miss or the next level, none of them a run. *)
LEMMA WalkKeeps ==
  ASSUME RunInv, NEW t \in Threads, Walk(t)
  PROVE  RunInv'
<1> DEFINE f == Top(t)
           Became(g) == Becomes(t, g) /\ IsCall(g) /\ g.at \notin InRun
<1>1. /\ stack[t] # <<>> /\ f.at \notin InRun
      /\ kernel' = kernel /\ running' = running /\ owner' = owner /\ mine' = mine
  BY DEF Walk, TopAt, InRun, made, runVars
<1>2. IsCall(f)
  BY <1>1, TopIs DEF RunInv
<1> HIDE DEF f
<1>3. \E g : Became(g)
  <2> DEFINE missed == Missed(f)
  <2>1. missed.at = "miss" /\ IsCall(missed)
    BY DEF Missed, Frame, IsCall
  <2>2. CASE Becomes(t, missed)
    BY <2>1, <2>2 DEF InRun
  <2>3. CASE ~Becomes(t, missed)
    <3>1. PICK env, path, at, out :
             /\ Becomes(t, [f EXCEPT !.env = env, !.path = path, !.at = at, !.out = out])
             /\ at \in {"hit", "walk"}
      BY <2>3, Zenon DEF Walk, f
    <3>4. PICK g : g = [f EXCEPT !.env = env, !.path = path, !.at = at, !.out = out]
      OBVIOUS
    <3>2. IsCall(g) /\ g.at = at
      <4>1. f \in [at : {f.at}, args : {f.args}, env : {f.env}, path : {f.path},
                   config : {f.config}, out : {f.out}]
        BY <1>2, CallIn
      <4>2. g \in [at : {at}, args : {f.args}, env : {env}, path : {path},
                   config : {f.config}, out : {out}]
        BY <3>4, <4>1
      <4> QED BY <4>2, CallIn
    <3>3. at \notin InRun
      BY <3>1 DEF InRun
    <3>5. Becomes(t, g)
      BY <3>1, <3>4, Zenon
    <3> QED BY <3>2, <3>3, <3>5
  <2> QED BY <2>2, <2>3
<1>4. PICK g : Became(g)
  BY <1>3
<1> QED BY <1>1, <1>4, OutsideMoves DEF f

(* A call returns, is refused since a run is going on, or cannot fill.     *)
LEMMA LeaveKeeps ==
  ASSUME RunInv, NEW t \in Threads, Return(t) \/ Refuse(t) \/ FillFails(t)
  PROVE  RunInv'
<1>1. /\ stack[t] # <<>> /\ Top(t).at \notin InRun /\ Pop(t)
      /\ kernel' = kernel /\ running' = running /\ owner' = owner /\ mine' = mine
  BY DEF Return, Refuse, FillFails, TopAt, InRun, made, runVars
<1> QED BY <1>1, OutsideLeaves

(* TunedCompileState.run: refused above unless no run is going on.         *)
LEMMA RunKeeps ==
  ASSUME RunInv, NEW t \in Threads, Run(t)
  PROVE  RunInv'
<1> DEFINE f == [Top(t) EXCEPT !.at = "chain"]
<1> PICK n : n = Len(stack[t])
  OBVIOUS
<1>1. CallsTyped /\ OneRun
  BY DEF RunInv
<1>2. /\ stack[t] # <<>> /\ Becomes(t, f) /\ ~running /\ running' /\ kernel' = kernel
      /\ owner' = t /\ mine' = Top(t).args
  BY DEF Run, TopAt, TopGoes, made
<1>3. IsCall(Top(t))
  BY <1>1, <1>2, TopIs
<1>4. IsCall(f) /\ f.at = "chain" /\ f.args = Top(t).args
  BY <1>3, Went
<1> HIDE DEF f
<1>5. StackMoves(t, f)
  BY <1>1, <1>2, <1>4, BecomesMoves
<1>6. In(t, n)' /\ stack'[t][n].args = Top(t).args
  <2>1. stack'[t][n] = f /\ f.at \in InRun
    BY <1>4, <1>5 DEF StackMoves, InRun
  <2>2. In(t, n)' <=> f.at \in InRun
    BY <1>5 DEF StackMoves
  <2> QED BY <1>4, <2>1, <2>2
<1>7. \A u \in Threads : \A i : (u # t \/ i # n) => (In(u, i)' <=> In(u, i))
  BY <1>5 DEF StackMoves
<1>8. OneRun'
  BY <1>1, <1>2, <1>6, <1>7, RunBegins
<1>9. CallsTyped'
  BY <1>5 DEF StackMoves
<1> QED BY <1>8, <1>9 DEF RunInv

(* The chain looks up its cache, measures, picks and launches in its run.  *)
LEMMA InsideKeeps ==
  ASSUME RunInv, NEW t \in Threads,
         Known(t) \/ Candidate(t) \/ Pick(t) \/ Launch(t)
  PROVE  RunInv'
<1>1. /\ stack[t] # <<>> /\ Top(t).at \in InRun
      /\ kernel' = kernel /\ running' = running /\ owner' = owner /\ mine' = mine
  BY DEF Known, Candidate, Pick, Launch, TopAt, InRun, made,
         runVars
<1>2. \E there \in InRun : TopGoes(t, there)
  BY DEF Known, Candidate, Pick, Launch, InRun
<1> QED BY <1>1, <1>2, InsideGoes

(* Both ends of a run clear what it set, whether it raised or not.         *)
LEMMA EndKeeps ==
  ASSUME RunInv, NEW t \in Threads, Record(t) \/ RunFails(t)
  PROVE  RunInv'
<1>1. CASE RunFails(t)
  <2>1. /\ stack[t] # <<>> /\ Top(t).at \in InRun /\ Pop(t)
        /\ kernel' = kernel /\ running' = FALSE
    BY <1>1 DEF RunFails, TopAt, InRun, made, CleanUp
  <2> QED BY <2>1, InsideLeaves
<1>2. CASE Record(t)
  <2> DEFINE f == Top(t)
  <2>1. /\ stack[t] # <<>> /\ f.at \in InRun
        /\ kernel' = kernel /\ running' = FALSE
    BY <1>2 DEF Record, TopAt, InRun, made, CleanUp
  <2>2. IsCall(f)
    BY <2>1, TopIs DEF RunInv
  <2>3. PICK config, out : Becomes(t, [f EXCEPT !.at = "fill", !.config = config, !.out = out])
    BY <1>2, Zenon DEF Record
  <2> HIDE DEF f
  <2>4. PICK g : g = [f EXCEPT !.at = "fill", !.config = config, !.out = out]
    OBVIOUS
  <2>5. IsCall(g) /\ g.at = "fill"
    <3>1. f \in [at : {f.at}, args : {f.args}, env : {f.env}, path : {f.path},
                 config : {f.config}, out : {f.out}]
      BY <2>2, CallIn
    <3>2. g \in [at : {"fill"}, args : {f.args}, env : {f.env}, path : {f.path},
                 config : {config}, out : {out}]
      BY <2>4, <3>1
    <3> QED BY <3>2, CallIn
  <2>6. Becomes(t, g)
    BY <2>3, <2>4, Zenon
  <2>7. g.at \notin InRun
    BY <2>5 DEF InRun
  <2> QED BY <2>1, <2>5, <2>6, <2>7, InsideMovesOut DEF f
<1> QED BY <1>1, <1>2

(* The fill comes after the run.                                           *)
LEMMA FillKeeps ==
  ASSUME RunInv, NEW t \in Threads, Fill(t)
  PROVE  RunInv'
<1> DEFINE f == Top(t)
<1>1. /\ stack[t] # <<>> /\ f.at \notin InRun
      /\ kernel' = kernel /\ running' = running /\ owner' = owner /\ mine' = mine
  BY DEF Fill, TopAt, InRun, made, runVars
<1>2. IsCall(f)
  BY <1>1, TopIs DEF RunInv
<1>3. PICK there \in {"mismatch", "done"} : TopGoes(t, there)
  BY DEF Fill
<1> DEFINE g == [f EXCEPT !.at = there]
<1>4. IsCall(g) /\ g.at = there
  BY <1>2, Went
<1>5. Becomes(t, g)
  BY <1>3 DEF TopGoes
<1>6. g.at \notin InRun
  BY <1>4 DEF InRun
<1> HIDE DEF g, f
<1> QED BY <1>1, <1>4, <1>5, <1>6, OutsideMoves DEF f

(* So every step of the tuned launcher keeps it.                           *)
LEMMA StepKeeps == RunInv /\ [TunedNext]_tunedVars => RunInv'
<1> SUFFICES ASSUME RunInv, [TunedNext]_tunedVars
             PROVE  RunInv'
  OBVIOUS
<1>1. CASE TunedNext
  <2>1. PICK t \in Threads :
          \/ \E args \in Args : Call(t, args)
          \/ Walk(t) \/ Return(t)
          \/ Refuse(t) \/ Run(t)
          \/ Known(t) \/ Candidate(t) \/ Pick(t) \/ Launch(t)
          \/ Record(t) \/ RunFails(t)
          \/ Fill(t) \/ FillFails(t)
    BY <1>1 DEF TunedNext
  <2> QED BY <2>1, CallKeeps, WalkKeeps, LeaveKeeps, RunKeeps, InsideKeeps, EndKeeps, FillKeeps
<1>2. CASE UNCHANGED tunedVars
  <2>1. kernel' = kernel /\ stack' = stack /\ running' = running /\ owner' = owner /\ mine' = mine
    BY <1>2 DEF tunedVars
  <2>2. CallsTyped'
    <3>1. \A u \in Threads : /\ IsStack(stack'[u]) /\ Len(stack'[u]) \in 0 .. kernel'.depth
                             /\ \A i \in 1 .. Len(stack'[u]) : IsCall(stack'[u][i])
      BY <2>1 DEF RunInv, CallsTyped
    <3>2. kernel'.depth \in Nat /\ stack' = [u \in Threads |-> stack'[u]]
      BY <2>1 DEF RunInv, CallsTyped
    <3> QED BY <3>1, <3>2 DEF CallsTyped, IsStack, IsCall
  <2>3. \A u \in Threads : \A i : /\ In(u, i)' <=> In(u, i)
                                  /\ In(u, i) => stack'[u][i].args = stack[u][i].args
    BY <2>1 DEF In, InRun
  <2>4. OneRun'
    BY <2>1, <2>3, RunKept DEF RunInv
  <2> QED BY <2>2, <2>4 DEF RunInv
<1> QED BY <1>1, <1>2

(* Before the first call there is no run.                                  *)
LEMMA InitRuns ==
  ASSUME TunedInit
  PROVE  RunInv
<1>1. /\ kernel \in Chains /\ stack = [t \in Threads |-> <<>>] /\ running = FALSE
  BY DEF TunedInit
<1>2. IsStack(<<>>) /\ Len(<<>>) = 0
  BY DEF IsStack
<1>3. CallsTyped
  BY <1>1, <1>2, ChainsAssumption DEF CallsTyped
<1>4. OneRun
  BY <1>1, <1>2 DEF OneRun, In
<1> QED BY <1>3, <1>4 DEF RunInv

(* The calls that are in a run are those that RunsAlone counts.            *)
LEMMA RunsAre == RunInv => RunsAlone
<1> SUFFICES ASSUME RunInv
             PROVE  RunsAlone
  OBVIOUS
<1>1. \A t \in Threads : \A i : In(t, i) <=> <<t, i>> \in Runs
  <2> SUFFICES ASSUME NEW t \in Threads, NEW i
               PROVE  In(t, i) <=> <<t, i>> \in Runs
    OBVIOUS
  <2>1. kernel.depth \in Nat /\ Len(stack[t]) \in 0 .. kernel.depth
    BY DEF RunInv, CallsTyped
  <2>2. i \in 1 .. Len(stack[t]) <=> i \in 1 .. kernel.depth /\ i <= Len(stack[t])
    BY <2>1
  <2> QED BY <2>2 DEF In, Runs, Frames, FrameAt
<1>2. \A fr \in Runs : fr[1] \in Threads /\ fr = <<fr[1], fr[2]>>
  BY DEF Runs, Frames
<1>3. \A fr \in Runs : In(fr[1], fr[2])
  BY <1>1, <1>2
<1>4. \A fr, gr \in Runs : fr = gr
  <2> SUFFICES ASSUME NEW fr \in Runs, NEW gr \in Runs
               PROVE  fr = gr
    OBVIOUS
  <2>1. fr[1] = gr[1] /\ fr[2] = gr[2]
    BY <1>2, <1>3 DEF RunInv, OneRun, In
  <2> QED BY <1>2, <2>1
<1>5. Cardinality(Runs) <= 1
  <2>1. CASE Runs = {}
    BY <2>1, FS_EmptySet
  <2>2. CASE Runs # {}
    <3>1. PICK fr : Runs = {fr}
      BY <1>4, <2>2
    <3>2. Cardinality({fr}) = 1
      BY FS_Singleton
    <3> QED BY <3>1, <3>2
  <2> QED BY <2>1, <2>2
<1>6. running <=> Runs # {}
  <2>1. running <=> \E t \in Threads : \E i : In(t, i)
    BY DEF RunInv, OneRun, In
  <2> QED BY <1>1, <1>2, <1>3, <2>1
<1>7. \A fr \in Runs : owner = fr[1] /\ mine = FrameAt(fr).args
  <2> SUFFICES ASSUME NEW fr \in Runs
               PROVE  owner = fr[1] /\ mine = FrameAt(fr).args
    OBVIOUS
  <2>1. fr[1] \in Threads /\ In(fr[1], fr[2])
    BY <1>2, <1>3
  <2>2. \A t \in Threads : \A i : In(t, i) => owner = t /\ mine = stack[t][i].args
    BY DEF RunInv, OneRun, In
  <2>3. owner = fr[1] /\ mine = stack[fr[1]][fr[2]].args
    BY <2>1, <2>2
  <2> QED BY <2>3 DEF FrameAt
<1> QED BY <1>5, <1>6, <1>7 DEF RunsAlone

(* TunedCompileState.run and _tune of src/intj/tuning.py, for any threads, *)
(* any chains and any user code that calls the launcher while it tunes: at *)
(* most one call is in a run, running says whether one is, and that call's *)
(* thread has the lock and its arguments are those the ranges and knobs of *)
(* the run were taken from.                                                *)
THEOREM TunedRunsAlone == TunedSpec => []RunsAlone
<1>1. TunedInit => RunInv
  BY InitRuns
<1>2. RunInv /\ [TunedNext]_tunedVars => RunInv'
  BY StepKeeps
<1>3. RunInv => RunsAlone
  BY RunsAre
<1> QED BY <1>1, <1>2, <1>3, PTL DEF TunedSpec
=============================================================================
