-------------------------- MODULE LauncherBuildProofs --------------------------
(***************************************************************************)
(* For any set of threads, any finite set of launchers and any bounds:     *)
(* the safety invariants of LauncherBuildProps hold, and a launcher lives  *)
(* as LauncherLife says.                                                   *)
(***************************************************************************)
EXTENDS LauncherBuildProps, FiniteSetTheorems, TLAPS

(* Frames fill the stack from the bottom, and all but the last are in the  *)
(* `delayed` that started the next one.                                    *)
StackOk ==
  \A t \in Threads : \A d \in 1 .. MaxDepth :
    /\ d <= depth[t] => frame[t][d] \in Frames
    /\ d > depth[t] => frame[t][d] = NoFrame
    /\ d < depth[t] => frame[t][d].pc = "delayed"

(* What a frame knows at each point under the lock: the options it works   *)
(* on are the launcher's, but for `delayed`, and how far it has published. *)
FrameOk(f) ==
  /\ f.pc \in {"delayed", "body"} \union Publishing =>
       /\ entry[f.h] = "shim"
       /\ f.opt # NoOptions /\ options[f.h] # NoOptions
       /\ f.opt.edits = options[f.h].edits
       /\ f.pc = "body" /\ f.op \in {"call", "resolve"} => ~f.opt.delayed
  /\ f.pc \in Publishing =>
       f.op = "call" /\ ~f.opt.delayed /\ state[f.h] = f.opt
  /\ f.pc \in {"publish", "swap"} => compileState[f.h]
  /\ f.pc = "swap" => options[f.h] = f.opt
  /\ f.pc = "unlock" => f.op = "call" /\ entry[f.h] = "built"

FramesOk == \A t \in Threads : \A d \in 1 .. depth[t] : FrameOk(frame[t][d])

(* A waiting thread has no lock to count. *)
WaitersCountNone ==
  \A t \in Threads : \A d \in 1 .. depth[t] : frame[t][d].pc = "waiting" => held[t] = 0

IInv == /\ TypeOK /\ StackOk /\ FramesOk
        /\ LockOwnerIsInside /\ HeldCountsLocks /\ WaitersCountNone
        /\ EntryIsBacked /\ FailedBuildLeavesNothing

USE DEF At, Top, Active

LEMMA InitIInv == Init => IInv
<1> SUFFICES ASSUME Init PROVE IInv
  OBVIOUS
<1> USE DEF Init
<1>1. TypeOK
  BY BoundsNat DEF TypeOK, Options
<1>2. StackOk /\ FramesOk /\ LockOwnerIsInside /\ WaitersCountNone
  BY NoThreadNew, BoundsNat DEF StackOk, FramesOk, LockOwnerIsInside, WaitersCountNone, NoFrame, Frames, Pcs
<1>3. HeldCountsLocks
  <2> SUFFICES ASSUME NEW t \in Threads PROVE held[t] = Cardinality({h \in Launchers : lock[h] = t})
    BY DEF HeldCountsLocks
  <2>1. {h \in Launchers : lock[h] = t} = {}
    BY NoThreadNew
  <2> QED
    BY <2>1, FS_EmptySet
<1>4. EntryIsBacked /\ FailedBuildLeavesNothing
  BY DEF EntryIsBacked, FailedBuildLeavesNothing
<1> QED
  BY <1>1, <1>2, <1>3, <1>4 DEF IInv

-----------------------------------------------------------------------------
(* Lemmas on the lock *)

(* Two frames under one launcher's lock are the same frame. *)
LEMMA OneInside ==
  ASSUME LockOwnerIsInside, TypeOK,
         NEW t \in Threads, NEW d \in 1 .. depth[t], Holds(t, d),
         NEW u \in Threads, NEW e \in 1 .. depth[u], Holds(u, e),
         frame[t][d].h = frame[u][e].h, frame[t][d].h \in Launchers
  PROVE  t = u /\ d = e
  BY DEF LockOwnerIsInside

(* Taking a free lock counts one more for the taker, and for nobody else. *)
LEMMA TakeCounts ==
  ASSUME TypeOK, HeldCountsLocks, NEW t \in Threads, NEW h \in Launchers, Take(t, h)
  PROVE  HeldCountsLocks' /\ held' \in [Threads -> Nat]
<1> DEFINE Owned(u) == {k \in Launchers : lock[k] = u}
<1> SUFFICES ASSUME NEW u \in Threads
             PROVE  held'[u] = Cardinality(Owned(u)') /\ held'[u] \in Nat
  BY DEF HeldCountsLocks, Take, TypeOK
<1>1. IsFiniteSet(Owned(u))
  BY LaunchersFinite, FS_Subset
<1>2. CASE u = t
  <2>1. Owned(u)' = Owned(u) \union {h} /\ h \notin Owned(u)
    BY <1>2, NoThreadNew DEF Take, TypeOK
  <2>2. Cardinality(Owned(u)') = Cardinality(Owned(u)) + 1
    BY <2>1, <1>1, FS_AddElement
  <2>3. held[u] = Cardinality(Owned(u))
    BY DEF HeldCountsLocks
  <2>4. held'[u] = held[u] + 1 /\ held[u] \in Nat
    BY <1>2 DEF Take, TypeOK
  <2> QED
    BY <2>2, <2>3, <2>4
<1>3. CASE u # t
  <2>1. Owned(u)' = Owned(u)
    BY <1>3, NoThreadNew DEF Take, TypeOK
  <2> QED
    BY <2>1, <1>3 DEF Take, TypeOK, HeldCountsLocks
<1> QED
  BY <1>2, <1>3

(* Releasing an owned lock counts one less for its owner. *)
LEMMA ReleaseCounts ==
  ASSUME TypeOK, HeldCountsLocks, NEW t \in Threads, NEW h \in Launchers,
         lock[h] = t, Release(t, h)
  PROVE  HeldCountsLocks' /\ held' \in [Threads -> Nat]
<1> DEFINE Owned(u) == {k \in Launchers : lock[k] = u}
<1> SUFFICES ASSUME NEW u \in Threads
             PROVE  held'[u] = Cardinality(Owned(u)') /\ held'[u] \in Nat
  BY DEF HeldCountsLocks, Release, TypeOK
<1>1. IsFiniteSet(Owned(u))
  BY LaunchersFinite, FS_Subset
<1>2. CASE u = t
  <2>1. Owned(u)' = Owned(u) \ {h} /\ h \in Owned(u)
    BY <1>2, NoThreadNew DEF Release, TypeOK
  <2>2. Cardinality(Owned(u)') = Cardinality(Owned(u)) - 1
    BY <2>1, <1>1, FS_RemoveElement
  <2>3. IsFiniteSet(Owned(u)')
    BY <1>1, <2>1, FS_RemoveElement
  <2>4. Cardinality(Owned(u)') \in Nat
    BY <2>3, FS_CardinalityType
  <2> QED
    BY <2>2, <2>4, <1>2 DEF Release, TypeOK, HeldCountsLocks
<1>3. CASE u # t
  <2>1. Owned(u)' = Owned(u)
    BY <1>3, NoThreadNew DEF Release, TypeOK
  <2> QED
    BY <2>1, <1>3 DEF Release, TypeOK, HeldCountsLocks
<1> QED
  BY <1>2, <1>3

-----------------------------------------------------------------------------
(* Lemmas on the stack *)

(* Only the last frame of t changes. *)
OthersSame(t) ==
  \A u \in Threads : \A e \in 1 .. MaxDepth :
    (u # t \/ e # depth[t]) => frame'[u][e] = frame[u][e]

LEMMA TopFrame ==
  ASSUME TypeOK, StackOk, NEW t \in Threads, Active(t)
  PROVE  /\ depth[t] \in 1 .. MaxDepth
         /\ Top(t) \in Frames
  BY BoundsNat DEF TypeOK, StackOk

LEMMA GotoStep ==
  ASSUME TypeOK, StackOk, NEW t \in Threads, Active(t), NEW pc \in Pcs, Goto(t, pc)
  PROVE  /\ frame' \in [Threads -> [1 .. MaxDepth -> Frames \union {NoFrame}]]
         /\ StackOk' /\ OthersSame(t) /\ depth' = depth
         /\ frame'[t][depth[t]] = [Top(t) EXCEPT !.pc = pc]
         /\ frame'[t][depth[t]] \in Frames
<1>1. depth[t] \in 1 .. MaxDepth /\ Top(t) \in Frames
  BY TopFrame
<1>2. [Top(t) EXCEPT !.pc = pc] \in Frames
  BY <1>1 DEF Frames
<1>3. frame'[t][depth[t]] = [Top(t) EXCEPT !.pc = pc] /\ OthersSame(t) /\ depth' = depth
  BY <1>1 DEF Goto, TypeOK, OthersSame
<1>4. frame' \in [Threads -> [1 .. MaxDepth -> Frames \union {NoFrame}]]
  BY <1>1, <1>2 DEF Goto, TypeOK
<1>5. StackOk'
  BY <1>1, <1>2, <1>3 DEF StackOk, OthersSame, TypeOK
<1> QED
  BY <1>2, <1>3, <1>4, <1>5

LEMMA ReturnStep ==
  ASSUME TypeOK, StackOk, NEW t \in Threads, Active(t), Return(t)
  PROVE  /\ frame' \in [Threads -> [1 .. MaxDepth -> Frames \union {NoFrame}]]
         /\ depth' \in [Threads -> 0 .. MaxDepth]
         /\ StackOk' /\ OthersSame(t)
         /\ depth'[t] = depth[t] - 1
         /\ \A u \in Threads : u # t => depth'[u] = depth[u]
         /\ frame'[t][depth[t]] = NoFrame
<1>1. depth[t] \in 1 .. MaxDepth /\ Top(t) \in Frames
  BY TopFrame
<1>2. /\ frame'[t][depth[t]] = NoFrame /\ OthersSame(t)
      /\ depth'[t] = depth[t] - 1
      /\ \A u \in Threads : u # t => depth'[u] = depth[u]
  BY <1>1 DEF Return, TypeOK, OthersSame
<1>3. frame' \in [Threads -> [1 .. MaxDepth -> Frames \union {NoFrame}]]
  BY <1>1 DEF Return, TypeOK
<1>4. depth' \in [Threads -> 0 .. MaxDepth]
  BY <1>1, BoundsNat DEF Return, TypeOK
<1>5. StackOk'
  <2> SUFFICES ASSUME NEW u \in Threads, NEW d \in 1 .. MaxDepth
               PROVE  /\ d <= depth'[u] => frame'[u][d] \in Frames
                      /\ d > depth'[u] => frame'[u][d] = NoFrame
                      /\ d < depth'[u] => frame'[u][d].pc = "delayed"
    BY DEF StackOk
  <2>1. depth[u] \in Nat /\ depth[t] \in Nat /\ d \in Nat
    BY BoundsNat DEF TypeOK
  <2>2. CASE u = t /\ d = depth[t]
    BY <1>2, <2>1, <2>2
  <2>3. CASE u # t \/ d # depth[t]
    BY <1>2, <2>1, <2>3 DEF StackOk, OthersSame
  <2> QED
    BY <2>2, <2>3
<1> QED
  BY <1>2, <1>3, <1>4, <1>5

(* The lock's owners stay right when no frame enters or leaves a body. *)
LEMMA InsideKept ==
  ASSUME LockOwnerIsInside, UNCHANGED <<lock, buildThread>>,
         \A u \in Threads : depth'[u] \in Int /\ depth[u] \in Int,
         \A u \in Threads : \A e \in Int : Holds(u, e)' <=> Holds(u, e),
         \A u \in Threads : \A e \in Int : Holds(u, e) => frame'[u][e].h = frame[u][e].h
  PROVE  LockOwnerIsInside'
<1> SUFFICES ASSUME NEW u \in Threads, NEW h \in Launchers
             PROVE  /\ lock'[h] = u <=> \E d \in 1 .. depth'[u] : Holds(u, d)' /\ frame'[u][d].h = h
                    /\ buildThread'[h] = lock'[h]
                    /\ \A d, e \in 1 .. depth'[u] :
                         Holds(u, d)' /\ Holds(u, e)' /\ frame'[u][d].h = frame'[u][e].h => d = e
  BY DEF LockOwnerIsInside
<1>1. \A d \in Int : Holds(u, d) => d \in 1 .. depth[u]
  BY DEF Holds
<1>2. \A d \in Int : Holds(u, d)' => d \in 1 .. depth'[u]
  BY DEF Holds
<1> HIDE DEF Holds
<1> QED
  BY <1>1, <1>2 DEF LockOwnerIsInside
(* What every operation that ends or moves one frame does to the stack. *)
Moves(t) ==
  /\ OthersSame(t) /\ StackOk'
  /\ frame' \in [Threads -> [1 .. MaxDepth -> Frames \union {NoFrame}]]
  /\ depth' \in [Threads -> 0 .. MaxDepth]
  /\ depth'[t] \in {depth[t], depth[t] - 1}
  /\ \A u \in Threads : u # t => depth'[u] = depth[u]
  /\ depth'[t] = depth[t] => frame'[t][depth[t]].h = Top(t).h

LEMMA InsideTaken ==
  ASSUME TypeOK, StackOk, LockOwnerIsInside, NEW t \in Threads, Active(t),
         Top(t).pc \notin UnderLock, Take(t, Top(t).h),
         Moves(t), depth'[t] = depth[t], frame'[t][depth[t]].pc = "locked"
  PROVE  LockOwnerIsInside'
<1>1. depth[t] \in 1 .. MaxDepth /\ Top(t) \in Frames
  BY TopFrame
<1>2. Top(t).h \in Launchers
  BY <1>1 DEF Frames
<1>3. \A u \in Threads : \A e \in 1 .. depth[u] :
        /\ e \in 1 .. MaxDepth
        /\ u # t \/ e # depth[t] => frame'[u][e] = frame[u][e]
  BY BoundsNat DEF Moves, OthersSame, TypeOK
<1>4. \A u \in Threads : depth'[u] = depth[u]
  BY DEF Moves
<1>5. \A u \in Threads : \A e \in 1 .. depth[u] :
        Holds(u, e)' <=> Holds(u, e) \/ (u = t /\ e = depth[t])
  BY <1>1, <1>3, <1>4 DEF Holds, UnderLock
<1>6. ~Holds(t, depth[t])
  BY DEF Holds
<1>7. \A u \in Threads : \A e \in 1 .. depth[u] : ~(Holds(u, e) /\ frame[u][e].h = Top(t).h)
  BY NoThreadNew, <1>2 DEF Take, LockOwnerIsInside
<1>8. /\ \A k \in Launchers : k # Top(t).h => lock'[k] = lock[k] /\ buildThread'[k] = buildThread[k]
      /\ lock'[Top(t).h] = t /\ buildThread'[Top(t).h] = t
  BY <1>2 DEF Take, TypeOK
<1>9. ASSUME NEW u \in Threads, NEW h \in Launchers
      PROVE  /\ lock'[h] = u <=> \E d \in 1 .. depth'[u] : Holds(u, d)' /\ frame'[u][d].h = h
             /\ buildThread'[h] = lock'[h]
             /\ \A d, e \in 1 .. depth'[u] :
                  Holds(u, d)' /\ Holds(u, e)' /\ frame'[u][d].h = frame'[u][e].h => d = e
  <2> HIDE DEF Holds
  <2>1. frame'[t][depth[t]].h = Top(t).h /\ depth[t] \in 1 .. depth[t]
    BY <1>1 DEF Moves
  <2>2. CASE h = Top(t).h
    BY <2>1, <2>2, <1>3, <1>4, <1>5, <1>6, <1>7, <1>8 DEF LockOwnerIsInside
  <2>3. CASE h # Top(t).h
    BY <2>1, <2>3, <1>3, <1>4, <1>5, <1>6, <1>7, <1>8 DEF LockOwnerIsInside
  <2> QED
    BY <2>2, <2>3
<1> QED
  BY <1>9 DEF LockOwnerIsInside

LEMMA InsideReleased ==
  ASSUME TypeOK, StackOk, LockOwnerIsInside, NEW t \in Threads, Active(t),
         Top(t).pc \in UnderLock, Release(t, Top(t).h),
         Moves(t), depth'[t] = depth[t] => frame'[t][depth[t]].pc \notin UnderLock
  PROVE  LockOwnerIsInside'
<1>1. depth[t] \in 1 .. MaxDepth /\ Top(t) \in Frames
  BY TopFrame
<1>2. Top(t).h \in Launchers
  BY <1>1 DEF Frames
<1>3. \A u \in Threads : \A e \in 1 .. depth[u] :
        /\ e \in 1 .. MaxDepth
        /\ u # t \/ e # depth[t] => frame'[u][e] = frame[u][e]
  BY BoundsNat DEF Moves, OthersSame, TypeOK
<1>4. \A u \in Threads : \A e \in Int :
        e \in 1 .. depth'[u] => e \in 1 .. depth[u]
  <2> TAKE u \in Threads
  <2>1. depth[u] \in Nat /\ depth'[u] \in Nat /\ depth'[u] <= depth[u]
    <3>1. depth[u] \in Nat /\ depth'[u] \in Nat
      BY BoundsNat DEF Moves, TypeOK
    <3>2. CASE u = t
      BY <3>1, <3>2 DEF Moves
    <3>3. CASE u # t
      BY <3>1, <3>3 DEF Moves
    <3> QED
      BY <3>1, <3>2, <3>3
  <2> QED
    BY <2>1
<1>5. \A u \in Threads : \A e \in 1 .. depth[u] :
        (e \in 1 .. depth'[u] /\ Holds(u, e)') <=> Holds(u, e) /\ ~(u = t /\ e = depth[t])
  <2> SUFFICES ASSUME NEW u \in Threads, NEW e \in 1 .. depth[u]
               PROVE (e \in 1 .. depth'[u] /\ Holds(u, e)') <=> Holds(u, e) /\ ~(u = t /\ e = depth[t])
    OBVIOUS
  <2>0. depth[t] \in Nat /\ depth[u] \in Nat
    BY BoundsNat DEF TypeOK
  <2>1. CASE u = t /\ e = depth[t]
    BY <2>1, <2>0, <1>1 DEF Holds, Moves
  <2>2. CASE u # t
    BY <2>2, <2>0, <1>3 DEF Holds, Moves
  <2>3. CASE u = t /\ e # depth[t]
    BY <2>3, <2>0, <1>3 DEF Holds, Moves
  <2> QED
    BY <2>1, <2>2, <2>3
<1>6. Holds(t, depth[t]) /\ depth[t] \in 1 .. depth[t]
  BY <1>1 DEF Holds
<1>7. lock[Top(t).h] = t
  BY <1>2, <1>6 DEF LockOwnerIsInside
<1>8. /\ \A k \in Launchers : k # Top(t).h => lock'[k] = lock[k] /\ buildThread'[k] = buildThread[k]
      /\ lock'[Top(t).h] = NoThread /\ buildThread'[Top(t).h] = NoThread
  BY <1>2 DEF Release, TypeOK
<1>9. ASSUME NEW u \in Threads, NEW h \in Launchers
      PROVE  /\ lock'[h] = u <=> \E d \in 1 .. depth'[u] : Holds(u, d)' /\ frame'[u][d].h = h
             /\ buildThread'[h] = lock'[h]
             /\ \A d, e \in 1 .. depth'[u] :
                  Holds(u, d)' /\ Holds(u, e)' /\ frame'[u][d].h = frame'[u][e].h => d = e
  <2> HIDE DEF Holds
  <2>0. \A e \in Int : e \in 1 .. depth'[u] => e \in 1 .. depth[u]
    BY <1>4
  <2>1. buildThread'[h] = lock'[h]
    BY <1>8 DEF LockOwnerIsInside
  <2>2. \A d, e \in 1 .. depth'[u] :
          Holds(u, d)' /\ Holds(u, e)' /\ frame'[u][d].h = frame'[u][e].h => d = e
    BY <2>0, <1>3, <1>5 DEF LockOwnerIsInside
  <2>3. CASE h = Top(t).h
    <3>1. lock'[h] # u
      BY <2>3, <1>8, NoThreadNew
    <3>2. ASSUME NEW d \in 1 .. depth'[u], Holds(u, d)', frame'[u][d].h = h PROVE FALSE
      <4>1. d \in 1 .. depth[u] /\ Holds(u, d) /\ frame[u][d].h = h /\ ~(u = t /\ d = depth[t])
        BY <3>2, <2>0, <1>3, <1>5
      <4>2. lock[h] = u
        BY <4>1 DEF LockOwnerIsInside
      <4> QED
        BY <4>1, <4>2, <1>6, <1>7, <2>3 DEF LockOwnerIsInside
    <3> QED
      BY <2>1, <2>2, <3>1, <3>2
  <2>4. CASE h # Top(t).h
    <3>1. lock'[h] = lock[h]
      BY <2>4, <1>8
    <3>2. ASSUME lock[h] = u
          PROVE  \E d \in 1 .. depth'[u] : Holds(u, d)' /\ frame'[u][d].h = h
      <4>1. PICK d \in 1 .. depth[u] : Holds(u, d) /\ frame[u][d].h = h
        BY <3>2 DEF LockOwnerIsInside
      <4>2. ~(u = t /\ d = depth[t])
        BY <4>1, <2>4
      <4> QED
        BY <4>1, <4>2, <1>3, <1>5
    <3>3. ASSUME NEW d \in 1 .. depth'[u], Holds(u, d)', frame'[u][d].h = h
          PROVE  lock[h] = u
      BY <3>3, <2>0, <1>3, <1>5 DEF LockOwnerIsInside
    <3> QED
      BY <2>1, <2>2, <3>1, <3>2, <3>3
  <2> QED
    BY <2>3, <2>4
<1> QED
  BY <1>9 DEF LockOwnerIsInside
LEMMA GotoMoves ==
  ASSUME TypeOK, StackOk, NEW t \in Threads, Active(t), NEW pc \in Pcs, Goto(t, pc)
  PROVE  /\ Moves(t) /\ depth' = depth
         /\ Top(t)' \in Frames /\ Top(t)'.pc = pc
         /\ Top(t)'.op = Top(t).op /\ Top(t)'.h = Top(t).h /\ Top(t)'.opt = Top(t).opt
<1>1. depth[t] \in 1 .. MaxDepth /\ Top(t) \in Frames
  BY TopFrame
<1>2. /\ frame' \in [Threads -> [1 .. MaxDepth -> Frames \union {NoFrame}]]
      /\ StackOk' /\ OthersSame(t) /\ depth' = depth
      /\ Top(t)' = [Top(t) EXCEPT !.pc = pc] /\ Top(t)' \in Frames
  BY GotoStep
<1>3. Moves(t)
  BY <1>1, <1>2 DEF Moves, TypeOK, Frames
<1> QED
  BY <1>1, <1>2, <1>3 DEF Frames

LEMMA ReturnMoves ==
  ASSUME TypeOK, StackOk, NEW t \in Threads, Active(t), Return(t)
  PROVE  Moves(t) /\ depth'[t] = depth[t] - 1 /\ depth'[t] # depth[t]
  BY ReturnStep, BoundsNat DEF Moves, TypeOK

(* The objects change at most at the launcher whose lock t is under. *)
Guarded(t) ==
  \/ UNCHANGED objects
  \/ /\ Top(t).pc \in UnderLock
     /\ \A k \in Launchers : k # Top(t).h =>
          /\ entry'[k] = entry[k] /\ options'[k] = options[k]
          /\ state'[k] = state[k] /\ compileState'[k] = compileState[k]

(* What t does leaves what other frames know as it is. *)
LEMMA FramesStay ==
  ASSUME TypeOK, StackOk, LockOwnerIsInside, FramesOk, NEW t \in Threads, Active(t),
         Moves(t), Guarded(t), depth'[t] = depth[t] => FrameOk(Top(t))'
  PROVE  FramesOk'
<1>1. depth[t] \in 1 .. MaxDepth /\ Top(t) \in Frames
  BY TopFrame
<1> SUFFICES ASSUME NEW u \in Threads, NEW e \in 1 .. depth'[u]
             PROVE  FrameOk(frame[u][e])'
  BY DEF FramesOk
<1>2. depth[u] \in 0 .. MaxDepth /\ depth'[u] \in 0 .. MaxDepth /\ MaxDepth \in Nat
  BY BoundsNat DEF TypeOK, Moves
<1>3. CASE u = t /\ e = depth[t]
  <2>1. depth'[t] = depth[t]
    BY <1>1, <1>2, <1>3 DEF Moves
  <2> QED
    BY <2>1, <1>3
<1>4. CASE u # t \/ e # depth[t]
  <2>1. e \in 1 .. MaxDepth /\ frame'[u][e] = frame[u][e]
    BY <1>2, <1>4 DEF Moves, OthersSame
  <2>2. e \in 1 .. depth[u]
    BY <1>1, <1>2 DEF Moves
  <2>3. frame[u][e] \in Frames /\ FrameOk(frame[u][e])
    BY <2>1, <2>2 DEF StackOk, FramesOk
  <2>4. CASE frame[u][e].pc \notin UnderLock
    BY <2>1, <2>4 DEF FrameOk, UnderLock, Publishing
  <2>5. CASE UNCHANGED objects
    BY <2>1, <2>3, <2>5 DEF FrameOk, objects
  <2>6. CASE frame[u][e].pc \in UnderLock /\ ~UNCHANGED objects
    <3>1. Holds(u, e) /\ Holds(t, depth[t]) /\ depth[t] \in 1 .. depth[t]
      BY <1>1, <2>2, <2>6 DEF Holds, Guarded
    <3>2. frame[u][e].h # Top(t).h
      BY <1>1, <1>4, <2>2, <3>1, OneInside DEF Frames
    <3>3. frame[u][e].h \in Launchers
      BY <2>3 DEF Frames
    <3> QED
      BY <2>1, <2>3, <2>6, <3>2, <3>3 DEF FrameOk, Guarded
  <2> QED
    BY <2>4, <2>5, <2>6
<1> QED
  BY <1>3, <1>4

LEMMA WaitersStay ==
  ASSUME TypeOK, StackOk, WaitersCountNone, NEW t \in Threads, Active(t), Moves(t),
         \A u \in Threads : u # t => held'[u] = held[u],
         depth'[t] = depth[t] /\ Top(t)'.pc = "waiting" => held'[t] = 0
  PROVE  WaitersCountNone'
<1>1. depth[t] \in 1 .. MaxDepth
  BY TopFrame
<1> SUFFICES ASSUME NEW u \in Threads, NEW e \in 1 .. depth'[u], frame'[u][e].pc = "waiting"
             PROVE  held'[u] = 0
  BY DEF WaitersCountNone
<1>2. depth[u] \in 0 .. MaxDepth /\ depth'[u] \in 0 .. MaxDepth /\ MaxDepth \in Nat
  BY BoundsNat DEF TypeOK, Moves
<1>3. CASE u # t
  <2>1. frame'[u][e] = frame[u][e] /\ e \in 1 .. depth[u]
    BY <1>2, <1>3 DEF Moves, OthersSame
  <2> QED
    BY <1>3, <2>1 DEF WaitersCountNone
<1>4. CASE u = t /\ e = depth[t]
  BY <1>1, <1>2, <1>4 DEF Moves
<1>5. CASE u = t /\ e # depth[t]
  <2>1. frame'[u][e] = frame[u][e] /\ e \in 1 .. MaxDepth /\ e < depth[t]
    BY <1>1, <1>2, <1>5 DEF Moves, OthersSame
  <2>2. frame[u][e].pc = "delayed"
    BY <2>1, <1>5 DEF StackOk
  <2> QED
    BY <2>1, <2>2
<1> QED
  BY <1>3, <1>4, <1>5

(* Whoever publishes goes on publishing while t moves. *)
LEMMA PublishersStay ==
  ASSUME TypeOK, StackOk, FailedBuildLeavesNothing, NEW t \in Threads, Active(t), Moves(t),
         UNCHANGED <<entry, state>>,
         Top(t).pc \in Publishing => depth'[t] = depth[t] /\ Top(t)'.pc \in Publishing
  PROVE  FailedBuildLeavesNothing'
<1>1. depth[t] \in 1 .. MaxDepth
  BY TopFrame
<1> SUFFICES ASSUME NEW h \in Launchers, entry[h] = "shim", state[h] # NoOptions
             PROVE  \E u \in Threads : \E e \in 1 .. depth'[u] :
                      frame'[u][e].h = h /\ frame'[u][e].pc \in Publishing
  BY DEF FailedBuildLeavesNothing
<1>2. PICK u \in Threads : \E e \in 1 .. depth[u] :
             frame[u][e].h = h /\ frame[u][e].pc \in Publishing
  BY DEF FailedBuildLeavesNothing
<1>3. PICK e \in 1 .. depth[u] : frame[u][e].h = h /\ frame[u][e].pc \in Publishing
  BY <1>2
<1>4. depth[u] \in 0 .. MaxDepth /\ depth'[u] \in 0 .. MaxDepth /\ MaxDepth \in Nat
  BY BoundsNat DEF TypeOK, Moves
<1>5. CASE u # t
  <2>1. frame'[u][e] = frame[u][e] /\ e \in 1 .. depth'[u]
    BY <1>4, <1>5 DEF Moves, OthersSame
  <2> QED
    BY <1>3, <2>1
<1>6. CASE u = t
  <2>1. e = depth[t]
    BY <1>1, <1>3, <1>4, <1>6 DEF StackOk, Publishing
  <2>2. e \in 1 .. depth'[t] /\ frame'[t][e].h = h /\ frame'[t][e].pc \in Publishing
    BY <1>1, <1>3, <1>4, <1>6, <2>1 DEF Moves
  <2> QED
    BY <2>2
<1> QED
  BY <1>5, <1>6
-----------------------------------------------------------------------------
(* The part of the invariant about locks and stacks, by the kind of step *)

LockInv == /\ StackOk /\ LockOwnerIsInside /\ HeldCountsLocks /\ WaitersCountNone
           /\ lock \in [Launchers -> Threads \union {NoThread}]
           /\ buildThread \in [Launchers -> Threads \union {NoThread}]
           /\ held \in [Threads -> Nat]
           /\ frame \in [Threads -> [1 .. MaxDepth -> Frames \union {NoFrame}]]
           /\ depth \in [Threads -> 0 .. MaxDepth]

LEMMA HeldStays ==
  ASSUME HeldCountsLocks, UNCHANGED <<lock, held>>
  PROVE  HeldCountsLocks'
  BY DEF HeldCountsLocks

(* A frame that moves without entering or leaving a body. *)
LEMMA SameSide ==
  ASSUME IInv, NEW t \in Threads, Active(t), Moves(t), UNCHANGED locks,
         Top(t).pc \in UnderLock => depth'[t] = depth[t],
         depth'[t] = depth[t] => (Top(t)'.pc \in UnderLock <=> Top(t).pc \in UnderLock),
         depth'[t] = depth[t] /\ Top(t)'.pc = "waiting" => held[t] = 0
  PROVE  LockInv'
<1>1. depth[t] \in 1 .. MaxDepth /\ Top(t) \in Frames /\ MaxDepth \in Nat
  BY TopFrame, BoundsNat DEF IInv
<1>2. \A u \in Threads : depth[u] \in 0 .. MaxDepth /\ depth'[u] \in 0 .. MaxDepth
  BY DEF IInv, TypeOK, Moves
<1>3. ASSUME NEW u \in Threads, NEW e \in Int
      PROVE  (Holds(u, e)' <=> Holds(u, e)) /\ (Holds(u, e) => frame'[u][e].h = frame[u][e].h)
  <2>1. CASE u = t /\ e = depth[t]
    BY <1>1, <1>2, <2>1 DEF Holds, Moves
  <2>2. CASE u # t
    <3>1. \A d \in 1 .. MaxDepth : frame'[u][d] = frame[u][d]
      BY <2>2 DEF Moves, OthersSame
    <3>2. depth'[u] = depth[u]
      BY <2>2 DEF Moves
    <3> QED
      BY <1>1, <1>2, <3>1, <3>2 DEF Holds
  <2>3. CASE u = t /\ e # depth[t]
    <3>1. \A d \in 1 .. MaxDepth : d # depth[t] => frame'[t][d] = frame[t][d]
      BY DEF Moves, OthersSame
    <3>2. depth'[t] = depth[t] \/ depth'[t] = depth[t] - 1
      BY DEF Moves
    <3> QED
      BY <1>1, <1>2, <2>3, <3>1, <3>2 DEF Holds
  <2> QED
    BY <2>1, <2>2, <2>3
<1>4. LockOwnerIsInside'
  <2> HIDE DEF Holds
  <2> QED
    BY <1>1, <1>2, <1>3, InsideKept DEF IInv, locks
<1>5. WaitersCountNone'
  BY WaitersStay DEF IInv, locks
<1> QED
  BY <1>4, <1>5, HeldStays DEF LockInv, IInv, TypeOK, Moves, locks

LEMMA Entering ==
  ASSUME IInv, NEW t \in Threads, Active(t), Top(t).pc \notin UnderLock,
         Take(t, Top(t).h), Goto(t, "locked")
  PROVE  LockInv' /\ Moves(t) /\ depth' = depth /\ Top(t)'.pc = "locked"
<1>1. Top(t) \in Frames /\ Top(t).h \in Launchers
  BY TopFrame DEF IInv, Frames
<1>2. Moves(t) /\ depth' = depth /\ Top(t)'.pc = "locked"
  BY GotoMoves DEF IInv, Pcs, UnderLock
<1>3. LockOwnerIsInside'
  BY <1>2, InsideTaken DEF IInv
<1>4. HeldCountsLocks' /\ held' \in [Threads -> Nat]
  BY <1>1, TakeCounts DEF IInv
<1>5. WaitersCountNone'
  <2>1. \A u \in Threads : u # t => held'[u] = held[u]
    BY DEF Take, IInv, TypeOK
  <2> QED
    BY <1>2, <2>1, WaitersStay DEF IInv
<1>6. /\ lock' \in [Launchers -> Threads \union {NoThread}]
      /\ buildThread' \in [Launchers -> Threads \union {NoThread}]
  BY <1>1 DEF Take, IInv, TypeOK
<1> QED
  BY <1>2, <1>3, <1>4, <1>5, <1>6 DEF LockInv, Moves

LEMMA Leaving ==
  ASSUME IInv, NEW t \in Threads, Active(t), Top(t).pc \in UnderLock,
         Release(t, Top(t).h), Return(t) \/ Goto(t, "launch")
  PROVE  /\ LockInv' /\ Moves(t)
         /\ depth'[t] = depth[t] => Top(t)'.pc = "launch"
<1>1. Top(t) \in Frames /\ Top(t).h \in Launchers /\ depth[t] \in 1 .. MaxDepth
  BY TopFrame DEF IInv, Frames
<1>2. Moves(t) /\ (depth'[t] = depth[t] => Top(t)'.pc = "launch")
  BY GotoMoves, ReturnMoves DEF IInv, Pcs
<1>3. LockOwnerIsInside'
  BY <1>2, InsideReleased DEF IInv, UnderLock
<1>4. lock[Top(t).h] = t
  BY <1>1, BoundsNat DEF IInv, LockOwnerIsInside, Holds
<1>5. HeldCountsLocks' /\ held' \in [Threads -> Nat]
  BY <1>1, <1>4, ReleaseCounts DEF IInv
<1>6. WaitersCountNone'
  <2>1. \A u \in Threads : u # t => held'[u] = held[u]
    BY DEF Release, IInv, TypeOK
  <2> QED
    BY <1>2, <2>1, WaitersStay DEF IInv
<1>7. /\ lock' \in [Launchers -> Threads \union {NoThread}]
      /\ buildThread' \in [Launchers -> Threads \union {NoThread}]
  BY <1>1 DEF Release, IInv, TypeOK
<1> QED
  BY <1>2, <1>3, <1>5, <1>6, <1>7 DEF LockInv, Moves

-----------------------------------------------------------------------------
(* Every step keeps the invariant *)

(* Steps that change no object. *)
LEMMA QuietStep ==
  ASSUME IInv, NEW t \in Threads, Active(t), Moves(t), LockInv',
         UNCHANGED <<objects, edits>>, Top(t).pc \notin Publishing,
         depth'[t] = depth[t] => FrameOk(Top(t))'
  PROVE  IInv'
<1>1. FramesOk'
  BY FramesStay DEF IInv, Guarded
<1>2. FailedBuildLeavesNothing'
  BY PublishersStay DEF IInv, objects
<1>3. TypeOK' /\ EntryIsBacked'
  BY DEF IInv, TypeOK, LockInv, objects, EntryIsBacked
<1> QED
  BY <1>1, <1>2, <1>3 DEF IInv, LockInv
LEMMA BeginIInv ==
  ASSUME IInv, NEW t \in Threads, NEW op \in Ops, NEW h \in Launchers, Begin(t, op, h)
  PROVE  IInv'
<1> DEFINE new == [op |-> op, h |-> h, pc |-> "enter", opt |-> NoOptions]
<1>1. /\ depth[t] \in 0 .. MaxDepth - 1 /\ MaxDepth \in Nat
      /\ depth' \in [Threads -> 0 .. MaxDepth] /\ depth'[t] = depth[t] + 1
      /\ \A u \in Threads : u # t => depth'[u] = depth[u]
  BY BoundsNat DEF Begin, IInv, TypeOK
<1>2. new \in Frames /\ new.pc = "enter"
  BY DEF Frames, Pcs
<1>3. /\ frame' \in [Threads -> [1 .. MaxDepth -> Frames \union {NoFrame}]]
      /\ frame'[t][depth[t] + 1] = new
      /\ \A u \in Threads : \A e \in 1 .. MaxDepth :
           u # t \/ e # depth[t] + 1 => frame'[u][e] = frame[u][e]
  BY <1>1, <1>2 DEF Begin, IInv, TypeOK
<1>4. \A u \in Threads : depth[u] \in 0 .. MaxDepth /\ depth'[u] \in 0 .. MaxDepth
  BY <1>1 DEF IInv, TypeOK
<1> HIDE DEF new
<1>5. StackOk'
  <2> SUFFICES ASSUME NEW u \in Threads, NEW d \in 1 .. MaxDepth
               PROVE  /\ d <= depth'[u] => frame'[u][d] \in Frames
                      /\ d > depth'[u] => frame'[u][d] = NoFrame
                      /\ d < depth'[u] => frame'[u][d].pc = "delayed"
    BY DEF StackOk
  <2>1. CASE u = t /\ d = depth[t] + 1
    BY <1>1, <1>2, <1>3, <2>1
  <2>2. CASE u = t /\ d = depth[t]
    BY <1>1, <1>3, <2>2 DEF Begin, IInv, StackOk
  <2>3. CASE u # t
    BY <1>1, <1>3, <2>3 DEF IInv, StackOk
  <2>4. CASE u = t /\ d # depth[t] /\ d # depth[t] + 1
    <3>1. frame'[t][d] = frame[t][d]
      BY <1>3, <2>4
    <3> QED
      BY <1>1, <2>4, <3>1 DEF IInv, StackOk
  <2> QED
    BY <2>1, <2>2, <2>3, <2>4
<1>6. ASSUME NEW u \in Threads, NEW e \in Int
      PROVE  (Holds(u, e)' <=> Holds(u, e)) /\ (Holds(u, e) => frame'[u][e].h = frame[u][e].h)
  <2>1. CASE u = t /\ e = depth[t] + 1
    BY <1>1, <1>2, <1>3, <2>1 DEF Holds, UnderLock
  <2>2. CASE u # t \/ e # depth[t] + 1
    BY <1>1, <1>3, <1>4, <2>2 DEF Holds
  <2> QED
    BY <2>1, <2>2
<1>7. LockOwnerIsInside'
  <2> HIDE DEF Holds
  <2> QED
    BY <1>1, <1>4, <1>6, InsideKept DEF IInv, Begin, locks
<1>8. WaitersCountNone' /\ FramesOk'
  <2> SUFFICES ASSUME NEW u \in Threads, NEW e \in 1 .. depth'[u]
               PROVE  (frame[u][e].pc = "waiting" => held[u] = 0)' /\ FrameOk(frame[u][e])'
    BY DEF WaitersCountNone, FramesOk
  <2>1. CASE u = t /\ e = depth[t] + 1
    BY <1>2, <1>3, <2>1 DEF FrameOk, Publishing
  <2>2. CASE u # t \/ e # depth[t] + 1
    <3>1. e \in 1 .. depth[u] /\ frame'[u][e] = frame[u][e]
      BY <1>1, <1>3, <1>4, <2>2
    <3> QED
      BY <3>1 DEF Begin, IInv, WaitersCountNone, FramesOk, FrameOk, locks, objects
  <2> QED
    BY <2>1, <2>2
<1>9. FailedBuildLeavesNothing'
  <2> SUFFICES ASSUME NEW k \in Launchers, entry[k] = "shim", state[k] # NoOptions
               PROVE  \E u \in Threads : \E e \in 1 .. depth'[u] :
                        frame'[u][e].h = k /\ frame'[u][e].pc \in Publishing
    BY DEF FailedBuildLeavesNothing, Begin, objects
  <2>1. PICK u \in Threads : \E e \in 1 .. depth[u] :
               frame[u][e].h = k /\ frame[u][e].pc \in Publishing
    BY DEF IInv, FailedBuildLeavesNothing
  <2>2. PICK e \in 1 .. depth[u] : frame[u][e].h = k /\ frame[u][e].pc \in Publishing
    BY <2>1
  <2>3. e \in 1 .. depth'[u] /\ frame'[u][e] = frame[u][e]
    BY <1>1, <1>3, <1>4
  <2> QED
    BY <2>2, <2>3
<1>10. HeldCountsLocks' /\ EntryIsBacked'
  BY HeldStays DEF IInv, Begin, locks, objects, EntryIsBacked
<1> QED
  BY <1>1, <1>3, <1>5, <1>7, <1>8, <1>9, <1>10 DEF IInv, TypeOK, Begin, locks, objects

(* Steps outside any body. *)
LEMMA OutsideIInv ==
  ASSUME IInv, NEW t \in Threads,
         Enter(t) \/ LockRefused(t) \/ LockBusy(t) \/ Launch(t)
  PROVE  IInv'
<1>1. Active(t) /\ Top(t).pc \notin UnderLock /\ UNCHANGED <<locks, objects, edits>>
  BY DEF Enter, LockRefused, LockBusy, Launch, UnderLock
<1>2. \/ Return(t) \/ Goto(t, "lock") \/ Goto(t, "launch")
      \/ (Goto(t, "waiting") /\ held[t] = 0)
  BY TopFrame DEF Enter, LockRefused, LockBusy, Launch, MustRefuse, IInv, TypeOK
<1>3. /\ Moves(t)
      /\ depth'[t] = depth[t] => /\ Top(t)'.pc \in {"lock", "launch", "waiting"}
                                 /\ Top(t)'.pc = "waiting" => held[t] = 0
  BY <1>1, <1>2, GotoMoves, ReturnMoves DEF IInv, Pcs
<1>4. LockInv'
  BY <1>1, <1>3, SameSide DEF UnderLock
<1> QED
  BY <1>1, <1>3, <1>4, QuietStep DEF FrameOk, Publishing, UnderLock

LEMMA EnteringIInv ==
  ASSUME IInv, NEW t \in Threads, LockTaken(t) \/ LockGranted(t)
  PROVE  IInv'
<1>1. /\ Active(t) /\ Top(t).pc \notin UnderLock /\ UNCHANGED <<objects, edits>>
      /\ Take(t, Top(t).h) /\ Goto(t, "locked")
  BY DEF LockTaken, LockGranted, UnderLock
<1>2. LockInv' /\ Moves(t) /\ Top(t)'.pc = "locked"
  BY <1>1, Entering
<1> QED
  BY <1>1, <1>2, QuietStep DEF FrameOk, Publishing, UnderLock

(* Steps that leave a body and change no object. *)
LEMMA LeavingIInv ==
  ASSUME IInv, NEW t \in Threads,
         BodyNotNeeded(t) \/ BodyFails(t) \/ CheckPasses(t) \/ BuildUnlocks(t)
  PROVE  IInv'
<1>1. /\ Active(t) /\ Top(t).pc \in UnderLock \ Publishing /\ UNCHANGED <<objects, edits>>
      /\ Release(t, Top(t).h)
      /\ Return(t) \/ Goto(t, "launch")
  BY DEF BodyNotNeeded, BodyFails, CheckPasses, BuildUnlocks, UnderLock, Publishing
<1>2. LockInv' /\ Moves(t) /\ (depth'[t] = depth[t] => Top(t)'.pc = "launch")
  BY <1>1, Leaving
<1> QED
  BY <1>1, <1>2, QuietStep DEF FrameOk, Publishing, UnderLock
(* What is known where a body starts or goes on. *)
LEMMA BodyFacts ==
  ASSUME IInv, NEW t \in Threads, Active(t), Top(t).pc \in UnderLock
  PROVE  /\ Top(t) \in Frames /\ Top(t).h \in Launchers /\ depth[t] \in 1 .. MaxDepth
         /\ depth[t] \in 1 .. depth[t]
         /\ FrameOk(Top(t))
         /\ options[Top(t).h] \in Options \union {NoOptions}
         /\ Top(t).opt # NoOptions => Top(t).opt \in Options
  BY TopFrame, BoundsNat DEF IInv, FramesOk, Frames, TypeOK

LEMMA ReadingIInv ==
  ASSUME IInv, NEW t \in Threads, BodyReads(t) \/ DelayedReturns(t)
  PROVE  IInv'
<1>1. Active(t) /\ Top(t).pc \in {"locked", "delayed"}
  BY DEF BodyReads, DelayedReturns
<1>2. /\ Top(t) \in Frames /\ Top(t).h \in Launchers /\ depth[t] \in 1 .. MaxDepth
      /\ FrameOk(Top(t)) /\ options[Top(t).h] \in Options \union {NoOptions}
      /\ Top(t).opt # NoOptions => Top(t).opt \in Options
  BY <1>1, BodyFacts DEF UnderLock
<1>3. PICK pc \in {"delayed", "body"}, o \in Options :
        /\ frame' = [frame EXCEPT ![t][depth[t]] = [Top(t) EXCEPT !.pc = pc, !.opt = o]]
        /\ o.edits = options[Top(t).h].edits
        /\ pc = "body" /\ Top(t).op \in {"call", "resolve"} => ~o.delayed
        /\ options[Top(t).h] # NoOptions /\ entry[Top(t).h] = "shim"
  <2>1. CASE BodyReads(t)
    <3> DEFINE pc == IF Top(t).op # "edit" /\ options[Top(t).h].delayed THEN "delayed" ELSE "body"
    <3>1. frame' = [frame EXCEPT ![t][depth[t]] =
                      [Top(t) EXCEPT !.pc = pc, !.opt = options[Top(t).h]]]
      BY <1>2, <2>1 DEF BodyReads, IInv, TypeOK
    <3>2. options[Top(t).h] \in Options /\ entry[Top(t).h] = "shim"
      BY <1>2, <2>1 DEF BodyReads
    <3> QED
      BY <3>1, <3>2, NoOptionsNew
  <2>2. CASE DelayedReturns(t)
    <3>1. frame' = [frame EXCEPT ![t][depth[t]] =
                      [Top(t) EXCEPT !.pc = "body", !.opt = Resolved(Top(t).opt)]]
      BY <1>2, <2>2 DEF DelayedReturns, IInv, TypeOK
    <3>2. /\ Top(t).opt \in Options /\ entry[Top(t).h] = "shim"
          /\ Top(t).opt.edits = options[Top(t).h].edits /\ options[Top(t).h] # NoOptions
      BY <1>2, <2>2 DEF DelayedReturns, FrameOk
    <3>3. /\ Resolved(Top(t).opt) \in Options
          /\ Resolved(Top(t).opt).edits = Top(t).opt.edits
          /\ ~Resolved(Top(t).opt).delayed
      BY <3>2 DEF Resolved, Options
    <3> QED
      BY <3>1, <3>2, <3>3
  <2> QED
    BY <2>1, <2>2
<1> DEFINE new == [Top(t) EXCEPT !.pc = pc, !.opt = o]
<1>4. new \in Frames /\ new.pc = pc /\ new.opt = o /\ new.h = Top(t).h /\ new.op = Top(t).op
  BY <1>2 DEF Frames, Pcs, UnderLock
<1>5. depth' = depth /\ UNCHANGED <<locks, objects, edits>>
  BY DEF BodyReads, DelayedReturns
<1> HIDE DEF new
<1>6. /\ Top(t)' = new /\ OthersSame(t)
      /\ frame' \in [Threads -> [1 .. MaxDepth -> Frames \union {NoFrame}]]
  BY <1>2, <1>3, <1>4, <1>5 DEF IInv, TypeOK, OthersSame, new
<1>7. StackOk'
  <2>1. frame'[t][depth[t]] = new /\ depth' = depth /\ TypeOK /\ StackOk
    BY <1>5, <1>6 DEF IInv
  <2> QED
    <3> SUFFICES ASSUME NEW u \in Threads, NEW d \in 1 .. MaxDepth
                 PROVE  /\ d <= depth[u] => frame'[u][d] \in Frames
                        /\ d > depth[u] => frame'[u][d] = NoFrame
                        /\ d < depth[u] => frame'[u][d].pc = "delayed"
      BY <2>1 DEF StackOk
    <3>1. depth[u] \in 0 .. MaxDepth /\ MaxDepth \in Nat
      BY <2>1, BoundsNat DEF TypeOK
    <3>2. CASE u = t /\ d = depth[t]
      BY <2>1, <1>2, <1>4, <3>1, <3>2
    <3>3. CASE u # t \/ d # depth[t]
      BY <2>1, <1>6, <3>1, <3>3 DEF StackOk, OthersSame
    <3> QED
      BY <3>2, <3>3
<1>8. Moves(t)
  BY <1>4, <1>5, <1>6, <1>7 DEF Moves, IInv, TypeOK
<1>9. LockInv'
  BY <1>1, <1>4, <1>5, <1>6, <1>8, SameSide DEF UnderLock
<1>10. FrameOk(Top(t))'
  BY <1>3, <1>4, <1>5, <1>6, NoOptionsNew DEF FrameOk, Publishing, objects
<1> QED
  BY <1>1, <1>5, <1>8, <1>9, <1>10, QuietStep DEF Publishing

LEMMA EditIInv ==
  ASSUME IInv, NEW t \in Threads, EditStored(t)
  PROVE  IInv'
<1>1. /\ Active(t) /\ Top(t).pc = "body" /\ Release(t, Top(t).h) /\ Return(t)
      /\ UNCHANGED <<entry, state, compileState>>
  BY DEF EditStored
<1>2. /\ Top(t) \in Frames /\ Top(t).h \in Launchers /\ FrameOk(Top(t))
      /\ Top(t).opt # NoOptions => Top(t).opt \in Options
  BY <1>1, BodyFacts DEF UnderLock
<1>3. LockInv' /\ Moves(t) /\ depth'[t] # depth[t]
  BY <1>1, Leaving, ReturnMoves DEF UnderLock, IInv
<1>4. Top(t).opt \in Options /\ entry[Top(t).h] = "shim"
  BY <1>1, <1>2 DEF FrameOk
<1>5. PICK d \in BOOLEAN : options' = [options EXCEPT ![Top(t).h] = Edited(t, d)]
  BY DEF EditStored
<1>6. Edited(t, d) \in Options /\ edits' \in 0 .. MaxEdits
  BY <1>4, BoundsNat DEF Edited, Options, EditStored, IInv, TypeOK
<1>7. TypeOK'
  BY <1>1, <1>3, <1>5, <1>6 DEF TypeOK, IInv, LockInv
<1>8. FramesOk'
  BY <1>1, <1>2, <1>3, <1>5, FramesStay DEF Guarded, UnderLock, IInv, TypeOK
<1>9. FailedBuildLeavesNothing'
  BY <1>1, <1>3, PublishersStay DEF IInv, Publishing
<1>10. EntryIsBacked'
  BY <1>1, <1>2, <1>4, <1>5 DEF EntryIsBacked, IInv, TypeOK
<1> QED
  BY <1>3, <1>7, <1>8, <1>9, <1>10 DEF IInv, LockInv

(* The steps of a successful build, all by the thread inside the body. *)
LEMMA PublishingIInv ==
  ASSUME IInv, NEW t \in Threads,
         InitState(t) \/ StoreCompileState(t) \/ PublishOptions(t) \/ SwapEntry(t)
  PROVE  IInv'
<1> DEFINE h == Top(t).h
<1>1. /\ Active(t) /\ Top(t).pc \in {"body", "init", "publish", "swap"}
      /\ UNCHANGED <<locks, edits>>
  BY DEF InitState, StoreCompileState, PublishOptions, SwapEntry
<1>2. /\ Top(t) \in Frames /\ h \in Launchers /\ depth[t] \in 1 .. MaxDepth
      /\ depth[t] \in 1 .. depth[t]
      /\ FrameOk(Top(t)) /\ (Top(t).opt # NoOptions => Top(t).opt \in Options)
  BY <1>1, BodyFacts DEF UnderLock
<1>3. /\ Top(t).opt \in Options /\ entry[h] = "shim" /\ Top(t).op = "call"
      /\ ~Top(t).opt.delayed /\ options[h] # NoOptions
  BY <1>1, <1>2 DEF FrameOk, Publishing, InitState, StoreCompileState, PublishOptions, SwapEntry
<1>4. PICK pc \in {"init", "publish", "swap", "unlock"} :
        Goto(t, pc) /\ (pc = "unlock" <=> SwapEntry(t))
  BY DEF InitState, StoreCompileState, PublishOptions, SwapEntry
<1>5. /\ Moves(t) /\ depth' = depth /\ Top(t)' \in Frames /\ Top(t)'.pc = pc
      /\ Top(t)'.op = Top(t).op /\ Top(t)'.h = h /\ Top(t)'.opt = Top(t).opt
  BY <1>1, <1>4, GotoMoves DEF IInv, Pcs, UnderLock
<1>6. LockInv'
  BY <1>1, <1>5, SameSide DEF UnderLock
<1>7. /\ entry' \in [Launchers -> {"shim", "built"}]
      /\ options' \in [Launchers -> Options \union {NoOptions}]
      /\ state' \in [Launchers -> Options \union {NoOptions}]
      /\ compileState' \in [Launchers -> BOOLEAN]
  BY <1>2, <1>3 DEF InitState, StoreCompileState, PublishOptions, SwapEntry, IInv, TypeOK
<1>8. \A k \in Launchers : k # h =>
        /\ entry'[k] = entry[k] /\ options'[k] = options[k]
        /\ state'[k] = state[k] /\ compileState'[k] = compileState[k]
  BY <1>2 DEF InitState, StoreCompileState, PublishOptions, SwapEntry, IInv, TypeOK
<1>9. FrameOk(Top(t))'
  <2>1. CASE InitState(t)
    BY <1>2, <1>3, <1>5, <2>1, NoOptionsNew DEF InitState, FrameOk, Publishing, Goto, IInv, TypeOK
  <2>2. CASE StoreCompileState(t)
    BY <1>2, <1>3, <1>5, <2>2, NoOptionsNew DEF StoreCompileState, FrameOk, Publishing, Goto, IInv, TypeOK
  <2>3. CASE PublishOptions(t)
    BY <1>2, <1>3, <1>5, <2>3, NoOptionsNew DEF PublishOptions, FrameOk, Publishing, Goto, IInv, TypeOK
  <2>4. CASE SwapEntry(t)
    BY <1>2, <1>3, <1>4, <1>5, <2>4, NoOptionsNew DEF SwapEntry, FrameOk, Publishing, IInv, TypeOK
  <2> QED
    BY <2>1, <2>2, <2>3, <2>4
<1>10. FramesOk'
  BY <1>1, <1>5, <1>8, <1>9, FramesStay DEF Guarded, UnderLock, IInv
<1>11. EntryIsBacked'
  <2> SUFFICES ASSUME NEW k \in Launchers, entry'[k] = "built"
               PROVE  \/ options'[k] = NoOptions /\ state'[k] = NoOptions
                      \/ /\ options'[k] # NoOptions /\ ~options'[k].delayed /\ compileState'[k]
                         /\ state'[k] \in {options'[k], NoOptions}
    BY DEF EntryIsBacked
  <2>1. CASE k # h
    BY <1>8, <2>1 DEF IInv, EntryIsBacked
  <2>2. CASE k = h
    <3>1. SwapEntry(t)
      BY <1>2, <1>3, <2>2 DEF InitState, StoreCompileState, PublishOptions, IInv, TypeOK
    <3> QED
      BY <1>2, <1>3, <2>2, <3>1 DEF SwapEntry, FrameOk, Publishing
  <2> QED
    BY <2>1, <2>2
<1>12. FailedBuildLeavesNothing'
  <2> SUFFICES ASSUME NEW k \in Launchers, entry'[k] = "shim", state'[k] # NoOptions
               PROVE  \E u \in Threads : \E e \in 1 .. depth'[u] :
                        frame'[u][e].h = k /\ frame'[u][e].pc \in Publishing
    BY DEF FailedBuildLeavesNothing
  <2>1. CASE k = h
    <3>1. ~SwapEntry(t)
      BY <1>2, <2>1 DEF SwapEntry, IInv, TypeOK
    <3>2. frame'[t][depth[t]].h = k /\ frame'[t][depth[t]].pc \in Publishing
      BY <1>4, <1>5, <2>1, <3>1 DEF Publishing
    <3> QED
      BY <1>2, <1>5, <3>2
  <2>2. CASE k # h
    <3>1. PICK u \in Threads : \E e \in 1 .. depth[u] :
                 frame[u][e].h = k /\ frame[u][e].pc \in Publishing
      BY <1>8, <2>2 DEF IInv, FailedBuildLeavesNothing
    <3>2. PICK e \in 1 .. depth[u] : frame[u][e].h = k /\ frame[u][e].pc \in Publishing
      BY <3>1
    <3>3. e \in 1 .. MaxDepth
      BY BoundsNat DEF IInv, TypeOK
    <3>4. frame'[u][e] = frame[u][e]
      BY <2>2, <3>2, <3>3, <1>5 DEF Moves, OthersSame
    <3> QED
      BY <1>5, <3>2, <3>4
  <2> QED
    BY <2>1, <2>2
<1>13. TypeOK'
  BY <1>1, <1>6, <1>7 DEF TypeOK, IInv, LockInv
<1> QED
  BY <1>6, <1>10, <1>11, <1>12, <1>13 DEF IInv, LockInv
(* The garbage collector's steps, on a launcher no thread is inside of. *)
LEMMA ClearIInv ==
  ASSUME IInv, NEW h \in Launchers, ClearState(h) \/ ClearRest(h)
  PROVE  IInv'
<1>1. /\ UNCHANGED <<locks, stacks, edits, entry>>
      /\ \A k \in Launchers : k # h =>
           /\ options'[k] = options[k] /\ state'[k] = state[k]
           /\ compileState'[k] = compileState[k]
      /\ state'[h] = NoOptions
  BY DEF ClearState, ClearRest, IInv, TypeOK
<1>2. \A t \in Threads : \A d \in 1 .. depth[t] :
        frame[t][d].h # h /\ frame[t][d].h \in Launchers
  <2> SUFFICES ASSUME NEW t \in Threads, NEW d \in 1 .. depth[t]
               PROVE  frame[t][d].h # h /\ frame[t][d].h \in Launchers
    OBVIOUS
  <2>1. d \in 1 .. MaxDepth /\ d <= depth[t]
    BY BoundsNat DEF IInv, TypeOK
  <2>2. frame[t][d] \in Frames
    BY <2>1 DEF IInv, StackOk
  <2> QED
    BY <2>2 DEF ClearState, ClearRest, InUse, Frames
<1>3. TypeOK'
  BY <1>1 DEF ClearState, ClearRest, IInv, TypeOK, locks, stacks
<1>4. StackOk' /\ LockOwnerIsInside' /\ HeldCountsLocks' /\ WaitersCountNone'
  BY <1>1, HeldStays DEF IInv, StackOk, LockOwnerIsInside, Holds, WaitersCountNone, locks, stacks
<1>5. FramesOk'
  <2> SUFFICES ASSUME NEW t \in Threads, NEW d \in 1 .. depth[t]
               PROVE  FrameOk(frame[t][d])'
    BY <1>1 DEF FramesOk, stacks
  <2>1. FrameOk(frame[t][d]) /\ frame'[t][d] = frame[t][d]
    BY <1>1 DEF IInv, FramesOk, stacks
  <2> QED
    BY <2>1, <1>1, <1>2 DEF FrameOk
<1>6. EntryIsBacked'
  BY <1>1 DEF IInv, EntryIsBacked, ClearState, ClearRest, TypeOK
<1>7. FailedBuildLeavesNothing'
  BY <1>1 DEF IInv, FailedBuildLeavesNothing, stacks
<1> QED
  BY <1>3, <1>4, <1>5, <1>6, <1>7 DEF IInv

LEMMA StutterIInv == IInv /\ UNCHANGED vars => IInv'
<1> SUFFICES ASSUME IInv, UNCHANGED vars PROVE IInv'
  OBVIOUS
<1>1. TypeOK' /\ StackOk' /\ LockOwnerIsInside' /\ HeldCountsLocks' /\ WaitersCountNone'
  BY HeldStays DEF vars, locks, stacks, objects, IInv, TypeOK, StackOk, LockOwnerIsInside, Holds,
     WaitersCountNone
<1>2. FramesOk' /\ EntryIsBacked' /\ FailedBuildLeavesNothing'
  BY DEF vars, stacks, objects, IInv, FramesOk, FrameOk, EntryIsBacked, FailedBuildLeavesNothing
<1> QED
  BY <1>1, <1>2 DEF IInv

LEMMA NextIInv == IInv /\ [Next]_vars => IInv'
<1> SUFFICES ASSUME IInv, [Next]_vars PROVE IInv'
  OBVIOUS
<1>1. ASSUME NEW t \in Threads, NEW op \in Ops, NEW h \in Launchers, Begin(t, op, h) PROVE IInv'
  BY <1>1, BeginIInv
<1>2. ASSUME NEW t \in Threads,
             OwnStep(t) \/ LockGranted(t) \/ DelayedReturns(t) \/ BodyFails(t)
      PROVE  IInv'
  BY <1>2, OutsideIInv, EnteringIInv, LeavingIInv, ReadingIInv, EditIInv, PublishingIInv
     DEF OwnStep, LockStep, BodyStep, BuildStep
<1>3. ASSUME NEW h \in Launchers, ClearState(h) \/ ClearRest(h) PROVE IInv'
  BY <1>3, ClearIInv
<1>4. CASE UNCHANGED vars
  BY <1>4, StutterIInv
<1> QED
  BY <1>1, <1>2, <1>3, <1>4 DEF Next

-----------------------------------------------------------------------------
(* The inductive invariant holds of every reachable state. *)
THEOREM Invariance == Spec => []IInv
  BY InitIInv, NextIInv, PTL DEF Spec

(* The variables keep their types. *)
THEOREM TypeCorrect == Spec => []TypeOK
  BY Invariance, PTL DEF IInv

(* At most one frame of one thread is in a launcher's body, and it is the  *)
(* lock's owner: no two builds, and no build and edit, of one launcher     *)
(* overlap.                                                                *)
THEOREM BuildsExclude == Spec => [](LockOwnerIsInside /\ HeldCountsLocks)
  BY Invariance, PTL DEF IInv

(* A thread that waits for a build lock owns none. *)
THEOREM NoWaitCycle == Spec => []WaitersHoldNothing
<1>1. IInv => WaitersHoldNothing
  <2> SUFFICES ASSUME IInv, NEW t \in Threads, At(t, "waiting"), NEW h \in Launchers, lock[h] = t
               PROVE  FALSE
    BY DEF WaitersHoldNothing
  <2>1. held[t] = 0
    BY TopFrame, BoundsNat DEF IInv, WaitersCountNone
  <2>2. h \in {k \in Launchers : lock[k] = t} /\ IsFiniteSet({k \in Launchers : lock[k] = t})
    BY LaunchersFinite, FS_Subset
  <2>3. Cardinality({k \in Launchers : lock[k] = t}) # 0
    BY <2>2, FS_EmptySet
  <2> QED
    BY <2>1, <2>3 DEF IInv, HeldCountsLocks
<1> QED
  BY <1>1, Invariance, PTL

(* The swapped entry finds the state, the compile state and the resolved   *)
(* options it was built from, until the garbage collector takes them.      *)
THEOREM EntryBacked == Spec => []EntryIsBacked
  BY Invariance, PTL DEF IInv

(* A failed build leaves no state behind to refuse the next one. *)
THEOREM RetryNotRefused == Spec => []FailedBuildLeavesNothing
  BY Invariance, PTL DEF IInv
-----------------------------------------------------------------------------
(* A launcher lives as LauncherLife says *)


LEMMA LifeInit == Init => Life!Init
<1> SUFFICES ASSUME Init PROVE Life!Init
  OBVIOUS
<1>1. \A d \in BOOLEAN : [edits |-> {}, delayed |-> d] \in {o \in Life!Options : o.edits = {}}
  BY DEF Life!Options
<1> QED
  BY <1>1 DEF Init, Life!Init

LEMMA LifeStep == IInv /\ [Next]_vars => [Life!Next]_(Life!vars)
<1> SUFFICES ASSUME IInv, [Next]_vars PROVE [Life!Next]_(Life!vars)
  OBVIOUS
<1>1. ASSUME UNCHANGED objects PROVE UNCHANGED Life!vars
  BY <1>1 DEF objects, Life!vars
<1>2. ASSUME NEW t \in Threads, EditStored(t) PROVE Life!Next
  <2> DEFINE h == Top(t).h
  <2>1. Top(t) \in Frames /\ h \in Launchers /\ FrameOk(Top(t)) /\ Top(t).pc = "body"
    BY <1>2, BodyFacts DEF EditStored, UnderLock
  <2>2. /\ entry[h] = "shim" /\ options[h] # NoOptions
        /\ Top(t).opt \in Options /\ Top(t).opt.edits = options[h].edits
    BY <1>2, <2>1, BodyFacts DEF FrameOk, EditStored, UnderLock
  <2>3. PICK d \in BOOLEAN : options' = [options EXCEPT ![h] = Edited(t, d)]
    BY <1>2 DEF EditStored
  <2>4. Edited(t, d) \in Life!Options /\ options[h].edits \subseteq Edited(t, d).edits
    BY <1>2, <2>2, BoundsNat DEF Edited, Options, Life!Options, EditStored, IInv, TypeOK
  <2>5. UNCHANGED <<entry, state>>
    BY <1>2 DEF EditStored
  <2>6. Life!Edit(h)
    BY <2>1, <2>2, <2>3, <2>4, <2>5 DEF Life!Edit
  <2> QED
    BY <2>1, <2>6 DEF Life!Next
<1>3. ASSUME NEW t \in Threads, PublishOptions(t) PROVE Life!Next
  <2> DEFINE h == Top(t).h
  <2>1. Top(t) \in Frames /\ h \in Launchers /\ FrameOk(Top(t)) /\ Top(t).pc = "publish"
    BY <1>3, BodyFacts DEF PublishOptions, UnderLock
  <2>2. /\ entry[h] = "shim" /\ options[h] # NoOptions
        /\ Top(t).opt \in Options /\ Top(t).opt.edits = options[h].edits
    BY <1>3, <2>1, BodyFacts DEF FrameOk, PublishOptions, UnderLock, Publishing
  <2>3. /\ options' = [options EXCEPT ![h] = Top(t).opt]
        /\ UNCHANGED <<entry, state>>
    BY <1>3 DEF PublishOptions
  <2>4. Top(t).opt \in Life!Options
    BY <2>2 DEF Options, Life!Options
  <2>5. Life!Edit(h)
    BY <2>1, <2>2, <2>3, <2>4 DEF Life!Edit
  <2> QED
    BY <2>1, <2>5 DEF Life!Next
<1>4. ASSUME NEW t \in Threads, SwapEntry(t) PROVE Life!Next
  <2>1. Top(t).h \in Launchers /\ FrameOk(Top(t)) /\ Top(t).pc = "swap"
    BY <1>4, BodyFacts DEF SwapEntry, UnderLock
  <2>2. PICK h \in Launchers : h = Top(t).h
    BY <2>1
  <2>3. /\ entry[h] = "shim" /\ options[h] # NoOptions /\ ~options[h].delayed
        /\ state[h] = options[h]
    BY <2>1, <2>2 DEF FrameOk, Publishing
  <2>4. entry' = [entry EXCEPT ![h] = "built"] /\ UNCHANGED <<options, state>>
    BY <1>4, <2>2 DEF SwapEntry
  <2>5. Life!Build(h)
    BY <2>3, <2>4 DEF Life!Build, IInv, TypeOK
  <2> QED
    BY <2>5 DEF Life!Next
<1>5. ASSUME NEW h \in Launchers, ClearState(h) \/ ClearRest(h) PROVE Life!Next
  <2>1. entry' = entry /\ state \in [Launchers -> Options \union {NoOptions}]
    BY <1>5 DEF ClearState, ClearRest, IInv, TypeOK
  <2>2. ASSUME ClearState(h) PROVE Life!Collect(h)
    <3> DEFINE kernel == [k \in Launchers |-> IF entry[k] = "built" THEN state[k] ELSE NoOptions]
    <3>1. kernel' = [kernel EXCEPT ![h] = NoOptions] /\ UNCHANGED options
      BY <2>1, <2>2 DEF ClearState
    <3> QED
      BY <2>1, <3>1 DEF Life!Collect
  <2>3. ASSUME ClearRest(h) PROVE Life!Collect(h)
    <3>1. UNCHANGED state /\ state[h] = NoOptions /\ options' = [options EXCEPT ![h] = NoOptions]
      BY <2>3 DEF ClearRest
    <3> QED
      BY <2>1, <3>1 DEF Life!Collect
  <2>4. Life!Collect(h)
    BY <1>5, <2>2, <2>3
  <2> QED
    BY <2>4 DEF Life!Next
<1>6. ASSUME NEW t \in Threads, InitState(t) PROVE UNCHANGED Life!vars
  <2>1. Top(t).h \in Launchers /\ entry[Top(t).h] = "shim"
    BY <1>6, BodyFacts DEF InitState, UnderLock, FrameOk
  <2> QED
    BY <1>6, <2>1 DEF InitState, Life!vars, IInv, TypeOK
<1>7. ASSUME NEW t \in Threads, StoreCompileState(t) PROVE UNCHANGED Life!vars
  BY <1>7 DEF StoreCompileState, Life!vars
<1>8. ASSUME NEW t \in Threads,
             Enter(t) \/ LockStep(t) \/ BodyNotNeeded(t) \/ BodyReads(t) \/ CheckPasses(t)
               \/ BuildUnlocks(t) \/ Launch(t) \/ LockGranted(t) \/ DelayedReturns(t) \/ BodyFails(t)
      PROVE  UNCHANGED objects
  BY <1>8 DEF Enter, LockStep, LockRefused, LockTaken, LockBusy, BodyNotNeeded, BodyReads, CheckPasses,
       BuildUnlocks, Launch, LockGranted, DelayedReturns, BodyFails
<1>9. ASSUME NEW t \in Threads, NEW op \in Ops, NEW h \in Launchers, Begin(t, op, h)
      PROVE  UNCHANGED objects
  BY <1>9 DEF Begin
<1>10. CASE UNCHANGED vars
  BY <1>1, <1>10 DEF vars
<1> QED
  BY <1>1, <1>2, <1>3, <1>4, <1>5, <1>6, <1>7, <1>8, <1>9, <1>10
     DEF Next, OwnStep, BodyStep, BuildStep

(* No edit is lost to another edit or to a build, a launcher is built once *)
(* and from the options it then shows, and these never change afterwards.  *)
THEOREM LauncherImplementsLife == Spec => LauncherLives
<1> USE LifeInit, LifeStep, Invariance
<1> QED
  BY PTL DEF Spec, LauncherLives, Life!Spec
=============================================================================
