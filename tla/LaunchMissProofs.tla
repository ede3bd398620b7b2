--------------------------- MODULE LaunchMissProofs ---------------------------
(***************************************************************************)
(* Proofs about LaunchMiss, for any threads, keys, inputs and depths.      *)
(***************************************************************************)
EXTENDS LaunchMissProps, FiniteSetTheorems, TLAPS

Pcs   == {"walk", "launch", "check", "lock", "load", "fill", "rewalk"}
Calls == [key : SpecKeys, src : Sources, pc : Pcs, kernel : Nat]

(* Types of the state. *)
TypeOK ==
  /\ returnCompiled \in BOOLEAN
  /\ device \in [Threads -> Devices] /\ knob \in Knobs
  /\ cache \in [SpecKeys -> Nat]
  /\ seen \in [SpecKeys -> Sources \cup {NoSource}]
  /\ compiled \in [Binaries -> Nat]
  /\ kernels \in Seq(Binaries)
  /\ owner \in Threads \cup {NoThread} /\ count \in Nat
  /\ stack \in [Threads -> Seq(Calls)]

(* Every call but the innermost is inside its compile, so a thread has the *)
(* compiler's lock as often as its stack is deep, or once less.            *)
Nested == \A t \in Threads : \A i \in 1 .. Len(stack[t]) - 1 : stack[t][i].pc = "load"
Loads(t) ==
  IF stack[t] = <<>> THEN 0
  ELSE IF Top(t).pc = "load" THEN Len(stack[t]) ELSE Len(stack[t]) - 1
LockCounted ==
  /\ owner = NoThread <=> count = 0
  /\ \A t \in Threads : Loads(t) = IF owner = t THEN count ELSE 0

(* Kernel n was loaded, and from b. *)
Is(n, b) == n \in 1 .. Len(kernels) /\ kernels[n] = b

(* A key's record is of the key's device and knob and of the input seen.   *)
CacheRight ==
  \A k \in SpecKeys : cache[k] # NoKernel =>
    /\ seen[k] # NoSource /\ Is(cache[k], [src |-> seen[k], dev |-> k.dev, knob |-> k.knob])
    /\ ~returnCompiled => cache[k] \in Range1(compiled)
CompiledRight == \A b \in Binaries : compiled[b] # NoKernel => Is(compiled[b], b)
SeenRight == \A k \in SpecKeys : seen[k] # NoSource => seen[k] \in SourcesOf(k.part)

(* What a call knows at its place: from its check to its fill its knob     *)
(* value is live and its device current.                                   *)
Knows(t, c) ==
  /\ c.src \in SourcesOf(c.key.part)
  /\ c.pc \in {"lock", "load", "fill"} =>
       c.key.dev = device[t] /\ c.key.knob = knob /\ seen[c.key] = c.src
  /\ c.pc = "fill" =>
       /\ Is(c.kernel, [src |-> c.src, dev |-> c.key.dev, knob |-> c.key.knob])
       /\ ~returnCompiled => c.kernel \in Range1(compiled)
  /\ c.pc \in {"rewalk", "launch"} => cache[c.key] # NoKernel
  /\ c.pc = "launch" => c.kernel = cache[c.key]
CallsKnow == \A t \in Threads : \A i \in 1 .. Len(stack[t]) : Knows(t, stack[t][i])

IInv ==
  /\ TypeOK /\ Nested /\ LockCounted
  /\ CacheRight /\ CompiledRight /\ SeenRight /\ CallsKnow

-----------------------------------------------------------------------------
(* What a step of thread t does to the stacks.                             *)

Others(t) == \A u \in Threads \ {t} : stack'[u] = stack[u]
Below(t, n) == \A i \in 1 .. n : stack'[t][i] = stack[t][i]

Replaces(t, c) ==
  /\ Others(t) /\ Active(t)
  /\ Len(stack'[t]) = Len(stack[t]) /\ stack'[t][Len(stack[t])] = c
  /\ Below(t, Len(stack[t]) - 1)
Pops(t) ==
  /\ Others(t) /\ Active(t)
  /\ Len(stack'[t]) = Len(stack[t]) - 1 /\ Below(t, Len(stack[t]) - 1)
Pushes(t, c) ==
  /\ Others(t)
  /\ Active(t) => Top(t).pc = "load"
  /\ Len(stack'[t]) = Len(stack[t]) + 1 /\ stack'[t][Len(stack[t]) + 1] = c
  /\ Below(t, Len(stack[t]))

LEMMA TopTyped ==
  ASSUME TypeOK, NEW t \in Threads, Active(t)
  PROVE  Len(stack[t]) \in Nat \ {0} /\ Top(t) \in Calls
  BY DEF TypeOK, Active, Top

LEMMA Replaced ==
  ASSUME TypeOK, NEW t \in Threads, Active(t), NEW c \in Calls,
         stack' = [stack EXCEPT ![t] = [@ EXCEPT ![Len(stack[t])] = c]]
  PROVE  stack' \in [Threads -> Seq(Calls)] /\ Replaces(t, c)
  <1> DEFINE n == Len(stack[t])
             new == [stack[t] EXCEPT ![n] = c]
  <1>1. stack[t] \in Seq(Calls) /\ n \in Nat \ {0}
    BY TopTyped DEF TypeOK
  <1>2. /\ new \in Seq(Calls) /\ Len(new) = n /\ new[n] = c
        /\ \A i \in 1 .. n - 1 : new[i] = stack[t][i]
    BY <1>1
  <1>3. stack' = [stack EXCEPT ![t] = new]
    OBVIOUS
  <1> HIDE DEF new
  <1>4. QED
    BY <1>1, <1>2, <1>3 DEF TypeOK, Replaces, Others, Below

LEMMA GotWithReplaces ==
  ASSUME TypeOK, NEW t \in Threads, Active(t), NEW pc \in Pcs, NEW n \in Nat, GotWith(t, pc, n)
  PROVE  /\ stack' \in [Threads -> Seq(Calls)]
         /\ Replaces(t, [Top(t) EXCEPT !.pc = pc, !.kernel = n])
  <1> DEFINE c == [Top(t) EXCEPT !.pc = pc, !.kernel = n]
  <1>1. c \in Calls
    BY TopTyped DEF Calls
  <1>2. stack' = [stack EXCEPT ![t] = [@ EXCEPT ![Len(stack[t])] = c]]
    BY TopTyped DEF TypeOK, GotWith, Top, Calls
  <1>3. QED
    BY <1>1, <1>2, Replaced

LEMMA GotoReplaces ==
  ASSUME TypeOK, NEW t \in Threads, Active(t), NEW pc \in Pcs, Goto(t, pc)
  PROVE  /\ stack' \in [Threads -> Seq(Calls)]
         /\ Replaces(t, [Top(t) EXCEPT !.pc = pc])
  <1> DEFINE c == [Top(t) EXCEPT !.pc = pc]
  <1>1. c \in Calls
    BY TopTyped DEF Calls
  <1>2. stack' = [stack EXCEPT ![t] = [@ EXCEPT ![Len(stack[t])] = c]]
    BY TopTyped DEF TypeOK, Goto, Top, Calls
  <1>3. QED
    BY <1>1, <1>2, Replaced

LEMMA ReturnPops ==
  ASSUME TypeOK, NEW t \in Threads, Active(t), Return(t)
  PROVE  stack' \in [Threads -> Seq(Calls)] /\ Pops(t)
  <1> DEFINE n == Len(stack[t])
             new == SubSeq(stack[t], 1, n - 1)
  <1>1. stack[t] \in Seq(Calls) /\ n \in Nat \ {0}
    BY TopTyped DEF TypeOK
  <1>2. /\ new \in Seq(Calls) /\ Len(new) = n - 1
        /\ \A i \in 1 .. n - 1 : new[i] = stack[t][i]
    BY <1>1
  <1>3. stack' = [stack EXCEPT ![t] = new]
    BY DEF Return
  <1> HIDE DEF new
  <1>4. QED
    BY <1>1, <1>2, <1>3 DEF TypeOK, Pops, Others, Below

LEMMA CallPushes ==
  ASSUME TypeOK, NEW t \in Threads, NEW k \in SpecKeys, NEW src \in Sources, Call(t, k, src)
  PROVE  /\ stack' \in [Threads -> Seq(Calls)]
         /\ Pushes(t, [key |-> k, src |-> src, pc |-> "walk", kernel |-> NoKernel])
  <1> DEFINE c == [key |-> k, src |-> src, pc |-> "walk", kernel |-> NoKernel]
             n == Len(stack[t])
             new == Append(stack[t], c)
  <1>0. c \in Calls
    BY DEF Calls, Pcs, NoKernel
  <1>1. stack[t] \in Seq(Calls) /\ n \in Nat
    BY DEF TypeOK
  <1> HIDE DEF c
  <1>2. /\ new \in Seq(Calls) /\ Len(new) = n + 1 /\ new[n + 1] = c
        /\ \A i \in 1 .. n : new[i] = stack[t][i]
    BY <1>0, <1>1
  <1>3. stack' = [stack EXCEPT ![t] = new] /\ (Active(t) => Top(t).pc = "load")
    BY DEF Call, c
  <1> HIDE DEF new
  <1>4. QED
    BY <1>1, <1>2, <1>3 DEF TypeOK, Pushes, Others, Below, c

-----------------------------------------------------------------------------
(* What a step leaves as it is: what is stored stays, and the devices and  *)
(* the knob do.                                                            *)
Grows ==
  /\ UNCHANGED ambient
  /\ \A k \in SpecKeys : cache[k] # NoKernel => cache'[k] = cache[k]
  /\ \A k \in SpecKeys : seen[k] # NoSource => seen'[k] = seen[k]
  /\ Len(kernels') >= Len(kernels) /\ \A n \in 1 .. Len(kernels) : kernels'[n] = kernels[n]
  /\ ~returnCompiled => \A b \in Binaries : compiled[b] # NoKernel => compiled'[b] = compiled[b]

(* The kernels that _compiled keeps stay there. *)
LEMMA CompiledStays ==
  ASSUME TypeOK, TypeOK', Grows, ~returnCompiled, NEW n \in Range1(compiled), n # NoKernel
  PROVE  n \in Range1(compiled')
  BY DEF TypeOK, Grows, Range1

LEMMA IsStays ==
  ASSUME TypeOK, TypeOK', Grows, NEW n, NEW b, Is(n, b)
  PROVE  Is(n, b)'
  <1>1. Len(kernels) \in Nat /\ Len(kernels') \in Nat
    BY DEF TypeOK
  <1>2. n \in 1 .. Len(kernels')
    BY <1>1 DEF Grows, Is
  <1>3. QED
    BY <1>2 DEF Grows, Is

(* What a call knows stays true while it does not move. *)
LEMMA KnowsStays ==
  ASSUME TypeOK, TypeOK', Grows, NEW t \in Threads, NEW c \in Calls, Knows(t, c)
  PROVE  Knows(t, c)'
  <1>1. /\ c.key \in SpecKeys /\ c.src \in Sources /\ c.src # NoSource
    BY NoSourceNew DEF Calls
  <1>2. c.pc \in {"lock", "load", "fill"} =>
          c.key.dev = device'[t] /\ c.key.knob = knob' /\ seen'[c.key] = c.src
    BY <1>1 DEF Knows, Grows, ambient
  <1>3. c.pc = "fill" =>
          /\ Is(c.kernel, [src |-> c.src, dev |-> c.key.dev, knob |-> c.key.knob])'
          /\ ~returnCompiled' => c.kernel \in Range1(compiled')
    <2> SUFFICES ASSUME c.pc = "fill"
                 PROVE  /\ Is(c.kernel, [src |-> c.src, dev |-> c.key.dev, knob |-> c.key.knob])'
                        /\ ~returnCompiled' => c.kernel \in Range1(compiled')
      OBVIOUS
    <2>1. Is(c.kernel, [src |-> c.src, dev |-> c.key.dev, knob |-> c.key.knob])
      BY DEF Knows
    <2>2. c.kernel # NoKernel
      BY <2>1 DEF Is, NoKernel
    <2>3. QED
      BY <2>1, <2>2, IsStays, CompiledStays DEF Knows, Grows, ambient
  <1>4. (c.pc \in {"rewalk", "launch"} => cache'[c.key] # NoKernel)
        /\ (c.pc = "launch" => c.kernel = cache'[c.key])
    BY <1>1 DEF Knows, Grows
  <1>5. QED
    BY <1>2, <1>3, <1>4 DEF Knows

(* The stacks after a step of each of the three kinds. *)
LEMMA ReplaceCalls ==
  ASSUME IInv, TypeOK', Grows, NEW t \in Threads, NEW c \in Calls, Replaces(t, c), Knows(t, c)'
  PROVE  Nested' /\ CallsKnow'
  <1>0. \A u \in Threads : stack[u] \in Seq(Calls) /\ Len(stack[u]) \in Nat
    BY DEF IInv, TypeOK
  <1>1. Len(stack[t]) \in Nat \ {0}
    BY TopTyped DEF IInv, Replaces
  <1>2. Nested'
    BY <1>0, <1>1 DEF IInv, Nested, Replaces, Others, Below
  <1>3. ASSUME NEW u \in Threads, NEW i \in 1 .. Len(stack'[u]) PROVE Knows(u, stack[u][i])'
    <2>1. CASE u = t /\ i = Len(stack[t])
      BY <2>1 DEF Replaces
    <2>2. CASE ~(u = t /\ i = Len(stack[t]))
      <3>1. i \in 1 .. Len(stack[u]) /\ stack'[u][i] = stack[u][i] /\ stack[u][i] \in Calls
        BY <1>0, <1>1, <2>2 DEF Replaces, Others, Below
      <3>2. QED
        BY <3>1, KnowsStays DEF IInv, CallsKnow
    <2>3. QED
      BY <2>1, <2>2
  <1>4. QED
    BY <1>2, <1>3 DEF CallsKnow

LEMMA PopCalls ==
  ASSUME IInv, TypeOK', Grows, NEW t \in Threads, Pops(t)
  PROVE  Nested' /\ CallsKnow'
  <1>0. \A u \in Threads : stack[u] \in Seq(Calls) /\ Len(stack[u]) \in Nat
    BY DEF IInv, TypeOK
  <1>1. Len(stack[t]) \in Nat \ {0}
    BY TopTyped DEF IInv, Pops
  <1>2. Nested'
    BY <1>0, <1>1 DEF IInv, Nested, Pops, Others, Below
  <1>3. ASSUME NEW u \in Threads, NEW i \in 1 .. Len(stack'[u]) PROVE Knows(u, stack[u][i])'
    <2>1. i \in 1 .. Len(stack[u]) /\ stack'[u][i] = stack[u][i] /\ stack[u][i] \in Calls
      BY <1>0, <1>1 DEF Pops, Others, Below
    <2>2. QED
      BY <2>1, KnowsStays DEF IInv, CallsKnow
  <1>4. QED
    BY <1>2, <1>3 DEF CallsKnow

LEMMA PushCalls ==
  ASSUME IInv, TypeOK', Grows, NEW t \in Threads, NEW c \in Calls, Pushes(t, c), Knows(t, c)'
  PROVE  Nested' /\ CallsKnow'
  <1>0. \A u \in Threads : stack[u] \in Seq(Calls) /\ Len(stack[u]) \in Nat
    BY DEF IInv, TypeOK
  <1>1. Len(stack[t]) \in Nat
    BY DEF IInv, TypeOK
  <1>2. \A i \in 1 .. Len(stack[t]) : stack[t][i].pc = "load"
    BY <1>0, <1>1 DEF IInv, Nested, Pushes, Active, Top
  <1>3. Nested'
    BY <1>0, <1>1, <1>2 DEF IInv, Nested, Pushes, Others, Below
  <1>4. ASSUME NEW u \in Threads, NEW i \in 1 .. Len(stack'[u]) PROVE Knows(u, stack[u][i])'
    <2>1. CASE u = t /\ i = Len(stack[t]) + 1
      BY <2>1 DEF Pushes
    <2>2. CASE ~(u = t /\ i = Len(stack[t]) + 1)
      <3>1. i \in 1 .. Len(stack[u]) /\ stack'[u][i] = stack[u][i] /\ stack[u][i] \in Calls
        BY <1>0, <1>1, <2>2 DEF Pushes, Others, Below
      <3>2. QED
        BY <3>1, KnowsStays DEF IInv, CallsKnow
    <2>3. QED
      BY <2>1, <2>2
  <1>5. QED
    BY <1>3, <1>4 DEF CallsKnow

-----------------------------------------------------------------------------
(* The lock after a step of each kind.                                     *)

LEMMA LoadsReplaced ==
  ASSUME IInv, TypeOK', NEW t \in Threads, NEW c, Replaces(t, c)
  PROVE  /\ Loads(t)' = IF c.pc = "load" THEN Len(stack[t]) ELSE Len(stack[t]) - 1
         /\ \A u \in Threads \ {t} : Loads(u)' = Loads(u)
  <1>1. /\ Len(stack[t]) \in Nat \ {0} /\ stack'[t] \in Seq(Calls)
        /\ Len(stack'[t]) = Len(stack[t])
    BY TopTyped DEF IInv, TypeOK, Replaces
  <1>2. QED
    BY <1>1 DEF Replaces, Others, Loads, Top

LEMMA LoadsPopped ==
  ASSUME IInv, TypeOK', NEW t \in Threads, Pops(t)
  PROVE  /\ Loads(t)' = Len(stack[t]) - 1
         /\ \A u \in Threads \ {t} : Loads(u)' = Loads(u)
  <1>1. /\ Len(stack[t]) \in Nat \ {0} /\ stack'[t] \in Seq(Calls)
        /\ Len(stack'[t]) = Len(stack[t]) - 1
    BY TopTyped DEF IInv, TypeOK, Pops
  <1>2. CASE stack'[t] = <<>>
    BY <1>1, <1>2 DEF Pops, Others, Loads, Top
  <1>3. CASE stack'[t] # <<>>
    <2>1. Len(stack'[t]) \in 1 .. Len(stack[t]) - 1
      BY <1>1, <1>3
    <2>2. stack'[t][Len(stack'[t])].pc = "load"
      BY <2>1 DEF IInv, Nested, Pops, Below
    <2>3. QED
      BY <1>1, <1>3, <2>2 DEF Pops, Others, Loads, Top
  <1>4. QED
    BY <1>2, <1>3

LEMMA LoadsPushed ==
  ASSUME IInv, TypeOK', NEW t \in Threads, NEW c, Pushes(t, c), c.pc # "load"
  PROVE  \A u \in Threads : Loads(u)' = Loads(u)
  <1>1. /\ Len(stack[t]) \in Nat /\ stack'[t] \in Seq(Calls) /\ stack[t] \in Seq(Calls)
        /\ Len(stack'[t]) = Len(stack[t]) + 1
    BY DEF IInv, TypeOK, Pushes
  <1>2. Loads(t)' = Len(stack[t])
    BY <1>1 DEF Pushes, Loads, Top
  <1>3. Loads(t) = Len(stack[t])
    BY <1>1 DEF Pushes, Loads, Active
  <1>4. QED
    BY <1>2, <1>3 DEF Pushes, Others, Loads, Top

LEMMA LockKept ==
  ASSUME LockCounted, UNCHANGED <<owner, count>>, \A u \in Threads : Loads(u)' = Loads(u)
  PROVE  LockCounted'
  BY DEF LockCounted

LEMMA LockGiven ==
  ASSUME TypeOK, LockCounted, Unlock, NEW t \in Threads,
         Loads(t) \in Nat \ {0}, Loads(t)' = Loads(t) - 1,
         \A u \in Threads \ {t} : Loads(u)' = Loads(u)
  PROVE  LockCounted'
  <1>1. owner = t /\ count = Loads(t) /\ \A u \in Threads \ {t} : Loads(u) = 0
    BY DEF LockCounted, TypeOK
  <1>2. QED
    BY <1>1, NoThreadNew DEF LockCounted, Unlock

LEMMA LockTaken ==
  ASSUME TypeOK, LockCounted, NEW t \in Threads, CanLock(t), owner' = t, count' = count + 1,
         Loads(t)' = Loads(t) + 1, \A u \in Threads \ {t} : Loads(u)' = Loads(u)
  PROVE  LockCounted'
  <1>1. \A u \in Threads \ {t} : Loads(u) = 0
    BY DEF LockCounted, CanLock
  <1>2. Loads(t) = count
    BY NoThreadNew DEF LockCounted, CanLock
  <1>3. QED
    BY <1>1, <1>2, NoThreadNew DEF LockCounted, TypeOK

(* What is stored stays right.                                             *)
LEMMA StoresKept ==
  ASSUME CacheRight, CompiledRight, SeenRight,
         UNCHANGED <<returnCompiled, cache, seen, compiled, kernels>>
  PROVE  CacheRight' /\ CompiledRight' /\ SeenRight'
  BY DEF CacheRight, CompiledRight, SeenRight, Is, Range1

LEMMA NothingGrows ==
  ASSUME TypeOK, UNCHANGED <<ambient, cache, seen, compiled, kernels>>
  PROVE  Grows
  BY DEF TypeOK, Grows, ambient

-----------------------------------------------------------------------------
(* The steps that change only a stack.                                     *)

LEMMA CallsKnown ==
  ASSUME IInv, NEW t \in Threads, Active(t)
  PROVE  Top(t) \in Calls /\ Knows(t, Top(t))
  BY TopTyped DEF IInv, CallsKnow, Top

(* A call moves on, in or out of no compile. *)
LEMMA Moves ==
  ASSUME IInv, NEW t \in Threads, NEW c \in Calls, stack' \in [Threads -> Seq(Calls)],
         Replaces(t, c), Top(t).pc # "load", c.pc # "load", Knows(t, c),
         UNCHANGED <<ambient, cache, compiler>>
  PROVE  IInv'
  <1>1. TypeOK'
    BY DEF IInv, TypeOK, ambient, compiler
  <1>2. Grows
    BY NothingGrows DEF IInv, compiler
  <1>3. Nested' /\ CallsKnow'
    BY <1>1, <1>2, KnowsStays, ReplaceCalls DEF IInv
  <1>4. Loads(t)' = Len(stack[t]) - 1 /\ \A u \in Threads \ {t} : Loads(u)' = Loads(u)
    BY <1>1, LoadsReplaced
  <1>5. Loads(t) = Len(stack[t]) - 1
    BY DEF Replaces, Active, Loads
  <1>6. LockCounted'
    BY <1>4, <1>5, LockKept DEF IInv, compiler
  <1>7. CacheRight' /\ CompiledRight' /\ SeenRight'
    BY StoresKept DEF IInv, ambient, compiler
  <1>8. QED
    BY <1>1, <1>3, <1>6, <1>7 DEF IInv

(* A call that is in no compile returns. *)
LEMMA Returns ==
  ASSUME IInv, NEW t \in Threads, Active(t), Top(t).pc # "load", Return(t),
         UNCHANGED <<ambient, cache, compiler>>
  PROVE  IInv'
  <1>0. stack' \in [Threads -> Seq(Calls)] /\ Pops(t)
    BY ReturnPops DEF IInv
  <1>1. TypeOK'
    BY <1>0 DEF IInv, TypeOK, ambient, compiler
  <1>2. Grows
    BY NothingGrows DEF IInv, compiler
  <1>3. Nested' /\ CallsKnow'
    BY <1>0, <1>1, <1>2, PopCalls
  <1>4. Loads(t)' = Len(stack[t]) - 1 /\ \A u \in Threads \ {t} : Loads(u)' = Loads(u)
    BY <1>0, <1>1, LoadsPopped
  <1>5. Loads(t) = Len(stack[t]) - 1
    BY DEF Active, Loads
  <1>6. LockCounted'
    BY <1>4, <1>5, LockKept DEF IInv, compiler
  <1>7. CacheRight' /\ CompiledRight' /\ SeenRight'
    BY StoresKept DEF IInv, ambient, compiler
  <1>8. QED
    BY <1>1, <1>3, <1>6, <1>7 DEF IInv

LEMMA WalkHitsKeeps ==
  ASSUME IInv, NEW t \in Threads, WalkHits(t)
  PROVE  IInv'
  <1> DEFINE n == cache[Top(t).key]
             c == [Top(t) EXCEPT !.pc = "launch", !.kernel = n]
  <1>1. Top(t) \in Calls /\ Knows(t, Top(t)) /\ Active(t)
    BY CallsKnown DEF WalkHits, At
  <1>2. n \in Nat /\ n # NoKernel
    BY <1>1 DEF IInv, TypeOK, Calls, WalkHits
  <1>3. stack' \in [Threads -> Seq(Calls)] /\ Replaces(t, c)
    BY <1>1, <1>2, GotWithReplaces DEF IInv, WalkHits, Pcs
  <1>4. c \in Calls /\ c.key = Top(t).key /\ c.src = Top(t).src /\ c.pc = "launch" /\ c.kernel = n
    BY <1>1, <1>2 DEF Calls, Pcs
  <1> HIDE DEF c
  <1>5. Knows(t, c)
    BY <1>1, <1>2, <1>4 DEF Knows
  <1>6. QED
    BY <1>3, <1>4, <1>5, Moves DEF WalkHits, At

LEMMA WalkMissesKeeps ==
  ASSUME IInv, NEW t \in Threads, WalkMisses(t)
  PROVE  IInv'
  <1> DEFINE c == [Top(t) EXCEPT !.pc = "check"]
  <1>1. Top(t) \in Calls /\ Knows(t, Top(t)) /\ Active(t)
    BY CallsKnown DEF WalkMisses, At
  <1>2. stack' \in [Threads -> Seq(Calls)] /\ Replaces(t, c)
    BY <1>1, GotoReplaces DEF IInv, WalkMisses, Pcs
  <1>3. c \in Calls /\ c.key = Top(t).key /\ c.src = Top(t).src /\ c.pc = "check"
    BY <1>1 DEF Calls, Pcs
  <1> HIDE DEF c
  <1>4. Knows(t, c)
    BY <1>1, <1>3 DEF Knows
  <1>5. QED
    BY <1>2, <1>3, <1>4, Moves DEF WalkMisses, At

LEMMA RewalkKeeps ==
  ASSUME IInv, NEW t \in Threads, Rewalk(t)
  PROVE  IInv'
  <1> DEFINE n == cache[Top(t).key]
             c == [Top(t) EXCEPT !.pc = "launch", !.kernel = n]
  <1>1. Top(t) \in Calls /\ Knows(t, Top(t)) /\ Active(t) /\ Top(t).pc = "rewalk"
    BY CallsKnown DEF Rewalk, At
  <1>2. n \in Nat /\ n # NoKernel
    BY <1>1 DEF IInv, TypeOK, Calls, Knows
  <1>3. stack' \in [Threads -> Seq(Calls)] /\ Replaces(t, c)
    BY <1>1, <1>2, GotWithReplaces DEF IInv, Rewalk, Pcs
  <1>4. c \in Calls /\ c.key = Top(t).key /\ c.src = Top(t).src /\ c.pc = "launch" /\ c.kernel = n
    BY <1>1, <1>2 DEF Calls, Pcs
  <1> HIDE DEF c
  <1>5. Knows(t, c)
    BY <1>1, <1>2, <1>4 DEF Knows
  <1>6. QED
    BY <1>1, <1>3, <1>4, <1>5, Moves DEF Rewalk

(* A nested launch, or one from the top. *)
LEMMA CallKeeps ==
  ASSUME IInv, NEW t \in Threads, NEW k \in SpecKeys, NEW src \in Sources, Call(t, k, src)
  PROVE  IInv'
  <1> DEFINE c == [key |-> k, src |-> src, pc |-> "walk", kernel |-> NoKernel]
  <1>0. stack' \in [Threads -> Seq(Calls)] /\ Pushes(t, c)
    BY CallPushes DEF IInv
  <1>1. TypeOK'
    BY <1>0 DEF IInv, TypeOK, Call, ambient, compiler
  <1>2. Grows
    BY NothingGrows DEF IInv, Call, compiler
  <1>3. /\ c \in Calls /\ c.pc = "walk" /\ Knows(t, c)
    BY DEF Calls, Pcs, NoKernel, Knows, Call
  <1> HIDE DEF c
  <1>4. Nested' /\ CallsKnow'
    BY <1>0, <1>1, <1>2, <1>3, KnowsStays, PushCalls DEF IInv
  <1>5. \A u \in Threads : Loads(u)' = Loads(u)
    BY <1>0, <1>1, <1>3, LoadsPushed
  <1>6. LockCounted'
    BY <1>5, LockKept DEF IInv, Call, compiler
  <1>7. CacheRight' /\ CompiledRight' /\ SeenRight'
    BY StoresKept DEF IInv, Call, ambient, compiler
  <1>8. QED
    BY <1>1, <1>4, <1>6, <1>7 DEF IInv

-----------------------------------------------------------------------------
(* The user's other steps: a device changes only for a thread that is in   *)
(* no call, the knob only while no miss runs.                              *)

LEMMA KeepsAll ==
  ASSUME IInv, TypeOK', UNCHANGED <<returnCompiled, cache, compiler, stack>>, CallsKnow'
  PROVE  IInv'
  <1>1. CacheRight' /\ CompiledRight' /\ SeenRight'
    BY StoresKept DEF IInv, compiler
  <1>2. Nested' /\ LockCounted'
    BY DEF IInv, Nested, LockCounted, Loads, Top, compiler
  <1>3. QED
    BY <1>1, <1>2 DEF IInv

LEMMA SetDeviceKeeps ==
  ASSUME IInv, NEW t \in Threads, NEW d \in Devices, SetDevice(t, d)
  PROVE  IInv'
  <1>1. TypeOK'
    BY DEF IInv, TypeOK, SetDevice, compiler
  <1>2. ASSUME NEW u \in Threads, NEW i \in 1 .. Len(stack'[u]) PROVE Knows(u, stack[u][i])'
    <2>1. stack' = stack /\ stack[t] = <<>> /\ i \in 1 .. Len(stack[u])
      BY DEF SetDevice, Active
    <2>2. u # t
      BY <2>1
    <2>3. device'[u] = device[u]
      BY <2>2 DEF SetDevice, IInv, TypeOK
    <2>4. Knows(u, stack[u][i])
      BY <2>1 DEF IInv, CallsKnow
    <2>5. UNCHANGED <<returnCompiled, knob, cache, seen, compiled, kernels>>
      BY DEF SetDevice, compiler
    <2>6. QED
      BY <2>1, <2>3, <2>4, <2>5 DEF Knows, Is, Range1
  <1>3. CallsKnow'
    BY <1>2 DEF CallsKnow
  <1>4. QED
    BY <1>1, <1>3, KeepsAll DEF SetDevice

LEMMA SetKnobKeeps ==
  ASSUME IInv, NEW v \in Knobs, SetKnob(v)
  PROVE  IInv'
  <1>1. TypeOK'
    BY DEF IInv, TypeOK, SetKnob, compiler
  <1>2. ASSUME NEW u \in Threads, NEW i \in 1 .. Len(stack'[u]) PROVE Knows(u, stack[u][i])'
    <2>1. stack' = stack /\ i \in 1 .. Len(stack[u]) /\ stack[u] \in Seq(Calls)
      BY DEF SetKnob, IInv, TypeOK
    <2>2. stack[u][i] \in Frames
      BY <2>1 DEF Frames, Range1
    <2>3. stack[u][i].pc \notin {"check", "lock", "load", "fill"}
      BY <2>2 DEF SetKnob, Missing
    <2>4. Knows(u, stack[u][i])
      BY <2>1 DEF IInv, CallsKnow
    <2>5. UNCHANGED <<returnCompiled, device, cache, seen, compiled, kernels>>
      BY DEF SetKnob, compiler
    <2>6. QED
      BY <2>1, <2>3, <2>4, <2>5 DEF Knows, Is, Range1
  <1>3. CallsKnow'
    BY <1>2 DEF CallsKnow
  <1>4. QED
    BY <1>1, <1>3, KeepsAll DEF SetKnob

LEMMA StutterKeeps ==
  ASSUME IInv, UNCHANGED vars
  PROVE  IInv'
  <1>1. TypeOK'
    BY DEF IInv, TypeOK, vars, ambient, compiler
  <1>2. CallsKnow'
    BY DEF IInv, CallsKnow, Knows, Is, Range1, vars, ambient, compiler
  <1>3. QED
    BY <1>1, <1>2, KeepsAll DEF vars, ambient

-----------------------------------------------------------------------------
(* The miss *)

(* The first call of a key settles its input. *)
LEMMA AcceptKeeps ==
  ASSUME IInv, NEW t \in Threads, Accept(t)
  PROVE  IInv'
  <1> DEFINE key == Top(t).key
             src == Top(t).src
  <1>0. PICK c : c = [Top(t) EXCEPT !.pc = "lock"]
    OBVIOUS
  <1>1. Top(t) \in Calls /\ Knows(t, Top(t)) /\ Active(t) /\ Top(t).pc = "check"
    BY CallsKnown DEF Accept, At
  <1>2. stack' \in [Threads -> Seq(Calls)] /\ Replaces(t, c)
    BY <1>0, <1>1, GotoReplaces DEF IInv, Accept, Pcs
  <1>3. c \in Calls /\ c.key = key /\ c.src = src /\ c.pc = "lock"
    BY <1>0, <1>1 DEF Calls, Pcs
  <1>4. key \in SpecKeys /\ src \in Sources /\ src # NoSource /\ src \in SourcesOf(key.part)
    BY <1>1, NoSourceNew DEF Calls, Knows
  <1>5. /\ seen' = [seen EXCEPT ![key] = src] /\ seen[key] \in {NoSource, src}
        /\ seen' \in [SpecKeys -> Sources \cup {NoSource}]
    BY <1>4 DEF Accept, SameInput, IInv, TypeOK
  <1>6. UNCHANGED <<ambient, cache, compiled, kernels, owner, count>>
    BY DEF Accept
  <1>7. TypeOK'
    BY <1>2, <1>5, <1>6 DEF IInv, TypeOK, ambient
  <1>8. \A k \in SpecKeys : seen[k] # NoSource => seen'[k] = seen[k]
    BY <1>4, <1>5 DEF IInv, TypeOK
  <1>9. Grows
    BY <1>6, <1>8 DEF Grows, IInv, TypeOK
  <1>10. Knows(t, c)'
    <2>1. key.dev = device'[t] /\ key.knob = knob'
      BY <1>6 DEF Accept, Launchable, ambient
    <2>2. seen'[key] = src
      BY <1>4, <1>5 DEF IInv, TypeOK
    <2>3. QED
      BY <1>3, <1>4, <2>1, <2>2 DEF Knows
  <1>11. Nested' /\ CallsKnow'
    BY <1>2, <1>3, <1>7, <1>9, <1>10, ReplaceCalls
  <1>12. LockCounted'
    <2>1. Loads(t)' = Len(stack[t]) - 1 /\ \A u \in Threads \ {t} : Loads(u)' = Loads(u)
      BY <1>2, <1>3, <1>7, LoadsReplaced
    <2>2. Loads(t) = Len(stack[t]) - 1
      BY <1>1 DEF Active, Loads
    <2>3. QED
      BY <1>6, <2>1, <2>2, LockKept DEF IInv
  <1>13. CacheRight' /\ CompiledRight'
    <2>1. /\ \A n, b : Is(n, b)' <=> Is(n, b)
          /\ returnCompiled' = returnCompiled /\ compiled' = compiled /\ cache' = cache
      BY <1>6 DEF Is, ambient
    <2>2. CompiledRight'
      BY <2>1 DEF IInv, CompiledRight
    <2>3. \A k \in SpecKeys : cache'[k] # NoKernel =>
            /\ seen'[k] # NoSource
            /\ Is(cache[k], [src |-> seen[k], dev |-> k.dev, knob |-> k.knob])
            /\ ~returnCompiled => cache[k] \in Range1(compiled)
            /\ seen'[k] = seen[k]
      BY <1>8, <2>1 DEF IInv, CacheRight
    <2>4. CacheRight'
      BY <2>1, <2>3 DEF CacheRight, Range1
    <2>5. QED
      BY <2>2, <2>4
  <1>14. SeenRight'
    BY <1>4, <1>5 DEF IInv, SeenRight, TypeOK
  <1>15. QED
    BY <1>7, <1>11, <1>12, <1>13, <1>14 DEF IInv

(* What a call that waits for the compiler's lock, or compiles, compiles.  *)
LEMMA CompileKeyKnown ==
  ASSUME IInv, NEW t \in Threads, Active(t), Top(t).pc \in {"lock", "load"}
  PROVE  /\ CompileKey(t) \in Binaries
         /\ CompileKey(t) = [src |-> Top(t).src, dev |-> device[t], knob |-> knob]
         /\ CompileKey(t) = [src |-> Top(t).src, dev |-> Top(t).key.dev, knob |-> Top(t).key.knob]
  <1>1. Top(t) \in Calls /\ Knows(t, Top(t))
    BY CallsKnown
  <1>2. Top(t).key.dev = device[t] /\ Top(t).key.knob = knob
    BY <1>1 DEF Knows
  <1>3. device[t] \in Devices /\ knob \in Knobs /\ Top(t).src \in Sources
    BY <1>1 DEF IInv, TypeOK, Calls
  <1>4. QED
    BY <1>2, <1>3 DEF CompileKey, Binaries

LEMMA ReuseKeeps ==
  ASSUME IInv, NEW t \in Threads, Reuse(t)
  PROVE  IInv'
  <1> DEFINE key == CompileKey(t)
             n == Compiled(key)
             c == [Top(t) EXCEPT !.pc = "fill", !.kernel = n]
  <1>1. Top(t) \in Calls /\ Knows(t, Top(t)) /\ Active(t) /\ Top(t).pc = "lock"
    BY CallsKnown DEF Reuse, At
  <1>2. /\ key \in Binaries
        /\ key = [src |-> Top(t).src, dev |-> Top(t).key.dev, knob |-> Top(t).key.knob]
    BY <1>1, CompileKeyKnown
  <1>3. n = compiled[key] /\ n # NoKernel
    BY DEF Reuse, Compiled
  <1> HIDE DEF n
  <1>4. n \in Nat /\ Is(n, key) /\ n \in Range1(compiled)
    BY <1>2, <1>3 DEF IInv, TypeOK, CompiledRight, Range1
  <1>5. stack' \in [Threads -> Seq(Calls)] /\ Replaces(t, c)
    BY <1>1, <1>4, GotWithReplaces DEF IInv, Reuse, Pcs, n
  <1>6. c \in Calls /\ c.key = Top(t).key /\ c.src = Top(t).src /\ c.pc = "fill" /\ c.kernel = n
    BY <1>1, <1>4 DEF Calls, Pcs
  <1> HIDE DEF c, key
  <1>7. Knows(t, c)
    BY <1>1, <1>2, <1>4, <1>6 DEF Knows
  <1>8. QED
    BY <1>1, <1>5, <1>6, <1>7, Moves DEF Reuse

LEMMA StartLoadKeeps ==
  ASSUME IInv, NEW t \in Threads, StartLoad(t)
  PROVE  IInv'
  <1> DEFINE c == [Top(t) EXCEPT !.pc = "load"]
  <1>1. Top(t) \in Calls /\ Knows(t, Top(t)) /\ Active(t) /\ Top(t).pc = "lock"
    BY CallsKnown DEF StartLoad, At
  <1>2. stack' \in [Threads -> Seq(Calls)] /\ Replaces(t, c)
    BY <1>1, GotoReplaces DEF IInv, StartLoad, Pcs
  <1>3. c \in Calls /\ c.key = Top(t).key /\ c.src = Top(t).src /\ c.pc = "load"
    BY <1>1 DEF Calls, Pcs
  <1> HIDE DEF c
  <1>4. TypeOK'
    BY <1>2 DEF IInv, TypeOK, StartLoad, ambient
  <1>5. Grows
    BY NothingGrows DEF IInv, StartLoad
  <1>6. Knows(t, c)
    BY <1>1, <1>3 DEF Knows
  <1>7. Nested' /\ CallsKnow'
    BY <1>2, <1>3, <1>4, <1>5, <1>6, KnowsStays, ReplaceCalls DEF IInv
  <1>8. LockCounted'
    <2>1. Loads(t)' = Len(stack[t]) /\ \A u \in Threads \ {t} : Loads(u)' = Loads(u)
      BY <1>2, <1>3, <1>4, LoadsReplaced
    <2>2. Loads(t) = Len(stack[t]) - 1 /\ Len(stack[t]) \in Nat \ {0}
      BY <1>1, TopTyped DEF IInv, Active, Loads
    <2>3. QED
      BY <2>1, <2>2, LockTaken DEF IInv, StartLoad
  <1>9. CacheRight' /\ CompiledRight' /\ SeenRight'
    BY StoresKept DEF IInv, StartLoad, ambient
  <1>10. QED
    BY <1>4, <1>7, <1>8, <1>9 DEF IInv

(* A compile's call has the lock. *)
LEMMA LoadHasLock ==
  ASSUME IInv, NEW t \in Threads, At(t, "load")
  PROVE  Loads(t) = Len(stack[t]) /\ Loads(t) \in Nat \ {0} /\ owner = t /\ count = Loads(t)
  <1>1. Loads(t) = Len(stack[t]) /\ Len(stack[t]) \in Nat \ {0}
    BY TopTyped DEF IInv, At, Active, Loads
  <1>2. QED
    BY <1>1 DEF IInv, LockCounted

LEMMA LoadFailsKeeps ==
  ASSUME IInv, NEW t \in Threads, LoadFails(t)
  PROVE  IInv'
  <1>0. stack' \in [Threads -> Seq(Calls)] /\ Pops(t)
    BY ReturnPops DEF IInv, LoadFails, At
  <1>1. /\ owner = t /\ count = Loads(t)
        /\ Loads(t) = Len(stack[t]) /\ Loads(t) \in Nat \ {0}
    BY LoadHasLock DEF LoadFails
  <1>2. owner' \in Threads \cup {NoThread} /\ count' \in Nat
    BY <1>1 DEF LoadFails, Unlock
  <1>3. TypeOK'
    BY <1>0, <1>2 DEF IInv, TypeOK, LoadFails, ambient
  <1>4. Grows
    BY NothingGrows DEF IInv, LoadFails
  <1>5. Nested' /\ CallsKnow'
    BY <1>0, <1>3, <1>4, PopCalls
  <1>6. Loads(t)' = Len(stack[t]) - 1 /\ \A u \in Threads \ {t} : Loads(u)' = Loads(u)
    BY <1>0, <1>3, LoadsPopped
  <1>7. LockCounted'
    BY <1>1, <1>6, LockGiven DEF IInv, LoadFails
  <1>8. CacheRight' /\ CompiledRight' /\ SeenRight'
    BY StoresKept DEF IInv, LoadFails, ambient
  <1>9. QED
    BY <1>3, <1>5, <1>7, <1>8 DEF IInv

(* What a compile leaves in _compiled: a kernel of its key, and without    *)
(* return_compiled no kernel that was there goes.                          *)
LEMMA LoadGrows ==
  ASSUME IInv, NEW t \in Threads, LoadReturns(t), NEW key, key = CompileKey(t),
         NEW n, n = Kept(key, Len(kernels) + 1)
  PROVE  /\ n \in Nat /\ compiled' = [compiled EXCEPT ![key] = n]
         /\ compiled' \in [Binaries -> Nat] /\ kernels' \in Seq(Binaries)
         /\ Grows /\ Is(n, key)'
  <1>1. Active(t) /\ Top(t).pc = "load"
    BY DEF LoadReturns, At
  <1>2. key \in Binaries /\ key = [src |-> Top(t).src, dev |-> device[t], knob |-> knob]
    BY <1>1, CompileKeyKnown
  <1>3. kernels \in Seq(Binaries) /\ Len(kernels) \in Nat /\ compiled \in [Binaries -> Nat]
    BY DEF IInv, TypeOK
  <1>4. kernels' = Append(kernels, key)
    BY <1>2 DEF LoadReturns
  <1>5. /\ kernels' \in Seq(Binaries) /\ Len(kernels') = Len(kernels) + 1
        /\ kernels'[Len(kernels) + 1] = key
        /\ \A i \in 1 .. Len(kernels) : kernels'[i] = kernels[i]
    BY <1>2, <1>3, <1>4
  <1>6. compiled' = [compiled EXCEPT ![key] = n]
    BY DEF LoadReturns
  <1>7. CASE Compiled(key) # NoKernel
    <2>1. n = compiled[key] /\ n # NoKernel
      BY <1>7 DEF Kept, Compiled
    <2>2. n \in Nat /\ Is(n, key)
      BY <1>2, <1>3, <2>1 DEF IInv, CompiledRight
    <2>3. compiled' = compiled
      BY <1>3, <1>6, <2>1
    <2>4. Grows
      BY <1>3, <1>5, <2>3 DEF Grows, LoadReturns, IInv, TypeOK
    <2>5. Is(n, key)'
      BY <1>3, <1>5, <2>2 DEF Is
    <2>6. QED
      BY <1>3, <1>5, <1>6, <2>2, <2>3, <2>4, <2>5
  <1>8. CASE Compiled(key) = NoKernel
    <2>1. n = Len(kernels) + 1
      BY <1>8 DEF Kept
    <2>2. ~returnCompiled => compiled[key] = NoKernel
      BY <1>2, <1>3, <1>8 DEF Compiled, Owned, Range1, NoKernel
    <2>3. Grows
      BY <1>3, <1>5, <1>6, <2>2 DEF Grows, LoadReturns, IInv, TypeOK
    <2>4. Is(n, key)'
      BY <1>3, <1>5, <2>1 DEF Is
    <2>5. n \in Nat
      BY <1>3, <2>1
    <2>6. compiled' \in [Binaries -> Nat]
      BY <1>3, <1>6, <2>5
    <2>7. QED
      BY <1>5, <1>6, <2>3, <2>4, <2>5, <2>6
  <1>9. QED
    BY <1>7, <1>8

(* The stores after a step that only adds to them. *)
LEMMA CacheStaysRight ==
  ASSUME IInv, TypeOK', Grows, UNCHANGED <<cache, seen>>
  PROVE  CacheRight'
  <1> SUFFICES ASSUME NEW k \in SpecKeys, cache[k] # NoKernel
               PROVE  /\ seen[k] # NoSource
                      /\ Is(cache[k], [src |-> seen[k], dev |-> k.dev, knob |-> k.knob])'
                      /\ ~returnCompiled => cache[k] \in Range1(compiled')
    BY DEF CacheRight, Grows, ambient
  <1> DEFINE b == [src |-> seen[k], dev |-> k.dev, knob |-> k.knob]
  <1>1. /\ seen[k] # NoSource /\ Is(cache[k], b)
        /\ ~returnCompiled => cache[k] \in Range1(compiled)
    BY DEF IInv, CacheRight
  <1>2. ASSUME NEW n, NEW d, Is(n, d) PROVE Is(n, d)'
    BY <1>2, IsStays DEF IInv
  <1>3. Is(cache[k], b)'
    BY <1>1, <1>2
  <1>4. ~returnCompiled => cache[k] \in Range1(compiled')
    BY <1>1, CompiledStays DEF IInv
  <1>5. QED
    BY <1>1, <1>3, <1>4

LEMMA LoadReturnsKeeps ==
  ASSUME IInv, NEW t \in Threads, LoadReturns(t)
  PROVE  IInv'
  <1>0. PICK key, n : key = CompileKey(t) /\ n = Kept(key, Len(kernels) + 1)
    OBVIOUS
  <1>1. PICK c : c = [Top(t) EXCEPT !.pc = "fill", !.kernel = n]
    OBVIOUS
  <1>2. Top(t) \in Calls /\ Knows(t, Top(t)) /\ Active(t) /\ Top(t).pc = "load"
    BY CallsKnown DEF LoadReturns, At
  <1>3. /\ key \in Binaries
        /\ key = [src |-> Top(t).src, dev |-> Top(t).key.dev, knob |-> Top(t).key.knob]
    BY <1>0, <1>2, CompileKeyKnown
  <1>4. /\ n \in Nat /\ compiled' = [compiled EXCEPT ![key] = n]
        /\ compiled' \in [Binaries -> Nat] /\ kernels' \in Seq(Binaries)
        /\ Grows /\ Is(n, key)'
    BY <1>0, LoadGrows
  <1>5. stack' \in [Threads -> Seq(Calls)] /\ Replaces(t, c)
    BY <1>0, <1>1, <1>2, <1>4, GotWithReplaces DEF IInv, LoadReturns, Pcs
  <1>6. c \in Calls /\ c.key = Top(t).key /\ c.src = Top(t).src /\ c.pc = "fill" /\ c.kernel = n
    BY <1>1, <1>2, <1>4 DEF Calls, Pcs
  <1>7. /\ owner = t /\ count = Loads(t)
        /\ Loads(t) = Len(stack[t]) /\ Loads(t) \in Nat \ {0}
    BY LoadHasLock DEF LoadReturns
  <1>8. owner' \in Threads \cup {NoThread} /\ count' \in Nat
    BY <1>7 DEF LoadReturns, Unlock
  <1>9. TypeOK'
    BY <1>4, <1>5, <1>8 DEF IInv, TypeOK, LoadReturns, ambient
  <1>10. Knows(t, c)'
    <2>1. c.src \in SourcesOf(c.key.part)
      BY <1>2, <1>6 DEF Knows
    <2>2. c.key.dev = device'[t] /\ c.key.knob = knob' /\ seen'[c.key] = c.src
      BY <1>2, <1>6 DEF Knows, LoadReturns, ambient
    <2>3. Is(c.kernel, [src |-> c.src, dev |-> c.key.dev, knob |-> c.key.knob])'
      BY <1>3, <1>4, <1>6
    <2>4. c.kernel \in Range1(compiled')
      BY <1>3, <1>4, <1>6 DEF Range1, IInv, TypeOK
    <2>5. QED
      BY <1>6, <2>1, <2>2, <2>3, <2>4 DEF Knows
  <1>11. Nested' /\ CallsKnow'
    BY <1>4, <1>5, <1>6, <1>9, <1>10, ReplaceCalls
  <1>12. Loads(t)' = Len(stack[t]) - 1 /\ \A u \in Threads \ {t} : Loads(u)' = Loads(u)
    BY <1>5, <1>6, <1>9, LoadsReplaced
  <1>13. LockCounted'
    BY <1>7, <1>12, LockGiven DEF IInv, LoadReturns
  <1>14. CacheRight'
    BY <1>4, <1>9, CacheStaysRight DEF LoadReturns
  <1>15. CompiledRight'
    <2> SUFFICES ASSUME NEW b \in Binaries, compiled'[b] # NoKernel
                 PROVE  Is(compiled[b], b)'
      BY DEF CompiledRight
    <2>1. CASE b = key
      BY <1>3, <1>4, <2>1 DEF IInv, TypeOK
    <2>2. CASE b # key
      <3>1. compiled'[b] = compiled[b]
        BY <1>4, <2>2 DEF IInv, TypeOK
      <3>2. Is(compiled[b], b)
        BY <3>1 DEF IInv, CompiledRight
      <3>3. QED
        BY <1>4, <1>9, <3>1, <3>2, IsStays DEF IInv
    <2>3. QED
      BY <2>1, <2>2
  <1>16. SeenRight'
    BY DEF IInv, SeenRight, LoadReturns
  <1>17. QED
    BY <1>9, <1>11, <1>13, <1>14, <1>15, <1>16 DEF IInv

-----------------------------------------------------------------------------
(* The put: the first record of a key, and it is the key's.                *)
LEMMA FillKeeps ==
  ASSUME IInv, NEW t \in Threads, Fill(t)
  PROVE  IInv'
  <1>0. PICK key, n : key = Top(t).key /\ n = Top(t).kernel
    OBVIOUS
  <1>1. PICK c : c = [Top(t) EXCEPT !.pc = "rewalk", !.kernel = NoKernel]
    OBVIOUS
  <1>2. Top(t) \in Calls /\ Knows(t, Top(t)) /\ Active(t) /\ Top(t).pc = "fill"
    BY CallsKnown DEF Fill, At
  <1>3. /\ key \in SpecKeys /\ n \in Nat /\ Top(t).src # NoSource
        /\ seen[key] = Top(t).src
        /\ Is(n, [src |-> seen[key], dev |-> key.dev, knob |-> key.knob])
        /\ ~returnCompiled => n \in Range1(compiled)
    BY <1>0, <1>2, NoSourceNew DEF Calls, Knows
  <1>4. n # NoKernel
    BY <1>3 DEF Is, NoKernel
  <1>5. cache' = IF cache[key] = NoKernel THEN [cache EXCEPT ![key] = n] ELSE cache
    BY <1>0 DEF Fill
  <1>6. UNCHANGED <<ambient, seen, compiled, kernels, owner, count>>
    BY DEF Fill, compiler
  <1>7. /\ cache' \in [SpecKeys -> Nat] /\ cache'[key] # NoKernel
        /\ \A k \in SpecKeys : cache[k] # NoKernel => cache'[k] = cache[k]
        /\ \A k \in SpecKeys : cache'[k] \in {cache[k]} \/ (k = key /\ cache'[k] = n)
    BY <1>3, <1>4, <1>5 DEF IInv, TypeOK
  <1>8. stack' \in [Threads -> Seq(Calls)] /\ Replaces(t, c)
    BY <1>1, <1>2, GotWithReplaces DEF IInv, Fill, Pcs, NoKernel
  <1>9. c \in Calls /\ c.key = key /\ c.src = Top(t).src /\ c.pc = "rewalk"
    BY <1>0, <1>1, <1>2 DEF Calls, Pcs, NoKernel
  <1>10. TypeOK'
    BY <1>6, <1>7, <1>8 DEF IInv, TypeOK, ambient
  <1>11. Grows
    BY <1>6, <1>7 DEF Grows, IInv, TypeOK
  <1>12. Knows(t, c)'
    BY <1>2, <1>0, <1>7, <1>9 DEF Knows
  <1>13. Nested' /\ CallsKnow'
    BY <1>8, <1>9, <1>10, <1>11, <1>12, ReplaceCalls
  <1>14. LockCounted'
    <2>1. Loads(t)' = Len(stack[t]) - 1 /\ \A u \in Threads \ {t} : Loads(u)' = Loads(u)
      BY <1>8, <1>9, <1>10, LoadsReplaced
    <2>2. Loads(t) = Len(stack[t]) - 1
      BY <1>2 DEF Active, Loads
    <2>3. QED
      BY <1>6, <2>1, <2>2, LockKept DEF IInv
  <1>15. CompiledRight' /\ SeenRight'
    BY <1>6 DEF IInv, CompiledRight, SeenRight, Is
  <1>16. CacheRight'
    <2>1. \A m, b : Is(m, b)' <=> Is(m, b)
      BY <1>6 DEF Is
    <2>2. ASSUME NEW k \in SpecKeys, cache'[k] # NoKernel
          PROVE  /\ seen[k] # NoSource
                 /\ Is(cache'[k], [src |-> seen[k], dev |-> k.dev, knob |-> k.knob])
                 /\ ~returnCompiled => cache'[k] \in Range1(compiled)
      <3>1. CASE cache'[k] = cache[k]
        BY <2>2, <3>1 DEF IInv, CacheRight
      <3>2. CASE k = key /\ cache'[k] = n
        BY <1>3, <3>2
      <3>3. QED
        BY <1>7, <3>1, <3>2
    <2>3. ASSUME NEW k \in SpecKeys, cache'[k] # NoKernel
          PROVE  Is(cache[k], [src |-> seen[k], dev |-> k.dev, knob |-> k.knob])'
      BY <1>6, <2>2, <2>3 DEF Is
    <2>4. QED
      BY <1>6, <2>2, <2>3 DEF CacheRight, ambient
  <1>17. QED
    BY <1>10, <1>13, <1>14, <1>15, <1>16 DEF IInv

-----------------------------------------------------------------------------
(* The invariant *)

LEMMA InitIInv == Init => IInv
  <1> SUFFICES ASSUME Init PROVE IInv
    OBVIOUS
  <1>1. TypeOK
    BY DEF Init, TypeOK, NoKernel
  <1>2. Nested /\ CallsKnow
    BY DEF Init, Nested, CallsKnow
  <1>3. LockCounted
    BY NoThreadNew DEF Init, LockCounted, Loads
  <1>4. CacheRight /\ CompiledRight /\ SeenRight
    BY DEF Init, CacheRight, CompiledRight, SeenRight
  <1>5. QED
    BY <1>1, <1>2, <1>3, <1>4 DEF IInv

LEMMA StepIInv == IInv /\ [Next]_vars => IInv'
  <1> SUFFICES ASSUME IInv, [Next]_vars PROVE IInv'
    OBVIOUS
  <1>1. CASE \E t \in Threads, k \in SpecKeys, src \in Sources : Call(t, k, src)
    BY <1>1, CallKeeps
  <1>2. CASE \E t \in Threads, d \in Devices : SetDevice(t, d)
    BY <1>2, SetDeviceKeeps
  <1>3. CASE \E v \in Knobs : SetKnob(v)
    BY <1>3, SetKnobKeeps
  <1>4. ASSUME NEW t \in Threads, WalkHits(t) \/ WalkMisses(t) \/ Rewalk(t) PROVE IInv'
    BY <1>4, WalkHitsKeeps, WalkMissesKeeps, RewalkKeeps
  <1>5. ASSUME NEW t \in Threads, Launch(t) \/ Refuse(t) \/ RefuseInput(t) \/ FillFails(t)
        PROVE  IInv'
    BY <1>5, Returns DEF Launch, Refuse, RefuseInput, FillFails, At
  <1>6. ASSUME NEW t \in Threads, Accept(t) PROVE IInv'
    BY <1>6, AcceptKeeps
  <1>7. ASSUME NEW t \in Threads, TakesLock(t) PROVE IInv'
    BY <1>7, ReuseKeeps, StartLoadKeeps DEF TakesLock
  <1>8. ASSUME NEW t \in Threads, LoadFails(t) \/ LoadReturns(t) PROVE IInv'
    BY <1>8, LoadFailsKeeps, LoadReturnsKeeps
  <1>9. ASSUME NEW t \in Threads, Fill(t) PROVE IInv'
    BY <1>9, FillKeeps
  <1>10. CASE UNCHANGED vars
    BY <1>10, StutterKeeps
  <1>11. QED
    BY <1>1, <1>2, <1>3, <1>4, <1>5, <1>6, <1>7, <1>8, <1>9, <1>10 DEF Next, OwnStep

(* Every state that launches and misses can reach has the invariant.       *)
THEOREM LaunchInvariance == Spec => []IInv
  <1>1. QED
    BY InitIInv, StepIInv, PTL DEF Spec

-----------------------------------------------------------------------------
(* What the invariant says of the lock, the cache and the launches.        *)

LEMMA LoadsCounted ==
  ASSUME IInv, NEW t \in Threads
  PROVE  Cardinality({d \in DOMAIN stack[t] : stack[t][d].pc = "load"}) = Loads(t)
  <1> DEFINE loads == {d \in DOMAIN stack[t] : stack[t][d].pc = "load"}
  <1>1. stack[t] \in Seq(Calls) /\ Len(stack[t]) \in Nat /\ DOMAIN stack[t] = 1 .. Len(stack[t])
    BY DEF IInv, TypeOK
  <1>2. \A i \in 1 .. Len(stack[t]) - 1 : stack[t][i].pc = "load"
    BY DEF IInv, Nested
  <1>3. Loads(t) \in Nat /\ loads = 1 .. Loads(t)
    BY <1>1, <1>2 DEF Loads, Top
  <1>4. Cardinality(1 .. Loads(t)) = Loads(t)
    BY <1>3, FS_Interval
  <1>5. QED
    BY <1>3, <1>4

(* The compiler's lock is held exactly by the thread inside compiles, once *)
(* for each of them, however deep they nest (KernelCompiler._compile takes *)
(* and gives back one reentrant lock).                                     *)
THEOREM LockIsCounted == Spec => []LockCountsLoads
  <1>1. IInv => LockCountsLoads
    BY LoadsCounted DEF IInv, LockCounted, LockCountsLoads
  <1>2. QED
    BY <1>1, LaunchInvariance, PTL

(* No record outlives its kernel: the nested miss's kernel stays in        *)
(* _compiled (setdefault), so the record put from it keeps its handle.     *)
THEOREM RecordsStayOwned == Spec => []RecordsOwned
  <1>1. ASSUME IInv, NEW k \in SpecKeys, cache[k] # NoKernel PROVE Owned(cache[k])
    <2>1. cache[k] \in Range1(cache)
      BY <1>1 DEF IInv, TypeOK, Range1
    <2>2. ~returnCompiled => cache[k] \in Range1(compiled)
      BY <1>1 DEF IInv, CacheRight
    <2>3. QED
      BY <2>1, <2>2 DEF Owned
  <1>2. IInv => RecordsOwned
    BY <1>1 DEF RecordsOwned
  <1>3. QED
    BY <1>2, LaunchInvariance, PTL

(* A call anywhere on a stack knows what its place says. *)
LEMMA FrameKnows ==
  ASSUME IInv, NEW c \in Frames
  PROVE  c \in Calls /\ \E t \in Threads : Knows(t, c)
  <1>0. PICK t \in Threads : c \in Range1(stack[t])
    BY DEF Frames
  <1>1. PICK i \in DOMAIN stack[t] : c = stack[t][i]
    BY <1>0 DEF Range1
  <1>2. i \in 1 .. Len(stack[t]) /\ stack[t][i] \in Calls
    BY DEF IInv, TypeOK
  <1>3. QED
    BY <1>1, <1>2 DEF IInv, CallsKnow

(* The walk after a fill finds a record, so intj_call may use it unseen.   *)
THEOREM RewalkFinds == Spec => []RewalkHits
  <1>1. IInv => RewalkHits
    BY FrameKnows DEF RewalkHits, Knows
  <1>2. QED
    BY <1>1, LaunchInvariance, PTL

(* What is about to be launched is of the key's device and knob value and  *)
(* of the input of the key's first miss (seen.setdefault), whatever the    *)
(* key leaves out.                                                         *)
LEMMA LaunchesSeen ==
  ASSUME IInv, NEW c \in Frames, c.pc = "launch"
  PROVE  /\ kernels[c.kernel] = [src |-> seen[c.key], dev |-> c.key.dev, knob |-> c.key.knob]
         /\ c.src \in SourcesOf(c.key.part) /\ seen[c.key] \in SourcesOf(c.key.part)
  <1>1. /\ c.key \in SpecKeys /\ c.src \in SourcesOf(c.key.part)
        /\ cache[c.key] # NoKernel /\ c.kernel = cache[c.key]
    BY FrameKnows DEF Knows, Calls
  <1>2. QED
    BY <1>1 DEF IInv, CacheRight, SeenRight, Is

THEOREM LaunchesOfFirstInput == Spec => []OneInputPerKey
  <1>1. IInv => OneInputPerKey
    BY LaunchesSeen DEF OneInputPerKey
  <1>2. QED
    BY <1>1, LaunchInvariance, PTL

(* Where a spec key settles the compiler's input, a launch runs what was   *)
(* compiled from its own input, for its device, under its knob value:      *)
(* whatever other threads and nested launches compiled and put meanwhile.  *)
THEOREM LaunchesOfOwnInput ==
  ASSUME \A p \in Parts : \E s : SourcesOf(p) = {s}
  PROVE  Spec => []LaunchRight
  <1>1. ASSUME IInv, NEW c \in Frames, c.pc = "launch"
        PROVE  kernels[c.kernel] = [src |-> c.src, dev |-> c.key.dev, knob |-> c.key.knob]
    <2>1. c.key.part \in Parts
      BY <1>1, FrameKnows DEF Calls, SpecKeys
    <2>2. seen[c.key] = c.src
      BY <1>1, <2>1, LaunchesSeen
    <2>3. QED
      BY <1>1, <2>2, LaunchesSeen
  <1>2. IInv => LaunchRight
    BY <1>1 DEF LaunchRight
  <1>3. QED
    BY <1>2, LaunchInvariance, PTL
=============================================================================
