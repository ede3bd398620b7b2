--------------------------- MODULE LaunchMissProps ---------------------------
(***************************************************************************)
(* What makes launches and misses correct (see LaunchMiss).                *)
(***************************************************************************)
EXTENDS LaunchMiss

(* The compiler's lock is held by the thread that is inside compiles, once *)
(* for each of them, and by no other.                                      *)
LockCountsLoads ==
  LET loads(t) == {d \in DOMAIN stack[t] : stack[t][d].pc = "load"} IN
  /\ owner = NoThread <=> count = 0
  /\ \A t \in Threads :
       Cardinality(loads(t)) = IF owner = t THEN count ELSE 0

(* A record in the cache never outlives the kernel whose function handle   *)
(* it holds: a nested miss may have put one while its caller was compiling *)
(* the same, and then the nested kernel must stay.                         *)
RecordsOwned == \A k \in SpecKeys : cache[k] # NoKernel => Owned(cache[k])

(* A launch runs the binary its arguments ask for: compiled from this      *)
(* input, under the knob value the call passed, loaded on its device.      *)
LaunchRight ==
  \A c \in Frames :
    c.pc = "launch" /\ c.kernel # NoKernel =>
      kernels[c.kernel] = [src |-> c.src, dev |-> c.key.dev, knob |-> c.key.knob]

(* The walk after a fill finds a record: intj_call uses it unchecked.      *)
RewalkHits == \A c \in Frames : c.pc \in {"rewalk", "launch"} => cache[c.key] # NoKernel

(* Even where a spec key leaves out something that the compile depends on, *)
(* it never maps to two inputs: a launch runs what was compiled for its    *)
(* key's device and knob value from the input of that key's first miss.    *)
OneInputPerKey ==
  \A c \in Frames :
    c.pc = "launch" /\ c.kernel # NoKernel =>
      kernels[c.kernel] = [src |-> seen[c.key], dev |-> c.key.dev, knob |-> c.key.knob]

(* Every call returns, whatever its compile launches and whoever compiles  *)
(* meanwhile.                                                              *)
CallsReturn == \A t \in Threads : Active(t) ~> ~Active(t)
=============================================================================
