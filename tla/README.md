# A TLA+ model of intj

intj puts a C launcher in front of a Triton kernel: a callable that packs its
arguments into a *spec key*, finds the compiled kernel for that key in a hash
map, and launches it, in nanoseconds; only a miss goes to Python and Triton.
These modules model the parts of it that several threads, nested calls, dying
objects and killed processes meet in, TLC checks them on small instances, and
TLAPS proves the main safety properties for every instance.

Paths below are relative to the repository's `src/`.

## 1. The system

| component | state | operations | what is hard about it | what makes it correct |
|---|---|---|---|---|
| **Launcher base**: `intj/runtime/intj_launcher_base.c`, `intj/launcher.py` | a build lock, `build_thread`, the thread-local count of held locks, the C entry, the state block, the options with `delayed`, the compile state | call, `check`, in-place edits, `resolve_delayed`; `delayed` runs user code; `tp_clear` | first calls race; `delayed` calls launchers; a build fails half-way; the garbage collector clears | one at a time inside a launcher, no cycle of waits, an entry never runs before what it uses is there, a failed build can be retried |
| **Kernel cache map**: `intj/runtime/intj_map.h` | the slots, how many are used, a one-entry memo shared by all readers | lookup, put (may grow, may fail), each, free | a growth frees the array under the memo and the readers; hashes collide and wrap | it is a dictionary whose entries never change |
| **Launch and miss**: `intj/render/entry.c.jinja`, `intj/compiler.py` | the map, `_compiled`, `_seen`, a reentrant compile lock | walk, launch under the read lock, miss, compile, fill | no lock is held while Python compiles; a compile may launch the same launcher; knobs and devices change | a launch runs what its arguments ask for, and records never outlive their kernel |
| **Object ids**: `intj/runtime/intj_runtime.h`, `_Interner` | a memo for each slot, the object table, the ids | id of an object | objects die and their addresses return; three tiers under three locks | one id for one value, for ever |
| **Tuning**: `intj/tuning.py`, the walk and fill of `entry.c.jinja` | a private chain of Triton's tuners, a shim, `running`, a record for each level of keys | plan the levels; hit, miss, tune, fill | a run executes user code that may call the launcher; two threads fill one key; a level's key reads what an earlier level's record holds | one run at a time; a hit launches what Triton's chain would; no value is read before its level, or stored where its calls differ |
| **Dependency provisioning**: `intj/render/deps.py` | a directory shared by all processes of the machine, two markers, a flock | look (unlocked), install, `--force` | processes fail and are killed anywhere; cmake may outlive them | what looks provisioned is whole; nobody waits for ever |
| **Module build and load**: `intj/render/module.py`, `build.py`, `key.py`, `launcher_base.py`, the stub in `launcher.py` | `_LOADED`, the launcher type, `.so` files by digest, staged files by pid | digest, compile, install atomically, load, choose another access mode | threads of one process, processes of one directory; any step fails or is killed | what is loaded is whole; what is published is initialized; one of each in a process |
| **Plan, options, annotations**: `intj/plan.py`, `annotation.py` | none once planned | merge a parameter's sources, check options and dynamic values, bind, choose how a call is read | six readers index one call, in Python and in C; a baked value vanishes from the key | every reader finds the value it means; a baked value compiles what passing it would |
| **Specialization**: `intj/specialization.py`, `annotation.py`, `render/context.py`, the packing in `entry.c.jinja` and `intj_runtime.h` | the layout of the key | place fields, pack, `compiler_input` | two implementations, in C and in Python, of what Triton specializes on, over boundary values; a tensor's `ptr_range()` is user code | calls whose compiles differ have different keys; C passes what the kernel takes |
| **Grids and heuristic lowering**: `intj/grid.py`, `heuristic.py`, `intj_runtime.h` | an evaluation's temporaries | each node of an expression, checked int64 arithmetic | overflow, floor division, short circuits, an int that is a bool | C computes what Python would, or raises |
| `compat.py`; imports and backends; foreign struct readers; C++ maps | little or none | | | left aside, see section 7 |

**How they interact.** `make_launcher` makes an unbuilt launcher whose C entry
is a shim. The first call takes the build lock, resolves `delayed`, *plans* the
launcher, has *module build and load* make the extension (provisioning a C++ map if
one was asked for), and swaps the entry. A call is read as the plan says, packed into a
*spec key* (asking *object ids*), walks the *map* level by level (evaluating *lowered
heuristics* for a level's key), evaluates the *grid* and launches under the map's read
lock. A miss calls `_compile_miss`: `KernelCompiler` for a plain kernel,
`TunedCompileState` for a tuned one, and `intj_fill` puts the record. The
callbacks are where control leaves: `delayed`, a compile's hooks, a tuner's
hooks and grids may all call launchers again on the same thread.

## 2. The modules

```
LauncherLife <== LauncherBuild <- LauncherBuildProps <- LauncherBuildProofs <- MCLauncherBuild
KernelDict   <== KernelMap     <- KernelMapProps     <- KernelMapProofs     <- MCKernelMap
                 LaunchMiss    <- LaunchMissProps    <- LaunchMissProofs;      MCLaunchMiss
                 ObjectIds     <- ObjectIdsProps     <- ObjectIdsProofs;       MCObjectIds
TuningPlan    <- TunedLaunch   <- TunedLaunchProps                          <- MCTunedLaunch
                 ModuleLoad    <- ModuleLoadProps    <- ModuleLoadProofs;      MCModuleLoad
                                  TunedLaunchProps <- ModuleLoadProofs, too
                 DepsInstall   <- DepsInstallProps   <- DepsInstallProofs;     MCDepsInstall
PyScalar      <- Lowering      <- LoweringProps      <- LoweringProofs;        MCLowering
KeyLayout <- CompileOptions <- SpecKey <- SpecKeyProps
                               SpecKey <- AnnotationMerge <- LaunchPlan
                               SpecKeyProps, LaunchPlan <- SpecKeyProofs;  MCSpecKey
KeyLayout <- CallShape, which SpecKeyProps and LaunchPlan extend
```

`<-` is EXTENDS, `<==` a refinement: the detailed module implements the abstract
one under the mapping its Props module gives.

Every module of the middle column also holds a few *likely slips*, operators
that no specification uses: each is one of the definitions with a plausible bug,
and shows of a property that it would notice that bug.

- **LauncherBuild.** `lock`, `buildThread` and `held` are the C lock,
  `build_thread` and the thread-local count; `entry`, `state`, `compileState`
  and `options` are the four things a build publishes, each in an action of its
  own because another thread, or a failure, may come between them. Threads have
  stacks of frames: a `delayed` begins further operations. `LauncherLife` is
  what a user sees of one launcher: edited until it is built, from exactly the
  options it then has.
- **KernelMap.** Open addressing with linear probes over `0 .. mask`, the
  memo as an (array, slot) pair in which the array is a number that every growth
  changes, so that a pointer into a freed array is visible. `hash` is any
  function. `KernelDict` is the dictionary it stands for.
- **LaunchMiss.** The map is a function here (KernelMap shows that it is one).
  A spec key is a device, a knob value and a part; `SourcesOf` says which compiler
  inputs a part's calls may have, so both a key that determines its input and one that
  does not can be asked about. `owner` and `count` are the reentrant lock, and
  `Owned` says which kernels the launcher keeps alive, by map or by record.
- **ObjectIds.** `heap` says what object lives at an address; only an address
  that nothing references can change. `same` and `content` are the object
  table's two kinds of entry, `ids` and `taking` the interner and its lock.
- **TuningPlan.** `analyze` and `tuning_render`: which names a chain of layers assigns,
  which keys are exact, and the level at which each value that depends on tuning is known,
  for any chain. A layer is a tuner with its keys or a set of heuristics with what each reads.
- **TunedLaunch.** The private `Autotuner`'s cache (`chain`), the shim's last
  call (`final`), what the running miss set (`mine`), the reentrant lock, and the
  records (`rec`), addressed by the keys on the way to them, one for each of the plan's levels.
  Values are bits and a heuristic is the parity of what it reads, so that it depends on each
  of them; Triton's evaluation (`Evaluate`) and the walk's (`ComputeLevel`) are separate, and the
  fill compares the two, as the code's does.
- **ModuleLoad.** `so` and `staged` are the files of one shared directory, the staged ones
  by pid; `cpp` says whether a process's C++ compiler can build the static access mode. `stub`,
  `tuned` and `modules` are the process's launcher type, its subtype for tuned kernels and
  `_LOADED`, each behind its lock. A thread makes a
  launcher, then builds it; `Kill` ends a process between any two steps and starts it again under
  the same pid, which is what makes a half-written staged file meet a second writer.
- **DepsInstall.** `disk` is the set of files under the source root; `pc` is a
  process's place in `_provision`, `toolchain_for`, `install`, `_unpack` or
  `_cmake_build`. `rmtree` removes file by file in any order and, since it ignores errors, goes on
  whatever is left; `cleared` is a history variable, whether this install's last `rmtree` got
  rid of the source marker. `Killed` drops the flock and forgets what the process knew; with
  `Survives` the killed process's cmake goes on (`orphan`).
- **PyScalar and Lowering.** The emitted C runs next to the Python it was lowered from. An
  expression is evaluated bottom up: an action of a node pops its children's results and
  pushes its own, computed by C (`c`) and by Python (`py`), so that a state is a stack of
  subexpressions of any shape. Either may raise; Python's result is "outside" where an integer
  has left int64, and there C must raise. The branches not taken of `if`, `and` and `or` leave
  no trace in either. The width is a constant. `Baked` are the ints Triton lets a launcher bake, up
  to uint64's: a grid refuses those beyond int64, a heuristic spells them into its C, where gcc reads
  them as `__int128` constants, exact in a comparison and wrapped in an `int64_t` (`AsInt64`).
  `wide` is a history variable, whether the evaluation has spelled one.
- **KeyLayout and SpecKey.** A launcher is its parameters' annotations. `Place`
  is a step of the loop in `_layout_fields`; then calls are packed one parameter at a time,
  by `Pack` or, without annotations, by `PackAuto`, the inlined path. `cache` holds the
  compiler input that `compiler_input` makes of a key's first miss. Widths of integers are
  scaled (`Bits`), and a float is the number that its bits are. What is modelled is
  `verify_annotation` on: off, the code promises nothing of values that break an annotation.
  Triton's own `specialize_impl` is external.
- **AnnotationMerge, CompileOptions, LaunchPlan.** Functions, not actions: what a user's
  option comes to. Each check of the code is a set that is empty when it refuses, so
  `BuildPlan` of an option is a set of no launcher or one. MCSpecKey gives SpecKey the
  launchers of a few thousand options: what is keyed, packed and compiled in the run is what
  the plan makes, and not a launcher made up for the model.
- **CallShape.** The signature of a launcher, and for each reader (the C parser, the
  tensor packing, a grid's extra arguments, the tuned miss, `bind_call` and the Python
  grid) the index at which it looks for a parameter.

## 3. What the runs check

| run | instance | what it shows |
|---|---|---|
| `build` | 3 threads, 2 launchers, all operations, nesting 2, 1 edit | no wait for a lock while holding one, a built entry is backed, a failed build leaves nothing, refinement of LauncherLife |
| `build_live` | 2 threads, 2 launchers, calls and edits | every operation returns |
| `map` | 2 threads, 3 keys, 4 hash values, 2 to 8 slots | half full, unbroken probe chains, the memo, pinned readers, free, refinement of KernelDict |
| `miss` | 2 threads, nesting 2, 2 knob values, 2 loads; a part with two inputs, one of which another part shares | the lock counts loads, records are owned, the second walk hits, and a key that leaves its input open still never launches two |
| `miss_live` | 2 threads, nesting 2, 2 devices | launches run their own input on their own device; every call returns |
| `ids` | 2 threads, 2 slots, 2 addresses, 4 values | ids are distinct and stay; memo and answers are true |
| `tuned` | every chain of up to 3 small layers planned; 4 of them launched, of 1 to 3 levels, by 2 threads, one with calls within calls | no level reads what is not known yet, or stores what its calls do not share; one run at a time, launches and grids as tuned, no two records differ |
| `speckey` | 390 launchers, what the plan makes of 3531 options, of 0 to 6 parameters; 35 values, a device that would alias another | fields and device slot lie apart; a hit was compiled for its own arguments; C packs the slots its kernel takes; a baked value compiles as if passed; all readers of a call agree |
| `lower` | every expression of depth 3 over a 4-bit machine, with 4 baked ints of which 2 are beyond int64 | lowered C is Python, or raises, in every node of a grid and of a heuristic that has read no wide int; dimensions fit |
| `load` | 2 processes, one of 2 threads, 1 directory; a compiler that fails or differs | loaded is whole, published is ready, one of each in a process, no mode the user did not allow |
| `deps` | 2 processes, 2 libraries, `--force`, failures, kills, surviving cmakes, an `rmtree` that leaves files | until the first `--force` marked is whole and toolchains are whole; an install whose `rmtree` got rid of the source marker ends with a whole tree; every caller comes back |
| `deps_force` | as `deps`, no cmake survives | *violated*: see section 6 |

Two more configurations are kept beside the runs, each with one invariant that TLC finds violated in
seconds, for section 6: `MCDepsDiscard.cfg` (of MCDepsInstall, `ForceDiscards`) and
`MCLoweringBaked.cfg` (of MCLowering, `ComputedIsTritons`).

**Why the bounds are enough.** Two threads race for anything, and three show a
third that waits while two contend; nesting 2 is the first that re-enters, and
the code refuses or serves a re-entrant call at any depth alike. Three keys in
two slots that grow to eight make every probe chain, collision and wrap that
`find` and `put` tell apart (`Cap`, two, stands for the code's initial capacity).
Two addresses are enough for one to come back as another value while the other
is in use. One edit is lost or it is not. Three layers are the least in which a
heuristic reads one that reads a config (`MaxLayers`); a chain's `varies` and `depth` say which
of its calls' arguments differ and how deep a miss's user code calls. A wrong hit takes two calls, so one record in
the cache is enough (`MaxKernels`); its `Ints` has both sides of every bound of 8, 16, 32 and
64 bits, signed and unsigned, multiples of the divisor and powers of two, with the widths scaled. Of `lower`'s machine
every value and every pair is tried; four bits leave room for dimensions that fit, positive integers that
are too large for one, and negative ones, and three results on the stack (`Depth`) are what the
widest node, `if`, takes; `Literals` are those a program may spell, and `Baked` has the ends of both types. `lower` follows a
heuristic until it has read a wide int (`UntilWide`): its two invariants say nothing of such a
heuristic, and it stays one. Two libraries are the least that can be half there.
`MaxEdits`, `MaxLoads` and `MaxDepth` cap what is otherwise unbounded;
nothing else is cut. Symmetry is used for threads, launchers, addresses, keys
and slots where no liveness is checked.

Deadlock is checked in `speckey`, `load` and both `deps` runs. In `build`, `build_live`,
`map`, `miss`, `miss_live` and `ids` the bounds on edits and loads, or the map's end, stop the
system; in `tuned` a chain that is only planned, and in `lower` an evaluation that has returned, is at its end.

## 4. Fairness

A thread or process that can take its next step does (weak fairness of own steps:
`OwnStep` in LaunchMiss and LauncherBuild, `Step` in DepsInstall): the operating system
schedules it. A lock that is free again and again is at last given to each waiter (strong
fairness of taking it: `LockGranted`, `TakesLock`, `Lock`, and `Fill`, which takes the map's write lock):
pthread mutexes, the interpreter's locks and flock queue their waiters, none promises an
order. User code, a `delayed` or a compile, ends (strong fairness of `DelayedEnds` and
`LoadEnds`): the code can promise nothing if it does not. Kills, failures, garbage
collection, new calls and edits have no fairness. Under this
`EveryOperationReturns` and both `CallsReturn`/`CallersReturn` hold. The other runs state no
fairness: their properties are of safety.

## 5. What is proved

For all values of the constants, from the assumptions on them that the modules state (names for
"nobody" are not members, bounds are positive, values are pairs of kind and
name, the library names are not those of the markers):

- **LauncherBuildProofs.** `TypeCorrect`, `BuildsExclude`, `NoWaitCycle`,
  `EntryBacked`, `RetryNotRefused`, and `LauncherImplementsLife`, every step of
  the launcher base is one of the abstract life or a stutter. The invariant
  `IInv` adds to the checked properties what each frame knows at its place: a
  body's options are the launcher's options, a publisher's state is its own.
  Without it the exclusion says nothing of what was read before.
- **KernelMapProofs.** All that its run checks: `MapWriterAlone`, `MemoNeverDangles`,
  `LaunchesFromItsSlot`, `AtMostHalfFull`, `EveryRecordIsFound`, `FreedIsUnseen`, and `MapIsDictionary`,
  each step of the map is one of KernelDict or a stutter; for any keys, hashes, threads and number of
  growths. The lock admits readers or one writer; a memo is set by a reader, under the lock, to a slot
  of the current array, and every put clears it. `Table` is what the slots must be: each live one is
  reached by its own key's probe through live slots only, no two hold one key, `used` is their number
  and at most half. A probe loop is then about the *least* number at which it stops (`LeastNumber`, from
  the well-foundedness of the naturals): within half a table there is one, so a free slot ends the
  loop, and storing into the first free one breaks no other chain. The rehash is an
  induction over the old array's slots, done with the set of those moved so far (`UpTo`).
- **LaunchMissProofs.** `LockIsCounted`, `RecordsStayOwned`, `RewalkFinds`, `LaunchesOfFirstInput`,
  `LaunchesOfOwnInput`: all safety of both runs. The invariant ties the reentrant lock's count to
  the calls on its owner's stack that are between taking and leaving it (`LockCounted`; every call but the
  innermost is in a load, `Nested`), every record, compiled kernel and seen key to
  the input it was made for (`CacheRight`, `CompiledRight`, `SeenRight`), and each call, wherever it is on a
  stack, to what it has found (`CallsKnow`). `LaunchesOfOwnInput` assumes what
  `miss_live` instantiates: that a key's part determines its source, which `HitsAreRight` below proves of
  the spec key.
- **ObjectIdsProofs.** `DistinctValuesDistinctIds`, `RememberedIsTrue`,
  `AnswersAreTrue`, `IdsNeverChange`. Ids are the numbers 0 to n - 1 (`IdsDense`), and the
  thread that is to take one holds the interner's lock, so the next id is new; an address
  that a memo or the table knows is referenced, so its object cannot change;
  a thread that has an id has the right one.
- **ModuleLoadProofs.** `OnlyWholeFilesLoad`, `OnlyReadyIsPublished`, `OneTypeOneModule`,
  `ModeIsTheAskedOne`: all that its run checks, for any processes and threads, whatever is killed. A staged
  file belongs to the one thread of its pid that holds the load lock, so what is
  renamed into place is whole (`FilesWhole`); a thread that builds knows, by the lock it is under, that
  nobody has loaded its module yet (`ModuleKnown`). The module ends with `TunedRunsAlone`, of TunedLaunch,
  a launcher of the `tuned` type, for any threads, chains and nesting of misses; its names are apart from ModuleLoad's
  (`TunedSpec`, `TopAt`). The invariant (`RunInv`) ties `running` to the one call, on whichever stack and at
  whichever depth, that is between `Run` and its end: the lock is reentrant and would let a second one of its own
  thread in, so it is `running`, and not the lock, that keeps it out; and what the run set can only be
  the arguments of that call.
- **DepsInstallProofs.** `HalfTreesLookUnprovisioned` and `ToolchainsAreWhole`:
  until the first `--force`, with or without surviving cmakes. The tree
  grows in one order, sources, libraries, mark, and the only process that may
  remove anything is one that, under the lock, saw no source marker. `ClearedRepairs`
  holds after it, too: an install that ends leaves a whole tree if its `rmtree`, forced or the sweep
  before a new tree is placed, got rid of the source marker. Its invariant (`RInv`) is of the process
  that holds the lock only: what is not on the disk it has still to make.
- **SpecKeyProofs.** `FieldsStayApart`, for any number of parameters. Widths are 1,
  2, 4 and 8 and the widest field goes first, so the bytes given away are a
  multiple of every width still to come. In any other order they would not be,
  which the mutant that keeps the fields' own order shows. `EveryReaderAgrees`: for any number
  of public, baked, bound and dynamic parameters and any grid, all readers of a call, in C
  and in Python, read the same thing. A signature is a concatenation of parts (`Joined`),
  each reader's index the length of the parts before its own, and a parameter's place in its part the
  number of its kind before it (`InOrderRank`).

  `HitsAreRight`, `SlotsAreRight` and `BakedIsAsPassed`, the other three that its run checks, rest on one
  invariant, `HitInv`: the placement's (`LayoutInv`), what the call under way has packed so far
  (`CallInv`), and that every record in the cache was compiled for a call that its key belongs to
  (`CacheInv`). For a *hit*: fields lie apart, so of two calls with one key each field has one content. A descriptor tells
  an argument's type and the facts found of it, a descriptor with its payload the value of a constexpr, since the payload
  has as many bits as the type or more; where the annotation leaves nothing to find out, no field is needed. So both calls
  compile to the same input, one kind of parameter at a time. For the *slots*: what C has pushed after `n` parameters are the
  slots of those that push one, in their order, on the general path as on the inlined one; and a
  parameter pushes just where its entry of the compiler input is no constant. For a *baked* value: the merge infers its
  type and decides each fact that a call would find out, so the parameter without the value would have that type among its
  own, and C and Triton would read those facts of it.
  `PlansAreTyped` closes the loop: SpecKey's proofs assume of a launcher's annotations what C's packers take for granted
  (`AnnotationsTyped`, `FixedFit`, `CallsTyped`, `LaunchersTyped`), and every launcher that `BuildPlan` makes of an
  option has that, because the merge, the bind and the plan check it. What is left to assume is of the
  inputs: an option is well formed (`OptionsTyped`, as the constructors of the annotations guarantee;
  section 7), a call's values are values,
  the numbers of values of the integer types are even and divide one another (`SizesAssumption`), the divisor
  divides that of 64 bits (`DivisorAssumption`), and devices are numbers (`DevicesAssumption`). They are as true of
  the code's widths and its divisor, 16, as of the scaled ones of the run. `LaunchersPlanned` says that the launchers are
  those planned.
- **LoweringProofs.** `ArithAgrees`, `ExpressionsAgree`, `DimensionsAgree`: for an int64 of any
  width, any literals and any baked ints, in expressions of any shape and depth, C's result is Python's, or it
  raises where Python does or leaves int64: in every grid, and in every heuristic that has read no
  baked int outside int64 (`WithinInt64`; for the others it is false, section 6). The invariant says so of every
  result on the stack, and that its static kind is true (`AllRight`), until a heuristic turns `wide`, which a grid
  never does; each node keeps that, floor division and modulo (C's truncated ones,
  corrected) by the uniqueness of quotient and remainder, overflow by its bounds.

Every safety invariant that a run checks is proved, but for three. Only model-checked are:

- *liveness*, `EveryOperationReturns`, `CallsReturn` and `CallersReturn`, which is beyond the prover;
- `LevelsRight`, `AsTuned` and `NoMismatch` of TunedLaunch. All three are about what a chain of layers
  computes: `analyze`, Triton's evaluation and the walk's are folds over the chain and, within it, over a
  layer's entries, and records are addressed by the values along it. That two calls which reach one record share what it
  stores is an induction over the chain, on data, which the prover cannot do. What does not depend on what the
  chain computes, whose run it is, is `TunedRunsAlone`.

The type invariants of LauncherBuild, KernelMap, ObjectIds, LaunchMiss, ModuleLoad and DepsInstall are part of
the inductive invariants and proved with them; that of Lowering is its invariant.

## 6. Where the code and its comments differ

- `intj/render/deps.py:74` says of the built marker "written last, so a half-finished build
  tree never looks provisioned". `install(force=True)` removes the tree with
  `rmtree`, the marker somewhere among the rest. While it does, and after it is
  killed, the markers may stand over half the libraries, and
  `toolchain_for` gives that to anyone (`deps_force`). A forced install repairs it if its own `rmtree`
  gets rid of the source marker (`ClearedIsWhole`). Removing the two markers first would make the comment true.
- `intj/render/deps.py:186` says of the option "Discard an existing (possibly half-written) tree
  first", and `:233` advises it "to discard a half-written tree first". The code is `shutil.rmtree(root,
  ignore_errors=True)`, and nothing looks at what is left. If the source marker could not be removed,
  nothing is downloaded; if the built marker could not either, nothing is built, and the
  half-written tree is returned as a toolchain (`MCDepsDiscard.cfg`).
- `intj/render/entry.c.jinja:809` says "The lowering must agree with Triton's own evaluation, kind
  included." A baked value is spelled into a heuristic's C as `str(int(value))`
  (`intj/heuristic.py:318`) with no check of its range, though a literal is checked (`:325`), a grid's baked
  parameter is (`intj/grid.py:203`), and a uint64 may be baked (`intj/annotation.py:556`). Beyond int64 the
  constant wraps where it is computed with, so a heuristic such as `lambda a: a["N"] // a["BIG"]` divides by
  another number (`MCLoweringBaked.cfg`). A miss compares its result with Triton's and raises "this is an intj bug"
  if they differ; a later call that C computes a stored key for is a hit and is not compared with
  anything, and launches that key's kernel. Checking the range there as in the grid would refuse
  the launcher instead.
- `intj/render/deps.py:181` says "One installer at a time, machine-wide", and that
  without the lock they would cmake into one build tree. When a process is killed by a signal it cannot
  handle, its flock goes and its cmake stays; the next installer starts another in the same tree
  (`OrphanEmits` in `deps`). The model takes a library to appear whole, so it shows two builders and no
  damage; what two cmakes do to one archive is outside it.
- `intj/tuning.py:317` refuses a lowered heuristic that reads a value before its level with "this is
  an intj bug". A chain in which a heuristic reads a name that a later entry of the chain
  assigns gets this refusal, too. `LevelsRight` says it is never met by a chain
  Triton can run (`Runnable`).
- `docs/Usage.md:193` says that a name in `options=` which is also a `tl.constexpr` parameter's
  is refused. `_check_parameter_clash` (`intj/plan.py:305`) asks the def whether a
  parameter is one; `parameter_options` (`intj/compile_options.py:132`) asks the merged annotation. A
  plain parameter made `Constexpr` by `extra_annotation` is one for the second only: its calls'
  values then set the option that `options=` fixed, and `dynamic_options` refuses it as "a runtime
  kernel parameter". LaunchPlan and SpecKey model both as they are.

## 7. What is not modelled, and why

`compat.py` is an `lru_cache` in front of `make_launcher`, without a state of its own; it reads the
knobs when it looks a launcher up, which the launcher does again at its first call. `_imports.py` and
`backend.py` are a lazy import and a table. `torch_intf` and `python_intf` are offsets of
foreign structs, and their readers' correctness is a fact about other projects' layouts.
tsl and abseil maps are third-party.

Of what is modelled:

- *Plan and options*: the scan of a kernel's globals, warnings, the Torch access mode, what
  `no_gpu` refuses, override_compile (a hook for tests), the clash between a tuner's names and options.
- *Annotations*: spellings (strings, postponed names, unions of typing) and the checks in
  the constructors of `Fact`, `Assume` and `Argument`; the model starts from sources that are well formed.
- *Specialization*: computed keys and tuned parameters in a spec key; tensors whose
  dtype Triton does not take; `verify_annotation` off; an exact key of a `x: float` parameter beyond
  the double it is converted to (two integers that round to one double share a key, and so a
  tuned config).
- *Kernel cache and ids*: the hash function itself, the object table's own probing, the weak
  table's collection.
- *Tuning*: the checks of the configs' options, the tuners' default hooks, a chain of
  two tuners once it is launched (it is planned).
- *Grids and heuristics*: plain `py`, C and constant grids; which source text a function is; how
  compilers other than gcc read a decimal constant beyond int64.
- *Module load*: the fields of a key and the compiler's flags are one value each; two hosts
  that share a `TRITON_HOME` may have processes of equal pids and meet in one staged file
  (`intj/render/build.py:362`), which `PidAssumption` excludes.
- *Provisioning*: the scratch directories an install leaves.

Three hazards have no property. A read-write lock that prefers readers can starve the put of a
record: its scheduling is outside the code. Two launchers whose compiles launch each other from
two threads take two compile locks in opposite orders: nothing excludes it, and LaunchMiss is
of one launcher. A declared knob that changes under a compile breaks a rule for users in
docs/Usage.md. What intj's own TODO.md excludes (fork, changing knobs behind a launcher's back)
is excluded here.

## 8. Plan

Done, in this order: LauncherBuild (the core: everything else runs behind it),
KernelMap, LaunchMiss, ObjectIds, TunedLaunch, DepsInstall, KeyLayout and SpecKey; then ModuleLoad,
PyScalar and Lowering, TuningPlan under a TunedLaunch of any number of levels, and AnnotationMerge,
CompileOptions, CallShape and LaunchPlan under SpecKey. Proofs of what the runs
check followed: LauncherBuild, ObjectIds, DepsInstall, the placement and the readers of KeyLayout and
CallShape; then ModuleLoad, LaunchMiss, Lowering, an install over what was there, and the map's refinement of KernelDict;
then SpecKey's hits, slots and baked values, the plan's types, and TunedLaunch's runs. What could follow:

1. Of TunedLaunch, the half of `NoMismatch` that is about the lock and the cache: that `chain` keeps a key's config, once
   picked, is a step property that `CleanUp` could break. The other half waits for an
   induction over layers.
2. TunedLaunch's keys as SpecKey packs them: a level-0 key with computed heuristics, and tuned parameters in it.
3. A launcher base above LaunchMiss, for the two compile locks of launchers that launch each other.
