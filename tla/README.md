# A TLA+ model of rxla

rxla is a Rust tensor stack. A lazy tensor API and an effectful state API record
operations in one SSA graph (Pliron); the graph is verified and lowered to
StableHLO, compiled by XLA through PJRT, cached in memory and on disk, and
executed on devices. Host-side input pipelines feed it. This directory holds
TLA+ modules translated from the source under `src/crates/`, TLC configurations
that check them on small instances, and TLAPS proofs. `PROJECT.json` maps every
definition to the lines it models, and lists components, runs, findings,
hazards and theorems.

## 1. Inventory

How the parts hang together: `rxla-nn` (the `Cx` effect context, layers) and
`rxla-core` (Tensor, StateGraph, Runtime, Compiler) build programs in
`rxla-ir`; `rxla-core` hands lowered programs to the `Compiler`, whose misses go
to `DiskCache` and then to the plugin through `rxla-pjrt`; a `Session` runs the
executable over resident state; `rxla-train` holds the host input pipeline and
the optimizers, which write state through `Cx`; `rxla-safetensors` and
`rxla-onnx` load weights and models.

| component | state | operations | hard behaviour | what makes it correct | modules |
|---|---|---|---|---|---|
| `rxla-train/pipeline.rs`, parallel stage | three bounded channels, a locked receiver with a claim counter, a closeable semaphore, a reorder map, thread handles | `from_iter`, `map_parallel_ordered`, `recv`, `finish`, drop | threads, backpressure, first-error cut, panics, join order | ordered, bounded, no deadlock, no leaked thread | ParallelPipeline, OrderedStream |
| same file, `map` and `ShufflePool` | a channel per stage; a pool with a pending error | `map`, `next`, `recv`, `finish` | closure propagating upstream; an error behind a partly filled pool | one shuffled stream, errors in place | StageChain, ShufflePool, ShuffledStream |
| `rxla-core/compiler.rs` | map of executables, LRU queue, byte count, counters | `compile*`, `invalidate_memory`, `clear` | two structures kept in step, multi-entry eviction, two-tier fall-through | limits, recency, right executable | CompilerCache |
| `rxla-core/disk_cache.rs` over `rxla-cache` | files in a directory shared by processes | `load`, `store`, `invalidate`, `inspect`, `trim*` | no locks: every file call interleaves; crash; I/O errors; damage | only whole, matching entries; budget met; others untouched | DiskCache |
| `rxla-core/state.rs`, tracing | graph, current version per slot, argument list | `input`, `state`, `write_many(_if)`, `update`, `compile(_pruned)` | state as SSA versions, simultaneous updates, pruning of the ABI | the compiled program is the imperative one | StateTrace |
| `rxla-nn` `Cx` | parameters, conditional depth, the StateGraph | `param`, `state`, `cond_many` | two branches traced one after the other from one snapshot; failing branches | as above; no value of a closed region in use | StateTrace |
| loops: `tensor_handle.rs`, `rxla-ir/program.rs` | operation list with markers, then regions | `while_loop_many`, `append_while` | traced against initial values, rewritten later | the loop does what its closures mean | WhileRegion |
| lazy evaluation: `tensor_handle.rs`, `frontend.rs` | growing graph, input list, in-flight set, per-tensor binding | tensor operations, `eval_many`, `eval_many_async`, `wait`, drop | three locks taken separately; graph cut under readers; failures | a tensor is bound to its own value; leases returned | LazyEvaluation |
| `Session` | buffers per slot, fixed inputs, the program | `run`, `bind_inputs`, `bind_parameters`, `switch_program`, `replace_state`, copies | commit after validation; renumbered inputs; several programs over one state | all slots commit or none; each value at its parameter | Session, SlotStore |
| rxla-nn schema and calls | schema, selection, bound buffers | `input`, `param`, `state`, `bind`, `run*`, stages | two numberings of one declaration list | each argument gets its own buffer | ModelAbi |
| random state | key and 64-bit counter per stream, in slots | `draw`, `split`, `commit`, named streams | proposals, stale commits, carries | no block is drawn twice or skipped | RandomStream |
| optimizers, EMA, gated state | state slots | micro-step, apply, hand-over by name | one compiled step with masks | one update per step, as on the host | TrainingStep, OptimizerLoop |
| YOLOX training program | data stream, session, snapshots on disk | train, snapshot, resume, crash | replay, two schedules, changing sizes | resuming is exact | TrainingRun |
| `rxla-pjrt` runtime | native buffers, events, DMA mappings, owners | uploads, downloads, submit, donate, shard, wait, drop | asynchronous completion, plugin faults, five clean-up paths | nothing freed under the device | PjrtObjects |
| `rxla-safetensors/residency.rs` | reserved-bytes counter, copies, holders | `prefetch`, `bind`, drop | reservation and copies are separate steps; roll-back | never above budget, returned once | ResidencyPool |
| `rxla-pjrt/distributed.rs` | map under a mutex, condition variable, callback state | blocking `get`, `put`, client creation and destruction | notification after unlocking; callbacks into owned state | no lost wake-up, no freed callback state | KeyValueStore |
| tensor methods, shapes, layers | none (pure) | about 150 methods | case analysis, axes, windows | agreement with a definition | TensorOps, ComposedOps, LayerOps and their meanings |
| automatic differentiation | none (pure) | live pass, reverse sweep, gradients of gradients | refusals before appending; order of contributions | gradients are adjoint | Autodiff, OpTangents |
| IR verification, lowering | none (pure) | verify, convert, emit | operand types, signatures of pruned programs | what is recorded verifies and means the graph | OpVerifier, StablehloLowering, GraphProgram |

The remaining components are in section 6.

## 2. Plan

Done: every module of the table, in the order pipeline, caches, tracing and
loops, lazy evaluation, sessions, device objects, training, algorithms; then the
proofs of section 4, component by component.

What is left to model-checking alone, and why, is at the end of section 4.

## 3. Modules, runs and what they show

Definitions named as mutants in a comment are deliberately wrong variants of the
definition next to them: they document which slip each property would catch and
are used by no specification.

### The runs

Components that share no state are checked side by side in one run: a variable
`part` says which of them a behaviour moves, the others stay at their initial
state, and the fairness conditions name the part they are about. This checks
exactly the behaviours of each component alone; what crosses components is
stated as the input or environment of a module (the file a compiler finds, the
order a pipeline keeps).

| run | parts | result |
|---|---|---|
| `parallel_stage` | ParallelPipeline | all properties hold |
| `caches` | CompilerCache, DiskCache | all properties hold |
| `graph_building` | StateTrace, WhileRegion, LazyEvaluation | all properties hold |
| `training` | TrainingStep, StageChain, TrainingRun, RandomStream (twice), ModelAbi | all properties hold |
| `device_resources` | PjrtObjects, ResidencyPool, KeyValueStore | all properties hold |
| `programs` | GraphProgram over 15 families, Session | all properties hold |
| `parallel_stage_panic_hang` | ParallelPipeline | violated: `finish` hangs |
| `while_shared_initial` | WhileRegion | violated: carries confused |
| `state_branch_converted` | StateTrace (in MCGraphBuilding) | violated: a branch's value escapes |
| `lazy_lift_race` | LazyEvaluation | violated: a wrong value is bound |
| `searchsorted_past_end` | GraphProgram | violated: position past the end |
| `donating_binding` | ModelAbi | violated: buffers swapped |

### OrderedStream, ParallelPipeline

`OrderedStream` is what `BoundedPipeline` promises its consumer: items in source
order, nothing after the first error, an end only after the whole source or that
error. `ParallelPipeline` is `from_iter` followed by `map_parallel_ordered`: one
thread per process (source, workers, collector, consumer), program counters for
the points where a thread can block, channels as bounded sequences. A condition
variable is modelled with its wait set, so that a lost wakeup shows; spurious
wakeups are an action. The iterator and the transform are the function `outcome`,
chosen in `Init`: fine, an error, or a panic at each item. `CompletedHasRoom` is
backpressure, `ImplementsStream` the refinement. A worker that panics while it
holds a credit never returns it: `FinishReturnsIntact` claims that `finish`
returns unless a credit has been lost so (`Intact`), and
`parallel_stage_panic_hang` shows what happens otherwise.

The instance has 3 items, 2 workers, 2 credits, errors and panics. Two workers
are the smallest number with reordering, two credits the smallest with an item
behind a slow one, three items the smallest where an item follows an error that
follows an item. Fairness: weak fairness of every thread's step (the OS
schedules runnable threads), of a `recv` or join that can return. Nobody has to
call `finish` or drop the pipeline, and spurious wakeups are not fair.

### ShuffledStream, ShufflePool, StageChain

`ShufflePool` is the shuffling iterator as functions of a pool and a random word;
`StageChain` runs it as the source of a chain of `map` threads.
`ShuffledStream` is the promise: each item once, no earlier than the pool allows,
the source's error at a place no random choice can move, the first error last.
Four items through a pool of two and two maps, channels of one, with or without
an error of the source, and maps that fail or panic on at most two items, next to
each other in the source. An item has at most one fault: no map sees it after the
first. Fairness as above; the consumer need not call anything, but once in
`finish` it joins.

### CompilerCache

`Compiler` is used through `&mut self`, so a call is one step. State: the map,
the recency queue, the byte count, the counters; history variables record what
each executable was built for and the order of uses. Programs are model values
of different key lengths; compile options wrap the key. The disk tier is reduced
to what one compiler can see: a file is absent, corrupt or valid, I/O may fail,
other processes may remove or damage files between calls. `CacheAccounts` joins
the accounts: map and queue, order of last use, byte count and limits, counters,
no failing `expect`; `RightExecutable` is the promise.

The run has 5 requests over keys of lengths 1 to 6, room for 2 entries and 5
bytes, 4 calls, one damaged file; the medium program is requested without options
only, and a trim after a store removes files from the oldest on. Two calls fill the
cache, one insertion evicts both entries, and a fourth call uses what is left;
the longest key exceeds the byte limit and is bypassed. The theorems of section
4 need none of these bounds.

### DiskCache

Several processes without a lock. `FileArtifactStore`'s steps are one action per
filesystem call: stat, open, create temporary file, write and sync, persist
without clobbering, list, stat each, read each, remove each. A process may die in
any step, an operation may fail, a file may be damaged from outside; each is
bounded by a constant. Ids are pairs of namespace and key because a blake3 hash
is taken not to collide. `EntriesSound`: published files are whole entries of
their name, accepted loads were sound when read, temporary files are accounted
for. `NeverReplaced` and `TrimIsSound` are about steps; the latter has
`TrimSparesOthers` (own namespace only) and `TrimMeetsBudget`.

Three processes, two sharing a namespace and the third with its own and a
smaller entry limit; 2 keys of sizes 1 and 2, a budget of 2 bytes, 3 operations
between them, 1 death, 1 damaged file. Three operations are enough for a store, a
concurrent store or invalidation, and a load or trim across them; two sizes make
the order of removal matter.

### StateTrace

Tracing: `ssa` is the SSA graph, `slots` the current version of each state slot,
`arguments` the StateGraph's argument list next to the graph's own parameter
numbers, `cond` the conditional being traced. A reference interpreter runs beside
the recorder: `known` is the number behind each SSA handle and `store` the slot
contents if the user's program were executed imperatively, taking only the branch
the predicate selects. Inputs and initial states are distinct powers of four, so
that two different sums of them differ. Compilation makes the program (pruned or
not), a session binds visible inputs, and one run evaluates the recorded
dataflow. `RunIsImperative` compares the two, for the visible result and each
slot; `WellScoped` joins the scope properties: current versions and declared
parameters are values of the code being traced (`VersionsInScope`,
`ParametersInScope`), and the argument list names for each parameter number what
was registered with it (`AbiAligned`).

`Limits` is a set of sizes, each with the paths that are resident state: 10
values without a resident parameter, or with one and one bound input, or 8 values
with one and two inputs of which one is bound. They hold a declaration, a
conditional with an effect in a branch, the merge, and a use of the merged state.
The predicate and the mask take both values. Conditionals are not nested; random
streams are in RandomStream. `state_branch_converted` gives the one parameter
another storage dtype.

### WhileRegion

A closure's operand has two forms: what it means (a carry, or a value) and the
SSA value the graph sees, which for a carry is the initial tensor. `EndBody` is
`append_while`: operations go to regions by markers, uses of initial values
become block arguments. The run executes the loop produced beside a reference
loop that evaluates what was meant. The bound is small (2 carries, 4 values, 3
iterations) because `LoopExact` covers all sizes.

The `HashMap` in `append_while` keeps one block argument per initial value; this
is why the theorem needs distinct initial values, and what `while_shared_initial`
shows. Loops and conditionals nested in loops are left out.

### LazyEvaluation

A LazySession with its three locks: the graph, the list of concrete inputs and
the in-flight set. A section under one lock (or both, in `materialize_all`) is
one action, and what code does between two locks can interleave with other
threads. `meaning` is the value an SSA node stands for; `bound` what its tensor
was given. Tensors are Send and Sync and a Runtime can move between threads, so
evaluations run on any thread; the session itself is thread-local, so concrete
tensors enter it on one thread. An asynchronous evaluation frees its thread
while it is submitted.

2 threads, 2 evaluations, 4 values, 2 concrete tensors. Four values are two
inputs, an expression and one that depends on it. `LeasesSound` joins leases
(exclusive while one thread evaluates, none orphaned) and the alignment of the
input list; `BoundRight`: no tensor is given another's value; `CutOnce`: a node
cut to a parameter keeps its number. `SharedLifts` says whether a concrete tensor
may enter the graph while another thread is inside an evaluation; the code
permits it, and `lazy_lift_race` shows the one thing that goes wrong, so the
other properties are checked without it. There is no fairness: an evaluation is a
fixed number of steps, so `NobodyStuck`, which says that an evaluation that has
begun can always continue or waits for a thread that can, is what can fail.

### SlotStore, Session

A program lists its ABI arguments, some visible inputs, some state; slots and
inputs are numbered in registration order, and pruning leaves registrations
without an argument. A session keeps everything by position; `SlotStore` has
names only. `ImplementsSlotStore` is the refinement: runs, replacements, moves
out of and into sessions, copies between clients and switches between programs
act on the named values. `CallsFit`: everything a session would execute with has
the right client and type, and no run can meet a pruned input.

Callers offer zeros or what they hold, complete, one short or doubled, in any
order; mappings between programs are such lists of the pairs of
`map_state_by_name`.

Three programs: one of three slots and two inputs, a second trace of it with
slots and inputs in another order and a pruned input, and the first compiled for
another client; all lists of one or two bindings, well-formed or with one of each
kind of fault; values 0 and 1.

### OptimizerLoop, TrainingStep

`TrainingStep` is the compiled micro-step: accumulation, a mask for "this is the
last micro-batch", momentum SGD, the exponential average, gated model state, all
from one snapshot of the slots. `OptimizerLoop` is the host-side loop it stands
for; `ImplementsOptimizerLoop` the refinement, also across a hand-over of the
session by name to a trace with fewer slots and back. Arithmetic is modulo 7,
where it is exact; F32 rounding is abstracted. Three parameters with different
options, two micro-batches to a step, two steps. With ungated model state the
average's initial value of a model state is the one at the start of the applying
micro-batch; the abstract loop says so too.

### TrainingRun

The training program of `yolox_coco_train_step.rs`: the deterministic data stream
is replayed on resume; the session's state is the sequence of everything it was
run on, which tells any two states apart; snapshots are files written in several
steps, between which the program may die. `ResumeIsExact`: whatever was crashed,
stopped, failed and resumed, session and files are those of an undisturbed run;
`SchedulesAgree`: two schedules counted in different units switch at the same
place. The source of samples has no end, as in the code, where it starts over; a
mixup looks for its partner at most `Reach` samples ahead, by when the pool holds
nothing but images with a box. Three steps of two micro-steps, at most three starts, a source failing at
one read. The constants `MosaicSize` and `ResizeEvery` are 2 instead of the
code's 4 and 10, so that several periods fit.

### RandomStream

A stream is a key and a 64-bit counter (two words of width `2 * Half`, `Half` = 4
in the run, with starts just before a carry and just before the end of the
period); a draw hands out consecutive blocks, a commit moves the counter.
`DrawsAreFresh`: the blocks given out under a key are exactly those between the
counter it started with and the one it has, and none was given out twice. The
cipher is taken as a bijection of the counter. A core sequence that reaches the
end of its period is not accepted, and its draws are not given out. A stream of
`Cx::rng` has no acceptance condition: `EndRun` gives its draws out in any case,
while `finish_rngs` leaves the counter of a stream that wrapped where it was, so
that the next execution gives the same blocks out again (section 5). `overrun`
remembers that this has happened; from then on the property lets that stream, and
no other, give out blocks twice or beyond its counter, but still skip none. In
the run the second start is two blocks before the end of the period and three
blocks are drawn in two executions, so the end is reached, repeated and crossed.

### ModelAbi

A model function declares inputs, parameters and states in any order; the trace
numbers them in the schema and in the StateGraph. Each way of calling (run,
session, donation, two stages, a selection of another trace's parameters)
rebuilds the executable's argument order; buffers are known by the declaration
they were made for and all have one type, so no type check can notice a wrong
one. `CallsBindByName` holds for all calls but the donating ones
(`donating_binding`). The model function passes on the error of a declaration
that fails (a declaration that fails may have pushed its schema entry already:
nn/lib.rs:774-790, 856). Not modelled here: the session builder (in
TrainingStep), the binding-identity check of staged programs, random-state
overrides. Second traces have at most three declarations.

### PjrtObjects

Buffers, one loaded executable, their client, events, DMA mappings, external
owners. Rust releases a native object with its last Arc; the device works on.
Every call that leaves work on the device is an action, and so are the steps of
the device, of a waiting thread and of the drops in field order.
`NativeOutlivesWork`, `DonatedUnreachable`, `ReturnedMeansDone` and, under
fairness of the device and of threads whose wait can end, `WaitsReturn`.

2 threads, 3 buffers (one may have shared clones), 2 calls, 2 devices, 2 handles
of a buffer, plugin faults (a missing output, event or buffer). Names are used in
order and once; the client's handle is dropped before the executable's. After a
plugin fault (runtime.rs:2261) no new work is started, and `NativeOutlivesWork`
and `ReturnedMeansDone` excuse what was already running. Copies rely on PJRT's
own holds on their source.

### ResidencyPool

Threads prefetching three components reserve, copy buffer by buffer and give
back. `WithinBudget`: what is in device memory is reserved, reservations are
within the limit, and all come back. The headroom check reads the allocator
before the reservation and is advisory, as in the code. Handles that callers
clone out of `bindings()` are outside the pool's reach and the model.

### KeyValueStore

One plugin thread per node (3 nodes) publishes its key and gets the others'.
`CallbackStateAlive`, and `StoreAnswers`: a get times out only if its key is
absent at that moment, and no get sleeps on while its key is present. Weak
fairness of `PutInsert` and `NotifyAll` only; nobody promises that a deadline
passes.

### Tensor programs

A graph is a sequence of nodes with the value each denotes on sampled
parameters, in exact arithmetic modulo 31 (NaN, infinities and rounding are left
out; field elements stand for the two irrational constants that occur).

- `TensorValues`, `OpSemantics`: tensors and the meaning of each IR operation.
- `TensorOps`, `ComposedOps`, `LayerOps`: the methods of Tensor and the layers,
  as the operations they record, with their refusals and result shapes.
  `LayerOps` includes the update of key-value caches and of batch-norm statistics.
- `ComposedMeaning`, `LayerMeaning`: what the compositions promise, defined
  without them; `ComposedAgree` compares, with two exceptions that section 5
  explains: `PastEnd` (searchsorted) and `OffCenter` (a crop of an even extent to
  an odd one).
- `Autodiff`: live pass and reverse sweep; `OpTangents`: forward derivatives, from
  the documentation's conventions. `GradientIsAdjoint` compares along a sampled
  direction; `SweepIsWhole`: a refusal leaves the graph alone, an accepted sweep
  is complete.
- `OpVerifier`: `RecordedIsVerified`. `StablehloLowering`:
  `LoweredProgramMeansGraph`, for whole programs and programs cut in two stages.
- `GraphProgram` composes them: up to two calls of methods, differentiated up to
  twice. `MCAlgorithms` has the sampled parameters (15 families) and calls.

Samples contain ties, zeros, both signs, repeated and out-of-range indices,
strides, dilation, padding, groups. A value is used at most twice within one
call; cuts are limited to what was differentiated or the last operand; layer
parameters are operands. Left out: conversions and half types, bounded dynamic
axes, causal masks with −∞, the cuDNN target, finiteness checks of float options.

## 4. Proofs

Proved for every value of the constants, from the assumptions named in the
modules, which TLC evaluates in the runs. `CHECK_DEADLOCK FALSE` appears where
bounds are used up and the system may really stop.

| module | theorems | the invariant, and why it is needed |
|---|---|---|
| ParallelPipelineProofs | `TypeAlways`, `CapacityBound` (StageBounded), `SendNeverBlocks` (CompletedHasRoom), `FinishJoinsAll` (FinishMeansJoined), `StreamImplemented` (ImplementsStream), `StreamAlways` | Types need that a collector about to send has its value. The bound counts, action by action, what leaves one of the five places a credit can be in and what enters another. `JoinInv`: a joined thread is dead and stays dead. `StreamInv`: a value's index is its place in the source, what was delivered is a prefix, every claimed index is where the collector will meet it, nothing stops before the end or the first error. With it every step is a step of `OrderedStream` or a stutter |
| CacheProofs | of CompilerCache: `CacheInvariant`, `AccountsAgree` (CacheAccounts), `ExecutablesRight` (RightExecutable); of DiskCache: `DirectoryInvariant`, `DirectorySound` (EntriesSound), `EntriesStay` (NeverReplaced), `TrimsOwnOnly` (TrimSparesOthers), `TrimsSound` (TrimIsSound) | `QueueInv`: the queue is the retained keys in the order of their last uses, and the byte count its total, so searches succeed and the eviction loop finds room. `BuiltInv`: whatever memory or disk holds under a key was built for its request. `StatsInv`: the counters balance. Nothing locks the directory, so `DirectoryInv` says of each value a process carries from one step to the next what stays true of it whatever the others do. `ScanInv`: of the files a trim has to count none is missed (`Covered`), and one still sound has the size it was found with (`Sized`), so what a trim leaves is at most what its last candidates sum up to (`CandidatesCover`) |
| GraphBuildingProofs | of WhileRegion: `TypeAlways`, `LoopExact` (LoopIsReference, under `~SharedInitial`), `CapturesAlwaysDominate`; of LazyEvaluation: `LazyInvariant`, `LeasesAlwaysSound` (LeasesSound), `AlwaysBoundRight` (BoundRight), all under `~SharedLifts`; `ParametersKept` (CutOnce), without it | `Faithful`: until `append_while` the graph holds the SSA values behind the meant operands, and afterwards the meant operands. The hard step is `EndBody`: with distinct initial values remapping inverts taking the SSA value. `CaptureInv`: what an operation of a closure uses is a parameter, older than the loop, or on its own side of the marker (`Near`), so that the regions built of the marked ranges do not refer into each other. `SessionInv`: each node is a leaf whose number finds its value in the input list, or a sum of earlier nodes, and the numbers are dense; `TaskInv` says the same of the program an evaluation has lowered, so that what it computes is its roots' meaning (`Evaluated`). `CallInv`: no call runs while a tensor is between the two locks of its lift. `LeaseInv`: on one thread, checked roots stay free until they are claimed |
| StateTraceProofs | `TraceAlways`, `RunsAreImperative` (RunIsImperative), `TraceIsScoped`, `TraceIsWellScoped`; of the composition: `BuildingIsWellScoped` (WellScoped); the last two under `Converted = {}` | There is a set of nodes that count, all but those of branches not taken, such that (`GoodNodes`, `Computes`) each of them stands for the number its operation gives on the numbers of its operands, which count too; and (`GoodState`) the current versions count and hold what the imperative execution has in the slots, except while a branch is traced that is not taken. The set is no variable, so the invariant is existential. Declarations and writes only append, and what they have in common (`Grown`) keeps the invariant; closing a conditional moves nodes into regions and appends the merging nodes (`Merging`), of which each picks a node that counts. Regions only refer to what is earlier, in themselves or outside (`RegionRight`), so in an execution, a function recursive over the nodes, the least node that came out wrong would be one with right operands (`ComputedRight`). Pruning keeps every argument that is reached, and an input that is not bound has its rank as its number (`ArgumentRight`) |
| DeviceResourceProofs | of PjrtObjects: `ObjectsInvariant`, `NativeObjectsOutliveWork` (NativeOutlivesWork), `DonatedBuffersUnreachable` (DonatedUnreachable), `ReturnedWorkDone` (ReturnedMeansDone); of KeyValueStore: `StoreInvariant`, `CallbacksSafe` (CallbackStateAlive), `TimeoutsTrue`; of ResidencyPool: `PoolInvariant`, `BudgetKept` (WithinBudget) | Of PjrtObjects, `ObjectsInv`: a native buffer is live exactly while a handle, pointer or call holds it; outputs are their call's own; a lent buffer keeps its caller's handle; a donated one is held by its call alone. Every action obeys one discipline (`Disciplined`) that, with the drops at the end of the step, keeps the invariant. Of KeyValueStore, `Lifecycle`: the callback state exists from before the native creation call until after the native destruction call, and the plugin calls back in between only. Of ResidencyPool, `PoolInv`: the counter is the sum of the payloads of the components between their reservation and its drop, and who holds a component's buffers follows from its phase; a step of one component changes one term of the sum (`OneMove`), and copies never exceed what their component is charged |
| SessionProofs | of Session: `SessionInvariant`, `CallsAlwaysFit` (CallsFit), `SessionsAreStores` (ImplementsSlotStore) | `Fits`: a session's buffers are those of its program's slots, and each binding is what the caller last meant by its name, the free ones numbered by their order among the free ones. `HeldRight`: what a caller holds is a complete list of the slots of one program. A complete list meets every slot because an injection of an interval into itself misses nothing (`Pigeons`), and orders are dense (`Ranks` in Counting). So a parameter receives the value of its name (`ArgumentRight`), and every operation is one of `SlotStore` |
| SessionProofs | of ModelAbi: `ModelInvariant`, `CallsBind` (CallsBindByName) | `GraphRight`: an input of the graph is numbered by its rank among the inputs, and a state's slot holds its declaration. `SchemaRight`: the schema has an entry for each declaration, in the graph's order, that names the same declaration; a parameter is a state of the graph exactly if it is resident; only states follow. So the values a caller passes stand where the graph has its inputs (`VisibleRight`), and their ranks are the positions the program asks for, also among the sources of a stage (`StageRuns`). `SelectionRight`: a model that accepts a selection has its schema |
| TrainingProofs | of StageChain: `ChainInvariant`, `FinishReports` (FinishTells), `ShuffleImplemented` (ImplementsShuffledStream); of RandomStream: `RandomInvariant`, `DrawsFresh` (DrawsAreFresh) | There is a sequence `order`, all that the pool has handed out, and a count per thread, such that `PoolInv`: what was handed out and what is held are what was read, each item once; and `FlowInv`: each thread has sent a prefix of the order, transformed by its stages, a channel holds the difference of two prefixes, only the last value sent can be an error, and a thread that exited has a reason that reaches down to the consumer. Neither is a variable, so the invariant is existential. `JoinInv`: the joined threads exited without a panic. `RandomInv`: what was given out under a slot's key lies between where the key's counter started and where it is, and for a model's stream that was overrun includes that (`SpillRight`: its surplus blocks are of its own root key, so no other stream's account changes); a cursor that is not stale goes on from there, so what it reserves is fresh; and the keys an accepted split has left are blocks under which nothing was given out (`Unused`), so a child can start one at zero. `Advance`, the arithmetic below it: two signed words with a carry count modulo the period and notice its end |
| TrainingProofs | of TrainingRun: `ResumesExactly` (ResumeIsExact), if every random word is a number | The recursive functions of the data stream have solutions, found by counting up (`CountUp`), and so obey their equations. A source that fails at one read and one that does not give the same samples, groups and batches, or the failing one an error, after which its pool yields only errors (`Alike`, `Together`): an error is never taken for the partner of a mixup. `TrainingInv`: the session is trained on a prefix of the undisturbed run, every file holds such a session, the queue holds the batches that come next, an error being the last, and the iterator is where they end; snapshots are only taken after a whole step, so a resumed run replays to the very place |
| TrainingProofs | of TrainingStep: `OptimizerImplemented` (ImplementsOptimizerLoop) | `StepInv`: every session, taken apart or not, has all slots of its trace with values of their kind, and the counter is the number of batches since the last step. `SumInv`: each accumulator holds the sum of their gradients, modulo the prime. So the masked product with the inverse of `Steps` is the mean (`QuotientIs`), direction, weights, velocities and average follow (`DirectionIs`, `SteppedIs`), and every run is a micro-batch of the loop (`RunWaits`, `RunApplies`); taking and restoring are its saves and restores |
| TrainingProofs | of the composition: `SchedulesAlwaysAgree` (SchedulesAgree), if every random word is a number | `ScheduleInv`: the counters stay within the plan, and as long as no read fails every planned batch comes without an error. That rests on an argument the code leaves implicit: a mixup's partner comes within `Reach` samples. While images without a box are drawn, the places of the pool that hold one with a box only grow in number, by one with each read of such an image, and after `Reach` reads they are all (`PartnerComes`). The L1 loss starts with the step whose first micro-step is the first without mosaic and mixup (`LastStepsPlain`) |

The assumptions on constants are those of the code: capacities and counts are
positive where the constructors demand it (`PipelineAssumption`,
`ObjectsAssumption`), limits and lengths are naturals (`CacheAssumption`,
`DiskAssumption`), a store has more than one node and the missing value is not
one of them (`StoreAssumption`), a pool has finitely many components and byte
counts are naturals (`PoolAssumption`); in a chain no item has two faults
(`ChainAssumption`). A compiled program has a name and a type
for each slot and for each argument the registration behind it
(`PlanAssumption`, what `prepare_state` builds); callers bind lists of
registrations and buffers, whatever these are (`BindingAssumption`); what a
program computes does not depend on inputs pruned from it
(`TransitionAssumption`); and the value for "no session, no state" is none of
them (`NothingAssumption`, `AbsentAssumption`); a draw has fewer blocks than half
a word's range (`RandomAssumption`); the options of the optimizer are numbers, and
the number of accumulated batches has an inverse modulo the prime, which stands for
its exact reciprocal (`StepAssumption`). All programs keep the same state names: a slot
registered between two compilations of one trace is outside the model, and so is
a program without state.

Each proof module first proves one step lemma per action, over the strengthened
invariant, and joins them with PTL. The library's well-founded induction cannot
be instantiated with an operator, but it gives a least element of a nonempty set
of naturals, and with that the byte sums of the compiler cache are proved by
showing that the set of counterexamples has no least element, as is what a lowered
lazy program computes, a function that is recursive over the graph. The library's
sum over a set is a fold, so the laws of sums in module Counting (one term changed,
terms compared, a part of the terms, terms found under other names) follow from its
definition by induction over the subsets, again by a least counterexample:
`SubsetInduction` ranges over a set of subsets where the library's theorem ranges
over a predicate.

Only model-checked, and why:

- liveness and ENABLED: `FinishReturnsIntact`, `DropReleasesThreads`,
  `StreamEnds`, `FinishReturns`, `WaitsReturn`, `StoreAnswers`' second half,
  `NobodyStuck`;
- the properties of modules with RECURSIVE operators, all of GraphProgram's.

## 5. Findings

Shown by a run, and listed in `PROJECT.json` with the lines they contradict:

- a panicking transform with several workers loses its credit and `finish`
  hangs (`parallel_stage_panic_hang`);
- a parameter with a dtype conversion that is first used inside a branch of
  `cond` leaves later code with a value of the branch's region
  (`state_branch_converted`);
- loop carries that start from one tensor are confused (`while_shared_initial`);
- with one lazy session used from two threads, lifting a concrete tensor races
  with materialization (`lazy_lift_race`);
- `searchsorted` returns a position past the end for a needle beyond every value
  of a table whose length is not 2^k - 1 (`searchsorted_past_end`);
- a call with donated inputs binds all inputs and then all parameters, also when
  they were declared in another order (`donating_binding`).

Met while modelling, without a run of their own:

- `finish` returns `WorkerPanicked` at the first panicked worker it joins
  (pipeline.rs:344) while others may still run, although line 334 says that
  every worker is joined. `FinishMeansJoined` is therefore claimed for a
  successful `finish` (ParallelPipeline).
- `invalidate_memory` removes the unwrapped key (compiler.rs:448), while
  `compile_lowered_with_options` stores under a wrapped one (513-518), so an
  executable compiled with options stays, against line 443 (CompilerCache).
- A resident parameter first used inside a branch registers a state slot in the
  conditional; `cond_many` then fails at state.rs:250 and its snapshot is not
  restored, although nn/lib.rs:650-652 says such declarations are hoisted
  (StateTrace; `VersionsInScope` is claimed until that failure).
- Two threads can lease the same root: the in-flight check and insertion are two
  sections (tensor_handle.rs:943), against frontend.rs:1037 (LazyEvaluation;
  `LeaseExclusive` is claimed for evaluations on one thread).
- `center_crop` takes its offsets as `n / 2 - m / 2` (image.rs:65-66). For an even
  extent and an odd smaller size, 4 pixels cropped to 3 say, the top or left side
  loses the extra pixel, against image.rs:55-57, which names the bottom or right
  side; `resize_with_crop_or_pad` crops through it. `CropPadMeaning` follows the
  documentation, and `ComposedAgree` excepts just these crops (`OffCenter`).
- `Rng::draw` returns its words whether or not the counter wraps
  (nn/lib.rs:1053-1074), and `finish_rngs` writes only the counters of streams
  that have not wrapped (943-955). So a named stream that reaches the end of its
  2^64 blocks stays in front of it, and later executions hand out the same words
  again, without an error. random.rs:235-237 leaves it to callers to prevent
  reuse; the user of `Cx::rng` is not told of it. `DrawsAreFresh` claims freshness
  of such a stream until then (RandomStream).
- SimOTA on the device (`yolox_simota`, rxla-models/src/yolo.rs:742-968) ranks all
  anchors, while the host's `assign_image` (rxla-train/src/yolo.rs:351-462) ranks
  candidates only, and YOLOX.md:477 says that both select exactly the same. Not
  modelled.

Hazards known without a property that covers them: state.rs:84,
tensor_handle.rs:747, compiler.rs:448, autodiff.rs:212, runtime.rs:2261,
state.rs:250, rxla-cache/src/lib.rs:208 and 266 (what a power loss leaves), and
export.rs:27: a run that meets a file it would write ends with an error after
training. TrainingRun has such runs (the reason `exists`), and its properties
accept them.

## 6. Not modelled

About 35,000 of the 78,700 lines are generated bindings and protobuf types,
tests, examples and reference models; of the rest, a large part converts or
formats. The map covers about a sixth of all lines: the parts that keep state,
run concurrently, or decide what a program means.

- *Runtime and placement, typed state, state trees*: immutable configuration, and
  wrappers that forward to one modelled call each.
- *Planning, artifacts, DLPack, sharding specifications, PJRT layouts and
  metadata, safetensors readers, rxla-onnx, rxla-log*: conversions between
  formats and structures.
- *rxla-nn inputs, outputs, initializers and paths; micro-batch slicing; data
  randomness; YOLO training data; Adam; LoRA; rxla-models*: numerics on host
  arrays, names, or one more update rule of the kind TrainingStep has.
- *rxla-nn-macros, generated bindings, the facade, xtask, scripts, benchmarks,
  the Python log reader*: nothing of the library's own state.
- Floating-point numerics, StableHLO text, plugin internals. XLA is taken to
  execute the recorded operations as they are defined. Memory orderings weaker
  than sequential consistency do not matter here: every shared variable modelled
  is behind a mutex, a channel, an atomic update or the filesystem.
