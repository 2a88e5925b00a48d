# A TLA+ verification of ops-ras

ops-ras is a library of Ascend operators: host code that chooses how an operator is cut up ("tiling"),
templates for the kernels that run on the cube and vector cores, two reliability operators, and the shell
programs that install and remove the package. This directory models the parts of it that keep state or
move data by hand-made arithmetic, checks the models with TLC on small instances, and proves some of their
properties with TLAPS for every value of the constants.

Contents: [the system](#the-system), [the modules](#the-modules), [the runs](#the-runs),
[findings](#findings), [proofs](#proofs), [what the checks would catch](#what-the-checks-would-catch),
[not modelled](#what-is-not-modelled), [plan](#plan).

## The system

| Component | State | Operations | What is hard about it | What makes it correct |
|---|---|---|---|---|
| Host tiling cache (`common/inc/op_host/lock.h`, `tiling_cache.h`, `common/src/op_host/lock.cpp`) | a reader/writer lock made of a mutex, two condition variables, a state word and two wait counters; a hash map, an entry counter | `rdlock`, `wrlock`, `unlock`; `Add`, `Replace`, `Get` | threads interleave; lost or spurious wakeups; colliding hashes; the limit on entries | calls take effect atomically, hits are for the right input, nobody sleeps on a free lock |
| Cached tiling item (`cache_runinfo.{h,cpp}`) | key, block dim, data buffer, workspaces, input; buffers shared between copies | `SetContext`, copy, `GetContext` | copies share buffers; a `Save` can stop at any step | an item gives back what the last successful `SetContext` behind it was given |
| Tiling template registry (`tiling_templates_registry.h`, `tiling_base*.h`) | a class per priority; the tiling key in the context | `AddTiling`, four forms of `DoTilingImpl`, the seven phases of `DoTiling` | a class that fails half way on a context that the next one uses | the first capable class wins, a key is set exactly on success |
| Operator fallback (`fallback.h`, `fallback_2stages.h`) | static variables of each use of a macro; handles of another library | looking up symbols, converting arguments, the one-stage and the two-stage call | static state shared by threads and calls; handles with a different owner after each early exit | the library sees the caller's arguments, every handle is destroyed once, an outcome is the call's own |
| Legacy library (`legacy_common_manager.{h,cpp}`, `op_cache_tiling.cpp`) | a handle, a function pointer per forwarder | constructor, destructor, forwarded functions | its place depends on which library this is and how it was installed; lookups are remembered | forwarders reach the legacy library of their own installation |
| Obfuscation operators (`reliability/obfuscation_*`, both versions) | an executor and its tasks | the first and the second function of four operators | every step of the first may fail after tasks were added | an executor that the caller gets computes what was asked for |
| Level-2 bases (`common/inc/op_api/level2_base*.h`) | none | checks of arguments, shapes of results | negative and empty dimensions | answers agree with an independent definition |
| Mixed matmul with weight prologue (`kernel_matmul_mix_with_weight_prologue.h`, `block_mmad_b_prologue_mx.h`, `block_prologue_b_cast_scsc.h`) | per core: event flags, cross-core flags, on-chip buffers | one transfer or multiplication per pipe, constructors and destructors | nine in-order pipes on three cores run concurrently and are ordered only by flags | each block is computed from its own data, once, in order; the kernel ends with balanced flags |
| L1 layout of that kernel (`InitBuf` and the address formulas of the prologue) | where each buffer begins | laying out five kinds of buffers | two cores compute the same addresses by different arithmetic | both agree, buffers do not overlap |
| Block scheduler (`block_scheduler_swizzle_in_mn_core.h`) | each core's loop counter | one pass of a core's loop | shares and blocks are clipped at edges; vector cores follow the cube core without talking to it | the result is covered, inside, and the group stays on one block |
| Tile shapes (`block_scheduler_utils.h`, `block_mmad_builder.h`, assertions of the `BlockMmad`s) | none | host checks, number of cores, kernel assertions | three sets of inequalities over different types | what is accepted fits, its cores share the tiles evenly |
| Tile copies (`common/act/matmul/tile`), iterators, `pse.h`, `dropmask.h` (`common/inc/kernel`), tile coordinates (`common/act/utils/coord_utils.h`) | none of their own; they fill buffers | a copy of one tile for each format, type, device and policy | offsets and strides in elements, blocks or fractals; limits of instruction fields; partial tiles | every cell arrives in its place and nothing else is written |
| Finalize-routing prologue and epilogue, dequantising and swiglu-quantising epilogues (`common/act/prologue`, `common/act/epilogue`) | fields of each object, double buffers, events | one call per block, each issuing instructions to three pipes | pipes run by themselves; splits among cores and rounds | every output is computed from its own inputs, events balance, the kernel ends |
| Package installation lock (`install_common_parser.sh`, `formal_commands_with_lock`) | the name `ascend.lock`, the files behind it, who holds a flock | open, try, work, close, remove | processes of several users, killed anywhere | nobody is refused without reason, nothing is left behind |
| The rest: package manager, installers, tiling keys, prototypes, stubs, build tools | see [not modelled](#what-is-not-modelled) | | | |

How they interact. An operator's host function asks the *tiling cache* with a hash of its input; on a miss
it calls the *template registry*, stores the finished context as a *cached item* and adds it to the cache;
some functions are forwarded to the *legacy library*, and an operator without a kernel of its own runs
through the *fallback*. The tiling reaches the kernel, where the *scheduler* gives every group of cores its
blocks, the *layout* places the buffers, the *mixed matmul* or a block that uses the *tile copies* moves
and multiplies the data, and an *epilogue* takes the result to global memory.

In the models, `TilingCache` extends `RWLock`, so cache and lock are checked together;
`WeightPrologueMatmul` names buffers by index and `L1Layout` shows that different indices are different
bytes; `BlockScheduler` shows that the three cores of a group loop over the same blocks, which
`WeightPrologueMatmul` takes as given; `FinalizeRouting` runs prologue and epilogue on one global memory,
with the barrier between them.

`PROJECT.json` lists every component, with a reason for each one that is not modelled, and the hazards
at their lines, with the property that covers each or a note why none does.

## The modules

| Module | Models | Code it stands for |
|---|---|---|
| `RWLock` | the lock | `lock.cpp`, `lock.h` |
| `TilingCache` | the cache, statement by statement between lock and unlock, on top of `RWLock` | `tiling_cache.h` |
| `AtomicTilingCache` | the abstract cache: each call is one step | specification |
| `HashItem` | cached items and their shared buffers | `cache_runinfo.{h,cpp}` |
| `TilingTemplates` | registration and dispatch of tiling classes | `tiling_templates_registry.h`, `tiling_base.h`, `tiling_base_nn.h` |
| `OperatorFallback` | lookup, conversions, both macros, the handles | `fallback.h`, `fallback_2stages.h` |
| `LegacyLibrary` | the search for the library, the handle, the forwarders | `legacy_common_manager.{h,cpp}`, `op_cache_tiling.cpp` |
| `Obfuscation` | the two-phase calls of the four operators | `reliability/obfuscation_setup`, `reliability/obfuscation_calculate` |
| `LevelTwoShapes` | the helpers, next to a reference definition of each | `level2_base.h`, `level2_base_caculation.h`, `level2_base_loss.h` |
| `WeightPrologueMatmul` | the three cores of one group and their nine pipes | the three kernel headers above |
| `BlockedMatmul` | the abstract kernel: one block after another, each right | specification |
| `L1Layout` | cursors of the cube core, formulas of the vector cores | `block_mmad_b_prologue_mx.h` (`InitBuf`), `block_prologue_b_cast_scsc.h` |
| `BlockScheduler` | constructor, coordinates and loop of the scheduler | `block_scheduler_swizzle_in_mn_core.h`, the kernel's loop |
| `TileShapes` | `DoCheckArgs`, `DoGetBlockNum`, `CanImplement`, the static assertions, `MMLcm` | `block_scheduler_utils.h`, `block_mmad_builder.h`, `block_*mmad*_multi_block.h` |
| `TileLayouts` | formats as functions from a cell to its place; what the copy instructions move | instructions are external |
| `TileCopyIn`, `TileCopyOut`, `TileLoadL0` | GM to L1, L0C to GM or UB, L1 to L0 | `copy_in_*.h`, `copy_*out*.h`, `load_*.h` |
| `KernelIterators`, `AttentionTiles` | the iterators; positional encoding and dropout masks | `common/inc/kernel` |
| `TileCoordinates` | where a kernel finds its tile of each operand, next to the formats' own definition | `coord_utils.h` |
| `TileMovement` | a matrix copied tile by tile in any order, by any of these | |
| `VectorPipes` | a vector core: scalar unit, three queues of instructions, events, UB | the device, as the kernels use it |
| `BlockPrologueFinalizeRouting`, `BlockEpilogueFinalizeRouting`, `FinalizeRouting` | the two blocks and their composition | the headers of these names |
| `BlockEpilogueDequant`, `BlockEpilogueSwigluQuant` | the two other epilogues | `block_epilogue_dequant.h`, `block_epilogue_swiglu_mx_quant.h` |
| `KernelPipes` | each of the three kernels on the vector cores of a cube core, for the jobs given | the kernels are outside the repository |
| `InstallLock` | `formal_commands_with_lock` | `install_common_parser.sh:1891-1933` |
| `MC*` | instances for TLC; `MCHostCalls` and `MCLaunch` also join parts that share no state | |
| `HostTiling_proofs`, `HostCalls_proofs`, `Launch_proofs`, `WeightPrologueMatmul_proofs`, `TileCopies_proofs`, `TileMovement_proofs`, `KernelPipes_proofs` | theorems: `HostTiling_proofs` about `RWLock`, `TilingCache` and `TilingTemplates`, `HostCalls_proofs` about `HashItem`, `OperatorFallback`, `LegacyLibrary`, `Obfuscation`, `LevelTwoShapes` and `InstallLock`, `Launch_proofs` about `L1Layout`, `BlockScheduler` and `TileShapes`, `TileCopies_proofs` about the copies of `TileCopyIn`, `TileCopyOut` and `TileLoadL0` (`TileMovement_proofs` builds on its lemmas), the others about the modules of their names | |
| `NumberLemmas` | induction over sets of numbers, quotient and remainder, for those proofs | |

### How state and actions correspond to the code

**RWLock.** `status`, `waitingReaders`, `waitingWriters` are `_status`, `_waiting_readers`,
`_waiting_writers`; `at[t]` is the place of thread `t` in the code. All fields are read and written with
`_mtx` held, and `condition_variable::wait` releases it and blocks in one step, so the code between two
acquisitions of `_mtx` is one action: `RdLock`/`WrLock` (up to the return or the first sleep),
`RdRecheck`/`WrRecheck` (a woken thread looks at its predicate again), `Unlock` with its notification.
`SpuriousWakeup` is the freedom the standard gives `wait`. A woken thread competes for `_mtx` with all
others, so a thread that was notified may be overtaken.

**TilingCache.** `map` and `size` are `map_` and `size_`; `step[t]` is the statement a thread executes
inside the lock, `call[t]` and `found[t]` are its arguments and answer. Each statement is an action of its
own (`AddTest`, `AddEmplace`, `AddCount`, `ReplaceTest`, `Erase`, ..., `Find`, `Compare`, `Copy`,
unlocking), because what makes them atomic is the lock and not the model. Hashing is a function from
inputs to keys that may collide. The refinement mapping to `AtomicTilingCache` lets an `Add` or a
`Replace` take effect at its test.

**HashItem.** `item[i]` has the members that the copy functions list by hand, `heap` the contents of the
buffers behind the `shared_ptr`s, `meant[i]` (a history variable) what the last successful `SetContext`
behind `i` was given. `SaveFailsAtHead`, `SaveFailsAtData`, `SaveFailsAtWorkspaces` are the early returns
of `Save`, each with the members assigned before it. `Loaded` is `GetContext` as a function, for it changes
no item. Nothing is promised of an item after a failed `SetContext`: the code leaves it a mixture.

**TilingTemplates.** `pending` are the static initialisers that have not run, `cases` is `cases_`, `walk`
the running `DoTilingImpl` with what each class has answered, `key` the class whose key the context holds.
The four forms differ in `BeginCall`, `BeginAll`, `BeginListed` and `BeginListedNew` (what they iterate over) and in `Stops` (which answers end the loop).
The verdicts of the phases are chosen nondeterministically, since the classes live in other repositories.

**OperatorFallback.** A behaviour is one use of a macro (`macro`), passed by several threads, in one
deployment (`symbols`: which library has which functions, chosen when the process starts). `ret` is the
static status, `call[t]` the place of a thread in the macro with its arguments and converted parameters,
`state` of each handle whether it is alive, gone or was destroyed a second time. `View` is what
`ConvertType`/`ConvertMmType` make of an argument: shape, strides and storage of the handle. The framework
that deletes the parameters of the two-stage macro, and the libraries, are external. `call[t].alone` is a
history field: no other thread was in the macro at the same time.

**LegacyLibrary.** `installation` (unknown before the library is loaded) is this library's own path, the
files present and which of them can be opened; `handle` is `handle_`, `func` the static pointer of each
forwarder. Paths are sequences of names, and `..` takes one away, so the number of levels in
`GetSoPathForCustomOp` and its siblings is the code's own. The directory order of `readdir` is free.

**Obfuscation.** `step` walks through the first function (checks, contiguous copies, the task, cast, view
copy, `ReleaseTo`), `tasks` is what the executor holds, `owner` who holds the executor, `output` what the
tensor holds after the second function. The parameters of the task are the names of the arguments in the
order the launcher passes them, so a swapped pair shows.

**LevelTwoShapes.** A question is one use of a helper and `answer` what it returned; `AnswersMatchReference`
compares the two with definitions that do not follow the code (a slice as a set of indices, a reduced shape
by its number of elements, pooling by the windows that see their input).

**WeightPrologueMatmul.** One action is one instruction of one in-order pipe with the waits in front of it
and the sets behind it: `LoadA`, `LoadScaleB` (MTE2 of the cube core), `CopyToL0` (MTE1), `Mmad` (M),
`GetTensorC` (FIX), and on each vector core `CopyInWeight` (MTE2), `AntiQuantCompute` (V),
`CopyOutWeight` (MTE3), and the waits of the destructors (`DrainCube`, `DrainVector`, `DrainCredits`).
`flag` counts, for every event and cross-core flag, the sets not yet waited for; `mem` holds the identity
of what each buffer was last filled with, so data that is overwritten too early or read too late shows in
`out`. Deviations of the code from the obvious are kept: `l1BufIdx_` is never reset between blocks, and
`kFractalIdx += kL0Idx` visits the halves of L0 in the order 0, 1, 3, 6, ...

**L1Layout.** `LayOutB` ... `LayOutScaleA` are the five parts of `InitBuf` in order, moving the two cursors
`part`; `AivWeight` and `AivBias` are the formulas by which the vector cores find the same places.

**BlockScheduler.** `problem` is the launch (sizes, tiles, grid, order, number of vector cores per cube
core), `loopIdx[c]` the loop variable of core `c`, `Pass` one round of the loop. The granularity of the
cube unit (16 in the code) is a constant. *Assumption*: every core of the grid has work (`LastHasWork`);
otherwise the share of the last core is a negative number in unsigned arithmetic. The host, which must
ensure this, is not in the repository.

**TileShapes.** `plan` is a problem with its tiles and types, `stage` how far it has got: proposed,
accepted by `DoCheckArgs` and `CanImplement`, launched on `blocks` cores after the kernel's assertions.
It uses the device's real sizes. Nothing in the repository calls `DoCheckArgs`, `DoGetBlockNum` or
`MMLcm`; they are offered to the operators.

**TileMovement** and the copies. A job is one use of a copy: matrix, tiling, format, type, device,
policy. `CopyTile` copies one of the tiles not yet copied, so tiles are copied in every order, as different
cores do; `mem` remembers for every place written where its content was read. Each copy is a function from
a tile to the set of moves that its instructions make, with the code's own offsets, strides and burst
lengths; a tile outside the matrix at an edge has only the rows and columns the code gives it. Strides that
do not fit an instruction's field are met by the code's own tests where it has them (`StrideLimit` of the
copies into L1, the gap in `BoolCopyIn`). The copies of the positional encoding and of bit masks have none:
the gap between two rows is stored in a field of 16 bits whatever it is (`pse.h:95`, `util.h:143`). The model
stores it so (`ParamField`), and that it fits is a [precondition](#preconditions) (`AttentionLegal`). A conversion between types moves no data and is left out. Of `TileCoordinates` a job is one
operand of one of the functions of `coord_utils.h`: the kernel divides the matrices into tiles, asks for the
offset of each by its indices, and reads or writes the tile's cells from there as the format says; each must
be the cell of the matrix that the tile is made of.

**VectorPipes** and the prologue and epilogues. The scalar unit (`Call`) changes the fields `obj` and
appends instructions to three queues; `Execute` runs the head of one queue once its waits are satisfied.
A value is the sequence of inputs it was computed from, each named by its place in global memory, so a row
multiplied with another row's scale is a different value. A `TQue` is external and modelled as the pair of
events it is. Cores share only the output, to which copies are appended (`gm`), so they take turns between
barriers and no behaviour of an output is lost. The caller waits until the previous block's copies have
left before it announces a new result of the cube core (`ResultArrived`): that handshake is in the kernel,
which is not in the repository. The compiler adds no synchronisation of its own: the operator is built with
`"auto_sync" : false` (`scripts/kernel/binary_config/ascendc_config.json:475`), so the pipes are ordered by the
events in the source and by nothing else. The prologue divides the output among all vector cores of the launch
(line 186), which in the model is a launch on one cube core; the product of line 193 and the share of lines
146-147 are unsigned numbers of 32 bits and wrap (`UInt32`).

**InstallLock.** `lockfile` is the file that the name `ascend.lock` refers to, `fd[p]` the file behind
descriptor 9 of process `p`, `flock` who holds the lock on each file, `pc` the place in
`formal_commands_with_lock`. `Open` is the redirection, `TryLock` `flock -n`, `Close` the end of the
subshell, `RemoveName` the `rm -f`, `Die` a kill of the shells. File descriptors, inodes and flock are external
to the repository and modelled as the manual pages describe them. An inode that nothing refers to may be
used again.

## The runs

Seven runs pass, five find a violation (see [findings](#findings)). A run's properties are those of its
`.cfg`. The runs that find a violation are instances of `MCHostCalls` and `MCKernelPipes` with one property each.

| Run | Question | Properties | Instance, and why it is enough |
|---|---|---|---|
| `tiling_cache` | Does the lock exclude, wake and serve; are the cache's calls atomic, also at the limit and with colliding hashes, and do they return? | `MutualExclusion`, `NoLostWakeup`, `WriterNotStarvedByReaders`, `ReaderServedWhenWritersPause`; `IteratorStaysValid`, `HitIsForTheInput`, `ImplementsAtomicCache`, `FullCacheIsFrozen`, `CallsReturn` | three threads (one reads, one writes, one does both), so that there are two waiters of each kind besides a holder and a notification can be lost, overtaken or sent to the wrong queue; three inputs of which two collide, room for two entries: a full cache, a replaced entry and a foreign hit all occur |
| `host_calls` | What does one part of the host code do by itself, with every failure of every step? | `LoadsWhatWasMeant`; `FirstCapableWins`, `KeyIffSuccess`, `FailureAbortsUnlessListedNew`; `ApiSeesItsArguments`, `HandlesReleasedOnce`, `OutcomeIsOwn`; `ForwardsToOwnLegacy`; `OutputAsRequested`; `AnswersMatchReference`; `QuietDirectoryIsClean`, `RefusedOnlyWhileAnotherWorks` | two items and three tilings; four priorities of which one is never registered and one is registered twice, two calls one after the other; two threads at one use of a macro, every kind of argument, four deployments; this library built in, custom and unpacked from an offline model, with foreign legacy libraries beside its own; every operator with tensors that are null, empty, not contiguous, of a wrong type or of different shapes; every helper with shapes of up to three dimensions (one more than supported; two where the code has an array of that length) and dimensions and bounds of both signs; three installing processes that come back without bound: one inside, one refused, one that comes later. 331 465 states |
| `launch` | Are the layout, the schedule and the tile shapes of a kernel right? | `CoresAgree`, `BuffersDisjoint`; `BlocksInsideResult`, `ResultIsCovered`, `NothingComputedTwice`, `GroupOnOneBlock`; `AcceptedFits` | every combination of buffer count, bias and sizes in {1, 3} that fits halves of 18 bytes, the largest to the last byte; every result up to 7 x 7, tiles 2 to 4, grids up to 3 x 3, both orders, granularity 2, and up to 4 x 4 with two vector cores per cube core at their own speeds; tiles at, below and above each limit of the real device, with every combination of types a block supports. 206 633 states |
| `matmul_quad` | Four buffers: is any buffer overwritten early, does the kernel end? | `CreditsConserved`, `NothingLost`, `ComputesBlocksInOrder`, `Completes` | two blocks of three L1 steps: more steps than buffers, so each wraps around within a block; a last step that is short, a tile that both vector cores unpack whole, bias from both. 135 025 states |
| `matmul_small` | One buffer, and two of which each has its own vector core | `FlagsConsumed`, `ComputesBlocksInOrder`, `Completes` | three blocks, so the halves of L0C are reused; two or more L0 steps per tile, so the halves of L0 are taken out of turn; two rounds in the unified buffer. 135 802 states |
| `tile_copies` | Does every cell arrive, and nothing else? | `EachCellInPlace`, `NothingElseWritten` | 1663 jobs: each specialisation with shapes that have a partial tile, a partial fractal or neither on both edges, every order of the tiles, and gaps beyond each instruction field that the code tests, up to the limit of those it does not; each operand of a kernel, transposed or not, in the second batch, quantised in four ways, with tiles that are halved or smaller behind the first ones. 34 118 states |
| `kernel_pipes` | Do the pipes of a vector core compute the right outputs in every order, and end? | `OutputsRight`, `EventsInPairs`, `Completes` | two vector cores; groups whose rows give a core several, one or no row; more rounds than buffers in the epilogues; rows of the shared input with zeros before, behind or nowhere, in one or two rounds of a core (see [preconditions](#preconditions)); blocks at both edges. 72 996 states |

`host_calls` and `launch` join parts that share no state: a behaviour belongs to one part, whose first
action chooses its configuration, and the others stay as they were. Nothing is lost, for no part reads
another's variables.

The bounds, all named: `MaxEntries` (the cache's limit, 500 in the code), `MaxCalls` and `MaxListed` of `TilingTemplates` (a caller's list),
`NumBlocks` and the sizes of `WeightPrologueMatmul` (a finite kernel), `MaxSize`, `MaxMixedSize`,
`TileSizes` and `Grids` of `MCLaunch`, `Half` of `L1Layout` (`L1_BUFFER_HALF_SIZE`), `MaxSize` of
`HashItem` (`MAX_TILING_DADA_SIZE`), `MAX_SUPPORT_DIMS_NUMS` 2 and `MAX_MASK_LEN64` 3 (8 and 64 in the code),
`UInt32Max` 15 of the prologue (2^32 - 1). The geometry of the device is
scaled: `Cube` 2 (16 cells of a fractal), `Block` 4 (32 bytes), `ByteBits` 2 (8 bits), `StrideLimit` and
`StrideLimitH` 6 and `UInt16Max` 31 (65535 in the code), `RepeatMaxTimes` 2 (255),
`PerBlock` 4 (128), `MxfpDivisor` 4 (64) with `MxfpMulti` 2 in `tile_copies`; `MxGroup`, `AlignIn`,
`AlignOut`, `InitZeroLen`, `DoubleBufferLen`, `CoreAlign`, `MaxOutputM` in `kernel_pipes`. The arithmetic
uses them only as divisors, strides and thresholds, and each keeps its order and divisibility to the
others. No run needs a state constraint.

Deadlock is checked in `tiling_cache` and `kernel_pipes`. Elsewhere the modelled program
ends: a kernel, a layout, a schedule, the tiles of a job, an operator's call, a question to a helper, and
`TilingTemplates` after its last call (installers go on for ever); for the kernels `Completes` says that they stop only there.

### Preconditions

What the models take from callers outside the repository:

- *Copies*: `ND_ALIGN` by layout only with aligned widths, NZ by layout into L1 only in whole tiles, split
  copies of a single tile; positional encoding with alibi needs `pseS1` to be a multiple of the block and,
  unless sequences are packed, rows and columns of one length; bit masks need widths in whole bytes. The side
  inputs of attention need blocks whose rows and row pitch fit 16 bits, and rows so short that the gap from the
  end of a block's row to the beginning of the next fits too (64 KiB, or that many blocks where rows are whole
  blocks). The code tests this for masks of whole bytes only (`util.h:97`); with a longer row the others
  would copy from a wrong place.
- *Tile coordinates*: tiles that begin where a block of scales does, or lie within one; in `GetQuantIOOffset`
  columns in whole blocks (it rounds the column's block up, line 298, where `CalOffsetOfAIV` rounds down) and
  no `PERBLOCK` scales of x1, whose row it does not divide by the block (line 293, compare line 204), so that
  only the first row of tiles would be right; `GetBOffset` of a B in NZ with a `c0` (without one it returns 0).
- *Epilogues*: no combination of modes for which the dequantising epilogue computes nothing (no x1 scale and
  fp16 bias) or multiplies with a scale that is never set; rows of the swiglu epilogue in multiples of 64
  elements (line 583 says "nDstUbAligned aligned by 64", the code aligns by 32).
- *Finalize-routing prologue*: no core has more than two rounds of the shared input, i.e. more than
  2 * `UB_DOUBLE_BUFFER_LEN` elements (`FewRounds`). With a third round V may write the output buffer that MTE3
  still copies, see [findings](#findings).
- *Weight prologue*: each tile of K takes the same number of UB rounds. The code computes it from the tile's own
  length (`block_prologue_b_cast_scsc.h:318-319`), so a short last tile may take fewer.
- *Level 2*: shapes to reduce with no more dimensions than `reduceArray` has places (8; nothing in
  `ReduceShapeGetWithVar` tests it), dimensions in `-n .. n-1`, no slice or reduction along a dimension of a scalar
  (`ReduceShapeGetWithVar` on a tensor without dimensions and dimension -1 writes `reduceArray[-1]`).
- *Host*: L0 tiles with K > 0 (`DoCheckArgs` divides by it, `block_scheduler_utils.h:129`).

### Fairness

- `FairSpec` of `TilingCache`: weak fairness for each thread that is inside a call and can take the mutex
  or execute its next statement; that a runnable thread runs is what the scheduler of the operating system
  does. Nothing is assumed of new calls, nor of who wins the mutex: so the properties only promise service
  when the competing class of callers pauses. The code really lets an endless supply of writers starve the
  readers.
- `FairSpec` of `WeightPrologueMatmul` and `Spec` of `KernelPipes`: weak fairness of the whole next-state
  relation only, i.e. if some pipe can execute, some pipe does. It is enough since each step brings the
  kernel nearer to its end; no order among the pipes is assumed.
- The other modules check safety only.

## Findings

- **The installation lock does not exclude** (run `install_lock_doc`, property `MutualExclusion`).
  `install_common_parser.sh:1918` calls descriptor 9 the concurrency lock, and line 1922 refuses a second
  process. But after the subshell has closed the file, every process, also one that was refused, removes
  the *name* (line 1928). In TLC's shortest behaviour the first process has released the lock and is
  about to remove the name; the second opens the file; the first removes the name, comes again, creates a
  new file and locks it; the second locks the old one: two processes are inside `formal_commands`. A
  refused process does the same to a holder that is still at work. `QuietDirectoryIsClean` and
  `RefusedOnlyWhileAnotherWorks` hold all the same.
- **A failed tiling class does not always end the tiling** (run `templates_doc`, property
  `FailureAborts`). `tiling_base.h:68` says that `GRAPH_FAILED` aborts the whole tiling; the form of
  `TilingRegistryNew::DoTilingImpl` that takes a list of priorities goes on with the next class. The other
  three forms do as documented (`FailureAbortsUnlessListedNew`, in `host_calls`).
- **Only one of six libraries is asked for a symbol** (run `fallback_lookup_doc`, property
  `FoundWhereInstalled`). The loop of `GetAclnnArrdByApiName` (`fallback.h:109`) keeps the library's handle
  in a static variable, so every pass and every later call uses the library of the first pass, while the
  message at line 117 says that no library has the symbol.
- **The zeros are copied out before they are there** (run `kernel_zeros`, property `ZerosCopiedOut`). The
  finalize-routing prologue writes the buffer `initWithZero_` on the vector pipe and copies it to global memory
  on MTE3 (`block_prologue_finalize_routing.h:158-176`) with no event between the two. Line 90 says that the
  buffer "only needs to be initialized once", and the copies take it to be so; nothing makes them wait, for the
  operator is built without `auto_sync`. In TLC's shortest behaviour MTE3 copies a buffer to which nothing has
  been written. `OutputsRight` is therefore stated of the rows of the shared input and of the rows added.
- **An output of another shape is accepted** (run `obfuscation_doc`, property `ShapesRefused`).
  `aclnnObfuscationCalculateV2.md:53` lists different shapes of `x` and `y` among the errors of 161002, and the
  message of the check says the same (`aclnn_obfuscation_calculate_v2.cpp:56`); the check compares the numbers
  of dimensions (line 55). `OutputAsRequested` is stated of tensors of one shape.

Seen while modelling, contradicting no document and hence without a run of their own:

- With two L1 buffers the destructor of the weight prologue takes back a credit on AIV 0 only, so one set
  of the cross-core flag of AIV 1 survives the kernel (`block_prologue_b_cast_scsc.h:204`). `FlagsConsumed`
  states exactly this (`Residue`).
- A block is clipped at the edge of the result and not of its core's share, so cores compute the same cells
  when the tile does not divide the share. `NothingComputedTwice` holds when it does.
- A third round of the shared input in the finalize-routing prologue writes an output buffer that the first may
  still be copied from (`block_prologue_finalize_routing.h:223`): the event that ends a round holds back the next
  copy in, not V. With `DoubleBufferLen = 1` TLC finds `OutputsRight` and `EventsInPairs` violated. Nothing
  says how many rounds there may be, so this is a [precondition](#preconditions).
- `EXEC_OPAPI_CMD` leaves its converted handles behind on each exit before the operator has run, and calls
  `aclCreateIntArray` without a test that it was found (`fallback.h:146`); threads at one use of a macro
  share its status, so `OutcomeIsOwn` is stated of calls that no other overlaps.
- A task the launcher refuses is only logged (`obfuscation_setup.cpp:43`): the operator returns success and
  an output nobody wrote. `aclnn_obfuscation_calculate_v2.cpp:104` passes `x` and not `xContiguous`.
- `load_b1_to_b2_with_layout.h:117-123` (and the sparse form) passes a stride in rows where the instruction
  counts fractals when it loops over N; `copy_in_with_params.h:223` loops over unaligned rows and ignores
  `kAlign`; the ND to ZN loop of `gm_to_l1_iterator.h:153-164` never advances. These branches are excluded
  from the jobs.
- The host checks of four-element L1 tiles look at Ka only, the kernel's assertion at Kb too; `CanImplement`
  uses the size of the result's type and not of the accumulator. `AcceptedFits` says how far they agree.

## Proofs

Checked by `tlapm` to the last leaf; SMT (Z3), Zenon and, for temporal steps, LS4.

| Theorem | States | Argument |
|---|---|---|
| `HostTiling_proofs`: `LockTypeCorrect`, `LockExcludes`, `LockStatusCountsHolders`, `LockLosesNoWakeup` | `LockTypeOK`, `MutualExclusion`, `StatusCountsHolders`, `NoLostWakeup` for any finite sets of readers and writers | The inductive invariant `CountInv` says that the state word and the two counters equal the cardinalities of the sets of threads at the corresponding places. It is needed since the code decides by the counters: `MutualExclusion` alone is not inductive. The lemmas `MoveOne`, `MoveIn` and `MoveCounts` say how a cardinality changes when one thread moves. `NoLostWakeup` is then shown step by step: whoever frees the lock wakes somebody of the class that may have it |
| `Launch_proofs`: `CoresAgreeOnLayout`, `LayoutIsDisjoint` | `CoresAgree`, `BuffersDisjoint` for all sizes, buffer counts and bias settings | `IInv` gives the cursors and the places laid out so far in closed form, as a sum of the needs of the kinds before; each of the five steps moves it by one kind. Agreement is arithmetic on the closed form, disjointness follows from the order of the offsets |
| `HostCalls_proofs`: `InstallTypeCorrect`, `RefusalsAreJustified`, `QuietIsClean` | `InstallTypeOK`, `RefusedOnlyWhileAnotherWorks`, `QuietDirectoryIsClean` for any number of processes and files | `InstallTypeOK` contains the correspondence between locks and workers and is inductive; a refusal means a lock, which means a worker; `QuietDirectoryIsClean` is inductive since only opening gives the name and everyone who opened is on the way to `RemoveName` |
| `CacheTypeCorrect`, `CacheExcludes`, `CacheLosesNoWakeup`, `CacheIteratorStaysValid`, `CacheHitIsForTheInput` | `TypeOK`, `MutualExclusion`, `NoLostWakeup`, `IteratorStaysValid`, `HitIsForTheInput`, for any finite sets of threads, any keys, values, hash and limit | The lock's theorems carry over, for a call of the cache moves the lock only by the lock's own actions. `CacheInv` adds what the statements between lock and unlock rely on: a thread at one of them holds the lock in the mode of its call, what `find` saw is still in the map (no other thread can have changed it), and `size` counts the map except between an `erase` or `emplace` and the line after it. None of the five is inductive without it, since each thread acts on what an earlier statement of its own read |
| `CacheImplementsAtomicCache`, `FullCacheStaysFrozen` | `ImplementsAtomicCache`, `FullCacheIsFrozen` | Step refinement under `CacheInv`: each statement is mapped to the abstract call it completes or to a stutter; an `Add` or a `Replace` takes effect at its test, when it decides to write, a lookup at its last look at the map. Since a writer is alone, at most one thread has decided and not yet written, and the abstract map is the concrete one with that change made |
| `HostTiling_proofs`: `TemplatesTypeCorrect`, `TemplatesFirstCapableWins`, `TemplatesKeyIffSuccess`, `TemplatesFailureAborts` | the type invariant of `TilingTemplates` and its three invariants, for any finite set of integer priorities, any classes and lists | `WalkInv`: while a call runs it has set no key and every class tried was passed over (`Underway`); of a walk over the whole registry each priority is either still to come, in ascending order, or tried (`NothingLeftOut`). The properties speak of the end of a call only, so they are not inductive without these |
| `HostCalls_proofs`: `FallbackOutcomeIsOwn`, `FallbackReleasesOnce`, `FallbackApiSeesItsArguments` | `OutcomeIsOwn` (of the calls that no other overlaps; those that do share their status), `HandlesReleasedOnce`, `ApiSeesItsArguments`, for any threads, deployments and arguments, of any number of dimensions | `OwnInv` says what a call that no other overlapped has in the shared statics at each of its places; `HandleInv` adds which handles a call owns at each place. For the arguments, the strides (computed from the last dimension to the first) are shown to be the row-major ones and the address they give to visit the elements in order, by induction over the dimensions; a transposed matrix is the same addresses with its last two indices swapped |
| `ItemLoadsWhatWasMeant` | `LoadsWhatWasMeant`, for any number of items and any tilings | `ItemInv`: an item whose last `SetContext` succeeded holds that tiling in buffers that still have its bytes. It is inductive because `Save` writes only buffers that no item holds, and there always is one: the items hold at most two buffers each (`BufferIsFree`, a count of two images) |
| `LegacyForwardsToOwn` | `ForwardsToOwnLegacy`, for every root, vendor and name of an installation | From each of the places of `InstalledAt` the number of levels in the code leads to the root the library was installed under (`PlaceOf`), so the search ends at the own legacy library (`FindsOwn`); what the forwarders remember was looked up in it |
| `ObfuscationOutputAsRequested` | `OutputAsRequested`: any sizes and types; what the output holds, for calculate of a contiguous x and a y of its shape, unless the launcher refused the task; that an error leaves no executor, for all | `ObfuscationInv` follows the tasks step by step: none or the unused copy before the launch, exactly one kernel task after it (unless the launcher refused it), none for an empty input |
| `LevelTwoAnswersMatch` | `AnswersMatchReference`, for any slice, any list of types, any dimensions to reduce of a shape that `reduceArray` has room for | One lemma per helper (`SliceIsRight`, `DimIsRight`, `ReduceIsRight`, `AvgPoolIsRight`, ...). The number of elements and the shape without some dimensions are recursive functions: `Products` and `Leaves` say what their values are, and induction over the dimensions that a dimension made 1 takes out its factor (`ElementsOneOut`), that making dimensions 1 or dropping them leaves as many elements (`DroppedOrOne`), and that distinct reduced dimensions take out the product of their sizes (`ReducedFactor`) |
| `ScheduleInsideResult`, `ScheduleCoversResult`, `ScheduleComputesOnce`, `ScheduleKeepsGroup` | the four invariants of the scheduler, for every size, tile, grid, order and ratio of vector cores | `LoopInv`: a core's counter is its own index plus a multiple of the number of cores. Every task index below the number of tasks is one core's in one pass (`\div` and `%` of it, and so the coordinates, are unique), and the shares, clipped at the edges, split the result |
| `AcceptedTilesFit` | `AcceptedFits`, for all tiles, types and sizes | `PlanInv` keeps what each stage has seen. The host looks at the result's type and the kernel at the accumulator's, so the check of L0C does not imply the assertion by itself: the limits of M and N do (`MemoryValid`). The grid: of two quotients rounded up one determines the other (`FewestRounds`). The tiles of a dimension are summed by induction; `MMLcm` is least since Euclid's recursion yields a common divisor that is a sum of multiples of both numbers (`GcdIsCommon`), and so a common multiple times it is a multiple of their product |
| `WeightPrologueMatmul_proofs`: `KernelTypeCorrect`, `KernelConservesCredits` | `TypeOK`, `CreditsConserved`, for every number of blocks, every K, 1, 2 or 4 buffers and any one number of UB rounds per tile (a short last tile takes as many as a full one) | `PlaceInv`: every pipe is at a tile and a step that exist. `CreditsConserved` is then inductive: each action moves the credit of one buffer by one place; that it is the credit of *that* buffer follows from the ring of buffers being visited in order |
| `KernelConsumesFlags` | `FlagsConsumed`, for the same | The property speaks of the end only; `FlagInv` says what each flag counts at every moment, by how far the pipes are. Producer and consumer of L1 tiles, scales, halves of L0 and L0C and unified buffers form rings: the items between them are in different buffers, the event "free" of a buffer is set exactly when none of them is in it, the event "full" exactly when one is. `FreePut`, `FreeTake`, `FullPut`, `FullTake` and `FreeOff` are the five things that happen to a ring, for any order of the buffers, so that the triangular order of the L0 halves and the groups of tiles that share scales need no argument of their own. A destructor that gets all free events finds the ring empty; at the end every ring is off. The last credits follow from `CreditsConserved` and from the number of tiles a vector core serves (`PiecesServed`, a bijection) |
| `KernelLosesNothing` | `NothingLost`, for the same | `LoadedInv` says what the memories hold: a ring of L1 tiles, of scales or of pieces in a unified buffer holds its items between the two counts `FlagInv` speaks of (`Holds`), and a buffer holds nothing but an item of the ring that goes through it (`Known`). A step writes the item at the upper end; were the old content still needed, it would be an item between the two ends in the same buffer, which the ring excludes in the next state. L1B is the hard one: two vector cores write it, by parts, and neither knows the other's progress; `Window` (no vector core is further ahead of the cube core than its credits) is what keeps their tiles apart |
| `KernelComputesBlocksInOrder` | `ComputesBlocksInOrder`, for the same | `ResultInv`: the steps in L0 are made of what they should be (`CopiesRight`: when MTE1 copies, the tile of A, both scales, every part of the weight and the bias of *this* tile are in L1), a half of L0C holds the products of its block that are done, in order, and the blocks below the count of FIX are in global memory. `Accumulates` brings a block one product further; `IndexIs` and `LastIndex` number the steps over tiles of unequal length. `GetTensorC` maps to `WriteBlock`, every other step stutters |
| `TileMovement_proofs`: `CopiesPutEachCell`, `CopiesStayInside` | `EachCellInPlace`, `NothingElseWritten` for every copy and every offset of the run: into L1, into L0, out of L0C and to two vector cores, the operands of `coord_utils.h`, a kernel's own iterators, the side inputs of attention; every matrix, tiling, element size, size of a fractal, order of the tiles within `JobsAssumption` | `MemoryInv`: the memory is the union of the moves of the copied tiles, provided each tile is `Sound`: it writes each place once, its cells where they belong, nothing outside its room and no place that another tile writes. `Sound` is then shown of every specialisation. Copies: `Nd2NzTile`, `BurstsTile` and the `*Takes` lemmas say what one instruction moves, `RowMajorInjective` and `NzInjective` that a layout puts no two cells at one place, `TilesApart` and `HalfApart` that tiles and halves therefore do not meet; `CeilLeast` keeps the padding of a partial tile inside the result. Loads: a tile is a box of fractals, each read at the number its layout gives it and written in the order of its box (`LoadBox`, `RunsOfB`). Operands: a piece of each dimension is a span that no other meets, the offset of a tile is the place of its first cell (`OffsetsRight`), and what an offset adds for a cell is what the layout adds (`CellsAddUp`). Iterators: `FractalsRight`, from strides that keep the fractals apart. Attention: `BlockRight` splits a block into rows that are copied in order; for an encoding of distances `CornerRight` shows that its corner is at the distance of the block's first score and the block does not reach past the stored rows and columns; `FieldKeeps` that within the precondition a field keeps its gap |
| `KernelPipes_proofs`: `EventsAlwaysInPairs` | `EventsInPairs`, for every job of the three kernels (groups of any sizes, blocks, modes, shared input), one or two vector cores and any sizes of buffers | The events of a buffer form a ring: of two events set by turns at most one is there at a time. What is set now, less what the instructions still queued take and give, is the same whichever pipe runs next, and how much the queue of a pipe takes of a ring from any place on is bounded for each pipe by itself. `Paired` says so for the queues of a core, ring by ring, and a call keeps it when the list it issues is `Good`: so no interleaving has to be looked at, only the list each operation issues (`RunList`, `SwigluList`, `FillList`, `AddList`). Which pipe gives what it takes from which differs between prologue and epilogue, so finalize-routing has two families of rings (`FillingRings`, `AddingRings`) and changes from one to the other at the barrier, when the queues are empty. The theorem assumes `FewRounds`: the prologue returns the event of an output buffer to MTE2 and not to V, so a third round may set it again before MTE3 has waited for it, see [findings](#findings) |

They rest on the named assumptions of the modules, which TLC evaluates in every run: `ThreadsFinite` (finitely
many threads), `HashAssumption` and `MaxEntriesAssumption` (a hash is a function of the input, the limit is not
zero), `TemplatesAssumption` (finitely many integer priorities, no null class), `FallbackAssumption` (the kinds of
arguments there are; tensors whose type the fallback has no row for are left out, since the code converts them
to FLOAT16 without a word), `ItemAssumption` (finitely many items), `LegacyAssumption` (libraries are where
`variables.cmake` and `OpsRasInfo.xml` put them, an offline model brings one legacy library),
`RequestsAssumption` (the four operators), `QuestionsAssumption` (what the callers of the helpers pass, who are
outside the repository: dimensions that are natural numbers, `dims` that name dimensions there are, a pooling
with a stride for each dimension of its kernel, no BF16 in a list for chips without it, and no more dimensions to
reduce than `reduceArray` has places, which are at most the bits of the mask), `PlansAssumption` (sizes are unsigned, a device has a core, and the
host's limits of M and N keep an accumulator of four bytes within L0C, as 128, 256 and 128 KB do), `LayoutAssumption` (the host chooses buffers that fit a half of L1;
that arithmetic is not in the repository), `SchedulerAssumption` (sizes and tiles are positive, and the last core
has work, which the host's choice of cores provides), `ShapeAssumption` (positive sizes, 1, 2 or 4 buffers),
`InstallAssumption` (`None` is neither a process nor a file), `ScaleAssumption` and `AttentionAssumption`
(a scale stands for some elements and a byte for some bits, an instruction repeats, the gap behind a mask of one
block fits its field), `PipesAssumption` (a cube core has one or two vector cores, lengths of buffers are
positive, blocks are not empty, the rows of the shared input are rows of the output); `FewRounds`, which is the
hypothesis of `EventsAlwaysInPairs` and assumed of the run's jobs; and `JobsAssumption`: what the code asks of each use, by unit, stated as `InLegal`,
`OutLegal`, `LoadLegal`, `OperandLegal`, `IterLegal` and `AttentionLegal` of `TileMovement`. They are the
[preconditions](#preconditions) below the runs, exactly: the tiles of column blocks are whole blocks, a row that does
not fit the stride's field is copied with the check, results in column blocks are half, the split copies serve one
tile that two vector cores share evenly, loads start at whole fractals, no tile begins inside a group that shares a
scale unless it ends there, the strides of an iterator keep the fractals apart, and what attention's copies store
untested fits 16 bits. The run's jobs are those of its small
sizes that satisfy them, and TLC evaluates the assumption on each.

Induction. The library's induction theorems take an operator as parameter, which the installed provers cannot
instantiate. Where a proof needs induction over a number it uses `SetInduction` and `InductionUpTo` of
`NumberLemmas` instead, which
speak of a *set* of numbers and follow from the well-foundedness of `<` on the naturals; `FunctionUpTo` gives
the existence of a recursive function on an interval in the same way.

Only model-checked:

- All liveness (`WriterNotStarvedByReaders`, `ReaderServedWhenWritersPause`, `CallsReturn`, `Completes`): fairness
  and `ENABLED` are beyond the prover.
- `OutputsRight` of `kernel_pipes`: it needs, besides the order of the events, which inputs each instruction of a
  list reads into which buffer, for every job; `EventsInv` says nothing of the buffers' contents.

## What the checks would catch

Next to a definition stands its mutated form, `Name_WhatIsWrong`: a plausible mistake in the code behind it.
With the mutated form in place of the definition, TLC finds the property violated in the same run.

| Mistake | Property that breaks |
|---|---|
| `MayWrite_IgnoringReaders`: a writer enters beside readers | `MutualExclusion`, `IteratorStaysValid`, `ImplementsAtomicCache` |
| `Notify_OneReaderOnly`, `Notify_ForgettingReaders`: notify_one for readers, or none | `NoLostWakeup`, `ReaderServedWhenWritersPause` |
| `MayRead_IgnoringWaitingWriters` | `WriterNotStarvedByReaders` |
| `ReplaceTest_RefreshingWhenFull` | `FullCacheIsFrozen` |
| `Compare_TrustingTheHash`: a hit without comparing the input | `HitIsForTheInput` |
| `AddTest_ReturningLocked`: an early return without unlock | `CallsReturn` |
| `InOrder_LargestFirst`, `SetsKey_BeforePostTiling`, `Stops_OnlyOnSuccess` | `FirstCapableWins`, `KeyIffSuccess`, `FailureAbortsUnlessListedNew` |
| `Assigned_WithoutWorkspaces`: a member missing from the copy | `LoadsWhatWasMeant` |
| `ConvertMmType_ShapeOnly`: the shape is transposed, the strides are not | `ApiSeesItsArguments` |
| `ReleasedKinds_NoLists`, `MallocFails_Silent`: a kind that is never destroyed, a failure that leaves the old status | `HandlesReleasedOnce`, `OutcomeIsOwn` |
| `SoPathForCustomOp_LevelShort`: one level up too few | `ForwardsToOwnLegacy` |
| `ObfuscationCalculate_ParamFirst`: two arguments of the task swapped | `OutputAsRequested` |
| `CalculateValuesSliceLower_EndFirst`: end normalised before start | `AnswersMatchReference` |
| `AivBias_OneWeight`, `Space_OneBuffer` | `CoresAgree`, `BuffersDisjoint` |
| `ActualBlockShape_Unclipped`, `DimIdx_Swapped`, `TaskIdx_OtherIter`, `CurBlockIdx_SameForAll` | `BlocksInsideResult`, `ResultIsCovered`, `NothingComputedTwice`, `GroupOnOneBlock` |
| `DoCheckArgs_LargeM`: the limit of N used for M | `AcceptedFits` |
| `Credits_OneEach`, `TileReleased_NotifyingOneAiv`, `CopyToL0_NotWaitingForMmad`, `OpensGroup_OncePerBlock`, `FinalWaits_NoneByAiv0`, `Mmad_NotWaitingForFixpipe`, `Partners_AlwaysBoth`: a wait or a set missing, doubled or on the wrong flag | the properties of the `matmul_*` runs |
| `CopyND2NZ_Whole`, `LayoutND_910_95_Unclipped`: partial tiles copied whole | `EachCellInPlace`, `NothingElseWritten` |
| `VFDoLogitMuls_NotWaiting`: V does not wait for the copy of its buffer | `OutputsRight` |
| `AllCopied_LastUsed`: only the event of the last buffer is taken back | `EventsInPairs` |
| `SliceRows_RoundedDown`: the rows of a core are divided rounding down | `Completes` of `kernel_pipes` |
| `RemoveName_AfterInstallOnly`, `Granted_ByName` | `QuietDirectoryIsClean`, `RefusedOnlyWhileAnotherWorks` |

## What is not modelled

- Arithmetic on data: rounding, casts, the multiplication itself, the hash function's bits (collisions
  are possible for any hash and are modelled).
- An exception in `emplace` (`std::bad_alloc`), after which the cache's lock stays taken: the code has no
  handler, so there is no behaviour after it.
- `TilingRegistry` called with a priority that is not registered: undefined behaviour in the code
  (`operator[]` inserts a null function and calls it); callers must not, and the model's do not.
- A caller of `unlock()` that does not hold the lock.
- Copies: the unit-flag NZ output of 910_95, NZ results in types other than half, the byte loads of
  `l1_to_l0_b`, quantisation parameters of the output copies, and the branches listed under findings.
- Epilogues: UB addresses are distinct buffers and not offsets; the address update for fp4 groups.
- The remaining act utilities: types, tuples and tags of the compiler; `CeilDiv` and `CeilAlign` are translated
  where they are used.
- The remaining members of the blocks on `AscendC::MatmulImpl` only forward to it.
- The package manager and the installers: shell programs that change version files, links and directories
  which other packages' managers change too, driven by lists generated at build time. No text in the
  repository says what must hold between two of their commands, so a model would have nothing of this code
  to be checked against; the lock they run under is modelled.
- Tiling keys, hash, tuning registries, graph prototypes, stubs: pure arithmetic, declarations and macros.
- The build, packaging and code-generating tools: sequential programs that run once.

## Plan

What would be proved next: `OutputsRight` for the finalize-routing prologue, the smallest of the kernels on the
pipes. The rings of `KernelPipes_proofs` say which instructions cannot run at the same time; what remains is the
content of each buffer between two events of its ring.
