# Verification of the stone prover and its RLP library

TLA+ models of the parts of this repository in which state, order and
concurrency decide whether proofs are right, with TLC runs on small instances
and TLAPS proofs for every size. The repository is a fork of StarkWare's STARK
prover and verifier (C++, `src/src/starkware`) together with a Cairo library
that takes RLP strings apart (`src/lib`). Paths below are relative to
`src/src/starkware` unless they begin with `src/`.

Contents: [inventory](#1-inventory), [modules and code](#2-modules-and-the-code-they-model),
[runs](#3-what-the-runs-check), [bounds](#4-bounds), [fairness](#5-fairness),
[proofs](#6-what-is-proved), [findings](#7-where-code-and-documents-disagree),
[limits](#8-what-is-not-modelled), [plan](#9-plan).

## 1. Inventory

A prover run (`main/prover_main_helper_impl.cc`) builds a trace, commits to its
low degree extension, draws randomness from what it committed to, evaluates and
commits to a composition polynomial, and proves with FRI that everything has
low degree. Whatever it sends goes through a channel into one byte string, the
proof. The verifier reads that string with a program of its own.

| Part | State | Operations | Interacts with |
| --- | --- | --- | --- |
| `TaskManager` (`utils/task_manager.*`) | threads, LIFO queue, two condition variables, a counter and an exception per call | constructor, `ParallelFor`, `TaskRunner`, destructor | called by every parallel loop, also from within its own tasks |
| Proof of work (`channel/proof_of_work.*`) | two atomics shared by all tasks | `Prove`, `Verify` | `TaskManager`; called by both channels |
| `HashChain`, `PrngImpl` (`randomness/`) | digest, block counter, spare bytes | `GetRandomBytes`, `MixSeedWithBytes` | the channels draw from and mix into it |
| Channel (`channel/`) | proof bytes, place in them, generator, query phase, annotations | send, receive, draw, `BeginQueryPhase`, `ApplyProofOfWork` | protocol, FRI and tables on both sides |
| STARK protocol (`stark/stark.cc`, `oods.cc`) | the place in the protocol | `ProveStark`, `VerifyStark` | channel, traces, composition, FRI |
| FRI (`fri/`) | layers (in memory, out of memory, proxies), queries, results | commitment phase, query phase of each side | channel, tables, interpolation |
| Tables (`commitment_scheme/table_*`) | queries asked for, rows | `AddSegment…`, `Commit`, `StartDecommitmentPhase`, `Decommit`; `Query`, `VerifyDecommitment` | channel, commitment schemes |
| Commitment schemes (`commitment_scheme/`) | Merkle nodes, cached levels, scratch memory per worker, queries of a decommitment | `AddSegmentForCommitment`, `Commit`, the decommitment; `VerifyIntegrity` | tables, channel, `TaskManager` |
| Extension cache (`algebra/lde/cached_lde_manager.*`) | interpolation, twiddle factors and the offset they are for, evaluations by coset | `AddEvaluation`, `EvalOnCoset`, `EvalAtPoints`, `FinalizeEvaluations`, … | committed traces, composition |
| Committed traces, composition oracle (`stark/`) | a cache and a table per trace | `Commit`, `EvalComposition`, `EvalMaskAtPoint`, `DecommitQueries` | extension cache, tables |
| Composition polynomial (`composition_polynomial/`) | scratch memory per worker, iterators over columns and neighbours | `EvalOnCosetBitReversedOutput`, `EvalAtPoint`, `PeriodicColumn::GetCoset` | `TaskManager`; called by the composition oracle |
| CPU AIR: first trace (`air/cpu/board/cpu_air.inl`, `air/cpu/builtin/`) | pools of memory, range check and diluted cells, bounds of addresses and values, sorted columns | `GetTrace`, `GetInteractionTrace`; `WriteTrace` of the CPU and of each builtin | `TaskManager`; pools and permutations of `air/components/` |
| Pools (`air/components/memory`, `perm_range_check`, `diluted_check`) | cells, which are written | `WriteTrace`, `Finalize` | CPU, builtins, sorted columns |
| RLP library (`src/lib/*.cairo`) | words of a string (functional) | `extract_data`, `reconstruct_ints_sequence_list`, shifts | callers in `src/lib/blockheader_rlp_extractor.cairo` |
| Other AIRs, the breaker of the composition polynomial, fields, FFT, hashes, statements, programs, utilities | see `PROJECT.json` | | |

The behaviours that are hard, and what makes each part correct:

* **TaskManager.** Tasks keep references into the stack frame of the call that
  made them; wake-ups of three kinds share two condition variables; callers run
  the tasks of other calls while they wait. Correct means: no task outlives its
  frame, no wake-up that matters is lost even if every thread is inside a call,
  the caller gets an exception of its own tasks, the destructor ends, and the
  cut of a range covers it once, also where `start + size` wraps around.
* **Proof of work.** Tasks stop on values other tasks may be changing. Correct
  means: the result does not depend on the schedule, and the search ends.
* **HashChain.** A buffer of fixed size between requests of any size. Correct
  means: it never overflows, no byte is given out twice, and nothing generated
  before data was mixed in is given out after.
* **Protocol and channels.** Two programs over a string without structure,
  with optional parts. Correct means: they stay in lockstep, every random value
  depends on the proof before it, the queries cost the work, an honest proof is
  accepted and a shortened one is not.
* **FRI.** Indices of a query are computed in three places from different sums
  of steps, queries merge, and the prover picks between three kinds of layers.
  Correct means: both sides speak of the same cells and each table is given its
  own layer.
* **Commitment schemes.** The prover cuts a table into segments and tasks and
  keeps some levels only; the verifier knows of none of this. Correct means:
  the root and the decommitment do not depend on it.
* **Extension cache.** Twiddle factors are shifted from those of the call
  before; pointers into a cache are used long after; interpolations are
  released early. Correct means: every evaluation is the coset it is taken for.
* **Composition oracle.** Several traces are numbered as one: a mask is split
  among them and put together again, on each side by code of its own, and the
  values of the out of domain sampling become constraints in an order that
  decides which random coefficient each of them gets. Correct means: both sides
  evaluate the same sum on the same cells, and every constraint is true.
* **Composition polynomial.** Tasks share columns that are being reversed and
  scratch memory chosen by the number of the worker. Correct means: the output
  holds at every point the value of the constraints on the rows around it.
* **First trace.** Steps and instances are written concurrently into pools with
  gaps; the gaps are filled in an order that matters (range checks before the
  memory of the range check builtin, that before the memory's own gaps), with
  counters that wrap around. Correct means: no cell is written twice, filled
  pools satisfy the constraints of the AIR, the builtins' cells hold what the
  memory says, and a trace is refused only if there is none.
* **RLP.** Words that are cut at both ends, the last one right aligned.
  Correct means: exactly the bytes asked for, and no word outside is read.

`PROJECT.json` lists every component, those not modelled included, and each
hazard at its line with the properties that cover it.

## 2. Modules and the code they model

`PROJECT.json` maps every definition to its lines; this is the outline.

**`TaskManager`** (`utils/task_manager.{h,inl,cc}`). Every critical section of
`mutex_` is one action, plus the end of `ParallelFor` that reads `eptr` with no
lock (`Return`). `CallParallel` queues the tasks of a call, `RunnerWait`,
`RunnerPop` and `RunnerReturn` are the branches of the loop of `TaskRunner`,
`FuncEnds` and `TaskEnds` the end of a task, `CallInline` and `InlineEnds` the
single item, `Destroy` and `Join` the destructor. `frame[t]` is the innermost
activation on a thread's stack and `runner[k]` the one below, so calls nest as
they do in the code. `NSleeping` counts sleepers as `n_sleeping_threads_` does,
including those that were notified and have not run; `Wakes` lets `notify_one`
pick any sleeper, and `SpuriousWake` lets a sleeper wake for no reason. What
functions do is left open: they make calls, end or throw. `Barrier` names calls
whose functions wait for each other, as in `utils/task_manager_test.cc`.
**`ForkJoin`** is the abstract specification: calls, tasks, exceptions and a
number of threads, with no queue and no lock. `ImplementsForkJoin` is the
refinement, fairness included. **`TaskPartition`** is the arithmetic of
`ParallelFor` (`GetTaskEndIdx`, `DivCeil`, chunks) modulo the size of a word, with
any number of workers that take the tasks from the queue, give chunk after chunk
to the function (`CallFunction`, `FunctionReturns`) or see it throw.

**`CompositionEvaluation`** (`composition_polynomial/*`, `utils/bit_reversal.*`)
extends `TaskPartition`: a job is a sequence of calls of `ParallelFor`, whose
functions are models of the lambdas in the code, one action for each access to
a vector that tasks share: `ReadPair` and `WritePair` swap two cells of a
column, `GetCosetStep` fills a periodic column, `Begin`, `Columns`,
`ConstraintsEval`, `BatchInverse`, `Output` evaluate the constraints in
`worker_mem`, which is chosen by `WorkerMemory` and keeps what the task before
left there.

**`ProofOfWork`** (`channel/proof_of_work.inl`). Each load, compare-exchange and
`fetch_add` on the two atomics is an action of a task. Nonces wrap around; the
set of valid nonces is any set.

**`HashChain`** (`randomness/hash_chain.*`, `prng.h`). A byte is known by its
seed, its block and its place. Digests are the sequence of what was hashed;
payloads are numbered so that some look like a padded block counter, which is
what the increment of the seed is for.

**`Transcript`** (both channels, as operators on a channel record), **`FriQueries`**
(index arithmetic of `fri_details.*` and `table_impl_details.cc`),
**`CompositionOracle`** (masks over several traces, boundary conditions, the
boundary AIR) and **`StarkProtocol`** compose the two programs: the actions are
the sections of `ProveStark` and `VerifyStark` in the order of the code,
`HandOver` passes the proof on, whole or, for some parameters, without its end.
A receive returns the units at `proof_read_index_` or, at the end of the proof,
what is left of them and fails, which is "Proof too short." **`Powers`** has the
powers of two and the sums of FRI steps.
A committed table is known by its name and its honest contents; a column at a
point of the out of domain sampling is a term, and its conjugate another. The
value of the first FRI layer is the list of terms of the boundary constraints
at a row, which the prover takes from the concatenated columns
(`FirstLayerValue`) and the verifier from the answers of the traces
(`OracleValue`); the values of later layers are terms, so folding the wrong
coset gives a value that is wrong. The prover's last layer is of low degree if
every constraint is true of its column (`IsOfLowDegree`).

**`CommitmentScheme`** (`commitment_scheme/*`, `stark/utils.inl`). One table with
its stack of schemes: `StartsTask` and `AddsSegment` are the tasks of
`ParallelTableProver`, each with the scratch memory of its worker;
`StartDecommitmentPhase`, `Decommit`, `DecommitLevel`, `StartTree`, `TreeStep` the
prover, `VerifyLevel`, `VStartTree`, `VTreeStep`, `Compare` the verifier.
`HandOver` may alter one row or one value. Hashes are terms.

**`FriLayers`** (`fri/fri_layer.*`, `fri_prover.cc`, `fri_committed_layer.cc`). The
rounds of the commitment phase with the choice between a layer in memory, one
out of memory and a proxy, reading in chunks, and the twiddle factors that each
reader's storage has been shifted to. A vector is the part of a layer it holds.

**`LdeCache`** (`algebra/lde/cached_lde_manager.*`) has one operator for each
method of the class, with its assertions; **`CommittedTraces`** runs the calls a
proof makes to the caches of all traces, in the order of `stark.cc`,
`committed_trace.cc` and `composition_oracle.cc`, with the in-place or copied
reversal of columns (`composition_oracle.cc:157-165`).

**`IntsSequence`**, **`ExtractFromRlp`**, **`IntsSequenceList`** (`src/lib/*.cairo`).
A word is its eight bytes, each known by its place in the first string; a word
of another byte string is never mistaken for the right one. `ExtractFromRlp`
takes one recursive call of `extract_data_rec` per step, and the result of a
call may be the argument of the next. **`RlpLibrary`** composes them: a list of
strings is taken apart and data is extracted from one of its strings.

**`CpuTrace`** (`air/cpu/board/cpu_air.inl`) is `GetTrace` and the checks of
`GetInteractionTrace`. Each phase has its tasks, each task is the sequence of
writes and assertions that **`TraceWriters`** gives for the CPU component, the
public memory and the pedersen, range check and bitwise builtins
(`air/cpu/component`, `air/cpu/builtin`); `Run` and `Throw` interleave them.
**`RangeCheckCell`**, **`DilutedCheckCell`** and **`MemoryCell`**
(`air/components/`) are the pools with their `Finalize`, one cell per step, which
`CpuTrace` instantiates with its variables. `SortMemory`, `SortRc16` and
`SortDiluted` make the sorted columns with the checks of the code, and
`GetInteractionTrace` compares products as bags of cells.

The modules `MC…` hold the instances for TLC, the modules `…Proofs` the theorems,
`Foundations` what several of them use.
Operators marked `\* mutant` are plausible mistakes in the definition after
them: each property has at least one that breaks it.

## 3. What the runs check

| Run | States | What it shows |
| --- | --- | --- |
| `taskmanager` | 236,217 | counters are exact (`SiblingsCount`), no task outlives its frame (`NoDanglingTask`), nobody sleeps on a call that has a task in the queue or none left (`NoLostWakeup`), the pool implements `ForkJoin` with its fairness, so every call ends although one needs all threads at once, and the destructor ends |
| `composition_evaluation` | 432,933 | every item of any call is given to the function once (`ItemsRunOnce`) and all of them are when no function throws (`AllItemsRun`), in spite of sums that wrap around; the composition polynomial has at every point of the coset the value of the constraints on the right rows, periodic columns and domain evaluations (`EveryPointHasItsValue`), however workers share the tasks |
| `proof_of_work` | 1,134,896 | the smallest valid nonce of all chunks but the last is found (`LowestNonceWins`) along an inductive argument (`NothingMissed`), and the search ends |
| `proof_of_work_all_nonces` | | violated: see section 7 |
| `hash_chain` | 334,138 | the buffer never overflows, no byte twice, no byte of an old seed, no seed equal to a block that was given out |
| `stark_protocol` | 61,665 | the verifier reads and draws what the prover sent and drew (`Lockstep`), every random value depends on all of the proof before it, queries are drawn after the work, no lookup of the verifier and no assertion of the prover throws (the degree of the last layer included, that is, every boundary constraint is true), an honest proof is accepted, for which both sides have to agree on masks, constraints, coefficients, queries and folds, and only a whole one is |
| `commitment_scheme` | 149,375 | the root is the one the verifier would compute whatever the segments, tasks, workers and cached levels; a decommitment is accepted exactly if no row and no value was altered (`VerdictIsExact`), nothing is sent that the verifier has, and splitting a segment never makes the construction fail |
| `commitment_documented_minimum` | | violated: see section 7 |
| `rlp_library` | 261,397 | a list of strings is cut apart as it was put together (`StringsAreRebuilt`); exactly the bytes asked for are extracted, no word outside is read, no shift is out of range, also for calls on results of calls and on strings of a list |
| `fri_layers` | 216,867 | each table is given its own layer, in order, and committed layers answer queries with it (`TablesHoldTheLayers`); no assertion fails; a layer out of memory never follows one in memory |
| `committed_traces` | 15,820 | what is committed, composed and decommitted is the extension of the trace on the right coset and in the right order, and no call is refused |
| `cpu_trace` | 103,858 | the constraints of the AIR about pools and sorted columns hold of every trace that is returned (`ConstraintsHold`), the cells of the builtins hold what memory says (`BuiltinsAgree`), and `GetTrace` throws for exactly those inputs that cannot be proved in the layout (`RefusedForAReason`), whatever the order of the tasks |

Type invariants are part of the inductive invariants of section 6 and hold for
all values of the constants; no run spends a property on them.

## 4. Bounds

* `taskmanager`: one main thread, two workers, three calls with two, three and
  one task, to a depth of two. Three threads are the fewest with which one can
  be notified, one asleep and one running; the barrier takes all of them. Every
  interleaving, exception and spurious wake-up is included. There is no
  symmetry, which liveness would not allow.
* `composition_evaluation`: words of four bits, ranges with four sizes of chunks,
  four of minimal work and one or two workers, so that the ends of tasks and
  chunks and `DivCeil` wrap around; ranges have `start <= end`, which is what all
  callers pass. Compositions on a coset of eight points, of two columns of which
  one or none is cached, with a mask that looks one row ahead, two periodic
  columns, tasks of two, three (the last is shorter) and eight points, and one
  to three workers.
* `proof_of_work`: three tasks, five chunks of two nonces, every set of valid
  nonces: each task can be ahead of and behind the others by a chunk, and the
  counter wraps around.
* `hash_chain`: digests of three bytes, requests of up to seven bytes (more
  than two blocks), four blocks to a seed, two changes of the seed.
  `MaxRequest`, `MaxBlocks` and `MaxMixes` are only for TLC; the proofs hold
  with any value of them.
* `stark_protocol`: masks of up to six cells over one trace of two columns or two
  traces of one and two, in which rows wrap around and columns are left and come
  back; base and extension field; one or two columns of the broken trace, whose
  point coincides with that of the mask in the first case; one or two traces, with and without work, up to three
  layers with steps of 0 to 2 and one with an inner step of zero; two queries
  with all their values to a domain of eight or sixteen, three to a domain of
  sixteen, two to one of 32 where the second layer is all of it, so that queries
  are equal, meet in a coset and meet in a later layer. Proofs are
  cut after any unit for two shapes that contain all kinds of units. Of the
  parameters it is assumed what the code asserts before it uses them: a mask is
  of columns that there are (`composition_oracle.cc:39`), the steps of FRI
  divide the trace (`stark.cc:178-187`), which is no longer than the evaluation
  domain.
* `commitment_scheme`: four and eight rows in one, two or four segments and one
  or two tasks, one, two or four rows to a package, 0 to 2 levels out of memory,
  0 to 4 friendly levels; alterations with up to three queries; sixteen rows
  with four tasks and two workers.
* `rlp_library`: all strings of up to 26 bytes (three words and a bit: a first,
  an inner and a short last word) with all calls within them, two calls deep,
  and the one call of `decode_receipts_root`. Calls with
  `start_pos + size <= length`, which the code leaves to its caller. Lists of up
  to two strings of up to 17 bytes, and of three at the ends of words.
* `fri_layers`: up to four steps of up to three (only the first may be zero),
  layers of up to 128 elements, all limits for layers in memory, chunks of at
  least four elements and two or four to a layer. With one chunk to a layer, or
  chunks smaller than what a step folds, the code ends in an assertion; these
  settings are excluded and listed as a hazard.
* `committed_traces`: four cosets of two elements, one or two original traces,
  compositions of one, two and four cosets, both settings of the cache and of
  the evaluation, up to three rows of a table of eight.
* `cpu_trace`: two steps, two instances of the pedersen builtin and one each of
  range check and bitwise, 24 units of memory, 10 range check and 23 diluted
  cells, of which a few stay vacant. Range check values have three bits in two
  parts, bitwise operands eight bits in parts of three at a spacing of two.
  Programs leave no gap, gaps that can be filled and gaps that cannot, in
  addresses and in range checks; `rc_min` is zero, greater, or `rc_max`; public
  memory is missing, too long or contradicts the program; operands are at the
  limits of their widths. The cumulative value is computed modulo 101 for four
  pairs of elements.

## 5. Fairness

* `TaskManager`: weak fairness of each thread's `Step`, that is, the operating
  system runs every thread that can run, and the functions given to
  `ParallelFor` end. A thread that waits for the mutex gets it: critical
  sections are single actions, and none is held while a thread waits. No
  fairness is assumed of spurious wake-ups, of calls or of the destructor;
  a notified thread is a thread that can run. `notify_one` may pick any sleeper.
* `ForkJoin`: weak fairness of starting, finishing and returning. Nobody has to
  make a call.
* `ProofOfWork`: weak fairness of each task, which are tasks of one
  `ParallelFor`. `Terminates` needs no fairness between tasks beyond that.
* All other modules are checked for safety only. Their programs end because
  their loops are over finite sequences; where tasks run at the same time
  (`TaskPartition`, `CompositionEvaluation`, `CpuTrace`, `CommitmentScheme`) it is
  `TaskManager` that has them end.

## 6. What is proved

TLAPS checks these for every value of the constants that the named assumptions
in the modules allow.

* `TaskManagerProofs`: `TypeCorrect`, `CountersAreExact`, `NoTaskOutlivesItsFrame`
  for any number of threads and any tree of calls. A counter alone is not
  inductive: `IInv` adds that queue entries are exactly the tasks with status
  "queued", each once (`QueueInv`), that the frame of a thread fits what it does
  (`FrameInv`), that whatever refers to a call refers to an active one
  (`AliveInv`), that a frame is on one stack only (`StackInv`) and when a task
  has which status (`LifeInv`). The step that matters is `RunnerReturn`: a call
  ends only with a counter of zero, and by `SiblingsCount` no task is left.
  `NoWakeupIsLost` is inductive on top of `IInv`: a caller goes to sleep with an
  empty queue only, and the last task of its call wakes it.
  `SafelyForksAndJoins`: every step of `TaskManager` is a step of `ForkJoin` or
  leaves what `ForkJoin` speaks of as it is. On top of
  `IInv`, `RInv` says on whose stack each frame is (`OwnerInv`, `MainInv`,
  `BaseInv`), that a running frame is on top of a stack or waits for a call
  (`TopInv`), that calls are made by running frames (`CallsInv`) and whose
  exception is where (`ThrownInv`, `EptrInv`). `ForkJoin` starts a task only
  while fewer tasks make progress than there are threads; `RoomForOne` shows
  this from a thread for each of them, which a thread that takes a task is not.
* `CompositionEvaluationProofs`, for `EvaluationSpec`: `AllItemsAreRun` and
  `ItemsAreRunOnce` for words of any size, any call with `start <= end` and any
  number of workers; `EveryPointIsRight` for any coset that fits into a word, any
  columns, periodic columns and mask, any size of a task and number of threads.
  `IInv` is about the partition: the tasks in the queue cut the items below
  `Bound` (`QueueInv`), tasks taken lie above it and their chunks within them
  (`TaskInv`), what workers still have is apart from each other and from what was
  run (`DisjointInv`), and nothing is left out (`CoverInv`). `RunningInv` adds
  that chunks in work are apart, which is what keeps functions that run at the
  same time off each other's elements. `JobInv` says what the arrays hold in
  terms of the items handled so far (`Handled`, `Past`): a pair of a column is
  swapped when the smaller of its two indices has been handled (`Turn`, which
  needs that reversing bits twice gives the index back, `BitReverseTwice`), a
  periodic column is known where the residue has been handled, the output is
  written for the points of finished tasks and up to where a worker has come in
  its own (`Written`). `LocalInv` says where each worker is in its function and
  what its memory is good for: values up to its index, iterators and evaluations
  at it, whatever an earlier task left behind. `EvaluationStep` has one lemma
  for each action, and `NextCallJob` carries the arrays from one call of
  `ParallelFor` to the next, for which `AllHandled` is needed.
* `TraceProofs`, about two components that do not touch each other.
  `FilledPoolIsWhole`: a pool that `Finalize` has filled
  holds every value of the range and no other, for any size of the pool and of
  words and whatever was written to it; the loop invariant places the search
  for holes, whose start `rc_min - 1` wraps around.

  `NoCallIsRefused`, `TablesHoldTheTrace`, `CompositionIsTold` and
  `RowsAreWhatWasCommitted`: all four properties of `CommittedTraces`, for any
  number of traces, columns, cosets and breaks, any length of a trace and any rows
  of the tables, with and without a cache. There is one lemma for each method of
  `CachedLdeManager` (`Added`, `AddedAll`, `Evaluated`, `PointsEvaluated`,
  `Released`) in terms of `Ready`: the twiddle factors are those of the offset the
  manager remembers, which is all that shifting them by a quotient needs, and the
  cache holds the evaluations of the first `n` cosets and nothing else. Evaluating
  at points by whole cosets is a loop over an array entry that serves them all
  (`OneCoset`, `RecomputedIs`). What is called when is a sequence made by
  `ProveStark`; `ProgramIs` finds the place of every call in it, by sums of the
  lengths of its parts, `PlacesFollow` how the parts follow one another. The
  inductive invariant `IInv` says, place by place (`InAdd`, `InCommit`,
  `InEvaluate`, ..., `InDecommit`), how far each manager is, what the storages are
  for and what has been collected for the composition. The case that needs all of
  it is the second composition of a prover with a full cache: the interpolations
  are gone, and the evaluations are still there because the commitment asked for
  every coset (`EvaluatedAgain`).
* `HashingProofs` is about what is made of hashes: the two sources of what a channel
  draws, and the commitments. Of `ProofOfWork`:
  `LowestNonce`, `NoNonceIsMissed` for any number of tasks, chunks and nonces;
  `SearchInv` adds what is known of the value a task is about to store and of the
  order in which chunks are handed out until the counter wraps. Of `HashChain`:
  `BufferNeverOverflows`, `StreamNeverRepeats`, `RandomnessIsBound`,
  `SeedsAreNoBlocks` for any digest size and any sequence of requests; `IInv` adds
  which blocks the delivered and the spare bytes come from. One module extends
  them all, so the specifications are called `SearchSpec` and `CommitmentSpec`.

  Of `CommitmentScheme`: `OneRootOfATable` and `SplittingNeverFails`, for tables of
  any size in any number of segments and tasks, any digest and element size, any
  number of friendly levels and of levels kept in memory, and any number of workers.
  `TablesAssumption` asks that sizes are powers of two, which `merkle.h:42`,
  `packer_hasher.cc:109` and `SafeLog2` refuse to do without. The argument goes by
  levels: `Element` says what the table has at a place of a level, by the hashes
  the verifier uses. `Sizes` does the arithmetic of the constructors: how many
  levels lie in a segment, and how many elements of each; `SameKinds` that the
  friendly levels, counted by the verifier from the root and divided by the builder
  between the tree and the segments, are the same ones. Packing a piece level by
  level then gives the elements at its place (`ElementsAre`,
  `ElementsInPackagesAre`). The inductive invariant `CommitmentInv` says which
  pieces have been added, that a cache and the leaves of the tree have the elements
  of just these, that each worker has a piece of its own (`Slot`), and, once all
  are there, that the nodes of the tree are the levels above (`TreeElements`),
  whichever worker came first.

  And of its decommitments: `SidesInLockstep`, `OnlyTheTableIsAccepted` and
  `NothingSentTwice`, for any nonempty set of queries into such a table. What has
  to be sent is what is missing at each level, in ascending order, and
  `SentBefore` counts what precedes a level; so every place of the decommitment
  belongs to one missing element (`PlaceOf`, `PlacesDiffer`). The second
  invariant, `DecommitInv`, says that each place holds the label and the value of
  its element. That the prover sends in this order is by the answers to its
  requests (`AnswersAreRight`: what a level gets is what it asked for, whether the
  one above is cached or not) in the levels of a segment, and in the tree by
  `Walk`: between two steps the queue holds the rest of one level and the parents
  already found in the next, in this order, and the next sibling that is not in
  the queue is the next missing element (`WalkMoves`). The verifier walks the same
  queue with hashes in it (`VTreeStepKeepsDecommit`) or goes level by level
  (`VerifyLevelKeepsDecommit`). `ReadsInv` and `WalksInv` say that its hashes
  are the committed ones if and only if the rows and all it has read are
  (`Intact`): one wrong value makes the hash above it wrong (`ParentIsRight`), up to
  the root. The proof uses that hashes are terms, and that the model alters proof
  or rows in one place, so that a wrong root and a wrong value do not meet.
* `FriLayersProofs`: `TablesAreTheLayers`, `NoLayerAssertionFails` and `OnceInMemory`,
  all three properties of `FriLayers`, for any list of steps, any degree of the last
  layer, any blowup and any setting of memory and chunks that `ShapesAssumption`
  allows. Of the assumption, that no step but the first is zero is asserted by
  `CommitmentPhase`, and that there are two cosets follows from the degree of the
  composition polynomial; that big layers are cut into two chunks at least, and
  that half of what a step folds fits `max_non_chunked_layer_size`, is checked
  nowhere in the code and is what the settings have to see to.

  `IInv` says that each layer so far holds its own first elements, all or a coset
  of as many as determine it, that each table has been given its layer
  (`LayersAre`, `TablesAre`), and place by place (`AtCreate`, `AtMake`, `AtGather`,
  `AtCommit`, `AtLast`, `AtDecommit`) what has been read and which coset the
  storage is for. What makes it inductive is that sizes agree. `ChunkSizesAre`
  solves the recursion of `CalculateChunkSize`: from the second proxy on a chunk is
  half the one below. `ChunksFit` shows that every chunk of the layer on top is one
  that each proxy and the layer at the bottom can give, and `FoldedIs` which
  elements it has after the folds. Twiddle factors may be shifted because of the
  order of reading: `ReadStep` leaves the storage at the coset just read, which is
  where the next one shifts them from. `WhichFollows` decides what kind of layer
  comes next: a layer out of memory whose coset is too small for two steps is
  followed by one more layer at most, and any other in memory is so by its size,
  which only gets smaller (`NextInMemory`).
* `StarkProtocolProofs`: `ProgramsAreInLockstep`, `RandomnessBinds`,
  `QueriesComeAfterWork`, `AcceptedProofsAreWhole`, `NothingIsThrown` and
  `IntactProofsAreAccepted` for all parameters (any
  traces, masks, lists of FRI steps, numbers of queries, any work), whatever is
  queried and wherever the proof is cut. Two programs are in lockstep because of
  what they do in the same places, so the argument is about places: `Places` are
  a line of the protocol with its loop index and what has been drawn, `After` is
  what the prover does there. A run of the prover is a set of places closed
  under `After` up to where it is (`IsRun`, `OnTheWay`), and the inductive
  invariant `Inv` says that the prover's channel is the last of one and that the
  verifier, unless its channel has failed, stands at a place of it (`Stands`,
  `Reads`). There is one lemma for each action of the verifier: it takes a
  place of the run to the next one (`ReadsOn`), or stays between two of
  them when values are checked, or fails. The lemmas about channels (`Follows`)
  say that a receive of as many units under the same labels, from a prefix of the
  proof, is what was sent or a failure. What holds of all channels the prover
  passes holds of the verifier's, whose notes are a prefix: the seed of a random
  value is all of the proof before it, and queries follow a nonce for the state
  before it.

  That an intact proof is accepted is a statement about values, and needs two
  more invariants on top of `Inv`. `Honest` is about the prover: its channel has
  not failed, or a layer has a step of zero (`Excused`, `fri_prover.cc:67`), and
  its constraints are those of the sampled values; a decommitment has all rows
  it is asked for (`DecommitsGoes`, `AssertionsHold`). `Right` says what the
  verifier knows in each of its places: the constraints it builds from the
  sampled values are the prover's, the cells of the traces are the committed
  ones, and before round `i` of `VerifyInnerLayers` its results are the values
  of layer `i + 1` at the queries; and it has rejected only if the proof was
  cut. The lemmas below are what makes this inductive. The numbering of columns:
  the prover concatenates the traces, the verifier looks columns up by widths
  and counts the items of the mask per trace, and `ConcatenatedColumn`,
  `MaskIsSampled` and `OracleIs` show that they agree, also when an extension
  field adds a second constraint for each (`ConstraintsAreTrue`,
  `QuotientsAreOfLowDegree`). The indices of FRI: the sums of steps of prover
  and verifier are the same (`ShiftsAre`), the index of a query in a layer is
  its row in the next (`IndexGoesDown`), what is read and what is computed are
  the whole cosets (`LayerRows`), of queries that meet the first one has the
  value of the cell (`ComputedIs`), and folding a coset gives the value in the
  next layer (`FoldIs`). A step of the verifier then succeeds or the proof ends
  in it (`Passes`, `Took`).

  `TransmittedAreDataQueries`, `CosetsAreComplete`, `FirstQueriesAreCosets` are
  about the indices of FRI: what is transmitted are the data queries, what is
  transmitted and what is computed make up whole cosets, and the first layer
  answers whole cosets in ascending order, for any list of queries.
* `Foundations` has what the others stand on and the library lacks: induction
  over a set of numbers, and that a recursive function solves its equation
  (`RecursionHasSolution`), from the well-foundedness of the natural numbers, so
  that `Pow2`, sums of steps and the reversal of bits can be reasoned about.
* `RlpLibraryProofs`: `ListsAreCutRight`, `ExtractionIsRight`,
  `NothingOutsideIsRead`, `NoAssertionFails` for lists of any number of strings,
  strings of all lengths and all calls within them. `IInv` says that the argument
  of `extract_data` is the packed string from `origin` on, that the call lies
  within it, and that the words so far are those of the result; the core is a
  lemma per kind of word (inner, before the last, last) on what two shifts and a
  sum give. `ListInv` says the same of the list: the strings so far are as they
  were packed, `offset` is the sum of their words, and the copied words are the
  first ones of the next string; `ConcatIs` finds every word of the
  concatenation. The two meet in `TakeString`, where a string of the list becomes
  the argument.

Only model-checked: all liveness (the fairness of `ForkJoin`, `DestructorEnds`,
`Terminates`), which is out of the prover's reach, and `CpuTrace` but for the
range check pool: its constraints hold by how a dozen writers fill the pools
together, and each pool would need an invariant of its own as `RangeCheckCell` has.

## 7. Where code and documents disagree

* `channel/proof_of_work.inl:54`: the bound `nonce_start + chunk_size` of the loop
  wraps around to 0 in the last chunk, so its nonces are never tried, while the
  comment at `:85` takes the overflow check to mean "we finished searching 64
  bits". Run `proof_of_work_all_nonces`. The result of a search is not affected
  in practice; the theorem `LowestNonce` says exactly what is searched.
* `main/prover_main_helper_impl.cc:117` documents a minimum of verifier friendly
  layers of "log(table_prover_n_tasks_per_segment) * n_cosets";
  `commitment_scheme/commitment_scheme_builder.inl:46` asserts the logarithm of
  the number of segments, that is of the product of tasks and cosets. With one
  task the documented minimum is zero, and one layer for four cosets throws.
  Run `commitment_documented_minimum`.

Met on the way, and no disagreement with anything written:
`algebra/lde/cached_lde_manager.cc:44` fills a cache entry before the assertions
that may refuse the call, so a caller who went on after the refusal would be
given memory nobody wrote; a proof never does. An inner FRI step of zero is
refused by an assertion of the prover only (`fri/fri_prover.cc:67`). The
constructor of `CpuAir` accepts `rc_min = rc_max` (`air/cpu/board/cpu_air.h:106`),
which `RangeCheckCell::Finalize` refuses later
(`air/components/perm_range_check/range_check_cell.inl:27`). The loop at
`air/components/permutation/multi_column_permutation.inl:45` checks the lengths
of as many columns as there are series. That memory begins at address one, which
a constraint of the AIR (`memory/initial_addr`) demands, is asserted nowhere in
`GetTrace`; operands of the bitwise builtin that are too wide are not refused by
the prover, and neither is a private input beyond the instances. `InputsAssumption`
of `CpuTrace` names what it takes for granted of these.

## 8. What is not modelled

Arithmetic over large fields (fields, curves, FFT, interpolation, the algebra of
constraints, the breaker of the composition polynomial), hash functions (taken
to be free of collisions), files, JSON, serialization and statistics.

About 73 thousand of the 111 thousand lines of implementation are the generated
definition of the CPU AIR (`air/cpu/board/cpu_air_definition*`): polynomials over
a field of 252 bits, without state, whose meaning TLC and the provers cannot
evaluate. `CpuTrace` states those of its constraints that are about pools and
sorted columns; the lines themselves are mapped to nothing. Tables of constants of curves
and hash functions add several thousand. The models therefore
cover a small share of all lines and most of those with state.

Of components modelled in part: the ecdsa, ec_op, keccak and poseidon builtins,
which write to the pools as the three modelled ones do; the check that
decommitted values are in the base field; the text of annotations and
interactive channels; `Reseed` and the distributions of the randomness.
Scheduling policies of threads (`utils/task_manager.cc:69`) cannot fail in the
model. Memory models: the atomics of the proof of work are sequentially
consistent, as the code asks of them by default; columns shared by tasks are
read and written in single steps, and a race shows as an interleaving.

## 9. Plan

In the order of importance; a module is proved about only if TLC agrees first.

Done: `ForkJoin` and `TaskManager` with proofs of safety, of wake-ups and of the
refinement, `TaskPartition` and `CompositionEvaluation` with proofs, `ProofOfWork` with
proofs, `HashChain` with proofs, `Transcript`, `FriQueries`,
`CompositionOracle` and `StarkProtocol` with proofs, `CommitmentScheme` with proofs,
`ExtractFromRlp`, `IntsSequenceList` and `RlpLibrary` with proofs, `FriLayers` with proofs, `LdeCache` and
`CommittedTraces` with proofs, `CpuTrace` with its pools and a proof for one of them.

Left, if the project is continued:

1. Proofs about `DilutedCheckCell` and `MemoryCell`, as for `RangeCheckCell`.
2. The remaining builtins in `TraceWriters`.
