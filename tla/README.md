# TLA+ models of the C7x offload runtime and of three TVM runtime components

The repository is a fork of Apache TVM that adds a compiler backend and a
runtime for the C7x DSP of TI's AM67A/J722S. This directory models the parts of
the runtime whose state is shared by several actors or survives many calls: the
DSP firmware and the Linux host library that talks to it, the CPU thread pool,
the paged KV cache of the relax virtual machine, and Disco, which runs one
program on many workers. The compiler, about a million lines of program
transformations, is out of scope.

Paths without a prefix are relative to `src/src/runtime/ti_dsp` for the C7x parts
and to `src/src/runtime` for the others.

## The systems and their modules

**C7x offload.** A host process opens an RPMessage endpoint to the DSP and three
shared buffers (staging, input, output) in a carveout. It sends one request at a
time and waits for the answer. On the DSP one task runs `c7x_compute_main`: it
initialises the platform, announces its endpoint and serves requests until Linux
asks it, by a mailbox interrupt, to stop. Requests load an ELF module
(`DYN_LOAD`), load weights (`MODEL_LOAD`), run the module's generated entry point
`cg_main_dsp` (`INFER`, `INFER_LARGE`) and unload both. Code, constants, tensors
and scratch arrays all come from one DDR pool.

**Thread pool.** A launching thread puts one task into the queue of each worker
and waits until all are counted down; workers spin, then sleep.

**Paged KV cache.** Sequences share blocks of pages; forks, pops, sliding windows
and token trees rearrange them, and page copies run on a stream of their own.

**Disco.** A controller broadcasts commands to workers, threads or processes,
which run them at their own pace; objects live in the workers' registers.

| Part | Source | Modules | State |
|---|---|---|---|
| Pool allocator | `platform/common/memory_pool.c` | `MemoryPoolOps`, `MemoryPool` | modelled, proved |
| DDR heap, watermark | `platform/c7x/c7x_platform.c` | `DspHeap` | partly, safety proved |
| Request handlers | `firmware/c7x/dsp/src/compute_service.c` | `ComputeService` | partly, safety proved |
| Loader slots, model table | `dyn_loader.c`, `tvm_model.c` (same directory) | `ComputeService` | partly |
| Constants' memory, register file | `constants/`, `vm/vm_builtins.cpp` | `ComputeService` | partly |
| Message loop, start, shutdown | `compute_service.c`, `main.c` | `ComputeChannel` | modelled, safety proved |
| Host calls | `firmware/c7x/arm/src/c7x_compute_client.cpp`, `rpmsg_wrapper.cpp` | `ComputeChannel`, `RemoteCall` | partly, proved |
| Host buffers, `c7x::Module` | `c7x_compute_client.cpp`, `c7x_runtime.cc` | `ClientBuffers` | partly, proved |
| CPU thread pool | `thread_pool.cc`, `threading_backend.cc` | `ThreadPool` | partly, safety proved |
| Paged KV cache | `vm/paged_kv_cache.cc`, `vm/attn_utils.h` | `PagedKVCache`, `KVSequences` | partly |
| Disco sessions | `disco/`, `support/pipe.h` | `Disco` | partly, safety proved |

`PROJECT.json` lists the parts left out with the reason for each, the source lines
of each definition, and the hazards the models were built around.

### The modules

**MemoryPoolOps** has the allocator as operators on a descriptor record: base,
bump pointer, free list (a sequence of header addresses), counters, and `hdr`,
what each unit of memory holds if read as a header. Memory is never cleared, so
a stale header can be found where user data is now. `PoolAlloc` is first fit over
the free list, then bump; `PoolFree` checks the magic word, pushes the block and
auto-resets the pool when frees equal allocations.

**MemoryPool** is one pool and its callers, who free only what they hold and
write only inside what they asked for.

**DspHeap** is the DDR pool as the firmware uses it: the sticky out-of-memory
flag, `tvm_dsp_reset_pools`, and the watermark saved after `DYN_LOAD` and
restored before each `INFER_LARGE`. Requests are one unit; `owner` records whose
data each unit holds, so that memory handed out twice shows as foreign data.
`AllocMany` stops at the first refusal where the callers try every allocation:
requests of one unit that follow a refused one are refused too and change nothing
(lemma `FailedAgain`).

**ComputeService** has one action per request: `DynLoad`, `DynUnload`,
`ModelLoad`, `ModelUnload`, `Infer`, `InferLarge`, each the whole handler with
the calls it makes into loader, model table, constants and register file, in the
code's order and with its failure exits. The service is single-threaded and the
client waits for each answer, so a request is one step. `client` says what the
client loads and sends; `Clients` are the ones considered. Weights that cannot be
read ("bad") leave no pools; weights whose second pass fails ("torn") leave the
pools allocated and no model. `Execute` is the `cg_main_dsp` that
`codegen_c_static_lib_wrapper.cc` emits: it refuses a wrong number of inputs before
anything else, installs and clears the register file, puts the inputs into its first
registers and calls a kernel, which here takes a temporary and a result and frees
the temporary if all goes well. `inputs` is what the input registers name: nothing,
the stack of `handle_infer`, or the array block `handle_infer_large` has taken from
the heap and freed. `TVMDSPRegFileCleanup` writes there too (`Touch`), and what it
finds there that is not an array is damaged.

**RemoteCall** is the abstract promise of the host library: calls are made one at
a time, and each returns the answer to that very call or an error.

**ComputeChannel** has the host's `send_and_recv`, both message queues, the steps
of `c7x_compute_main` from boot to `IDLE`, and the mailbox interrupt, which may
come between any two of those steps, those of the cleanup included. `up` says that
the service has started at all: a failed start goes to the cleanup by itself. A
message is its type and its sequence
number; `program` says which requests the host makes and whether a receive may
fail. `Call` instantiates RemoteCall with the refinement mapping
`calling <- waiting, number <- seq, result <- outcome`. RPMessage is taken to
deliver in order and to lose nothing.

**ClientBuffers** has the input and output buffer (size, and `gen`, which mapping
it is), the capacity lock, the pointers the host holds, and what each unit of
the input buffer contains. `Grown` gives every outcome of growing a buffer, the
heap's refusal after the old one was released included. An inference needs a loaded
module; an unload whose answer is lost or an error leaves the host's own state as it
was, whether or not the DSP has unloaded. The host has one module
loaded at a time and uses either the client functions or `c7x::Module` (`api`).

**ThreadPool** has the launching thread (`Configure`, `Launch` with its loop of
pushes, `WaitForJobs`, reset and destruction), the ring, counter, mutex and
condition variable of each worker's queue, one step per access to shared memory,
and the tasks with their barriers and errors. Spurious wake-ups are steps. An error
of the task the launching thread runs itself goes under the id of the last task
pushed, and, if none was, under an uninitialised one: any slot, or `Outside`.
`TVMBackendParallelLaunch` always asks for barriers, so every launch does.

**PagedKVCache** keeps the host side of the cache in one record `kv` (map of
sequences, block pool, free pages, queued copies) and the entries in `store`.
Every operation of `kv_state.h` that changes state is an action. An operation
that throws half way leaves `ok` FALSE, and nothing is called after that.
**KVSequences** is the promise: each sequence is a list of entries of its own, and of
an uncommitted tree a commit keeps one path. The code does not keep the promise for
every client, and `Liberties` names what a client may do beyond what it is kept for:
mix trees and chains in a batch, build a tree over several forwards, pop a tree, commit
other sequences than those of the latest forward, fork or pop a sequence with a window.
The actions have the code's behaviour for all of these; the guards `Takes` only say
which client is considered.

**Disco** keeps the commands in one `log`; a worker's queue is the part sent to
it and not received. A DRef is the index of the command that made it, and a
register holds that index in place of the object.

## The runs

Passing runs:

| Run | Shows | States |
|---|---|---|
| `pool_uniform` | With one alignment: disjoint blocks, headers in place, an empty pool is whole; also the invariant of the proofs | 881,621 |
| `service_clients` | One module at a time. A client with embedded weights and both kinds of inference, and one with separate weights, tables that fill up and plain `INFER`: code, constants, entry point, register file and model slots stay good | 75,986 |
| `channel_hosts` | A host with all request types, malformed ones too, whose receives do not fail, and one that pings and retries while the service is stopped: both implement `RemoteCall`, every call returns, a shutdown asked for before the test for one is acknowledged, in order | 1,196 |
| `buffers_hosts` | Hosts of both APIs that drop their pointers on unload: no pointer dangles, and tensors from `CreateInput` keep their contents | 13,100 |
| `thread_pool` | Launches with and without barriers, reconfigurations, failing tasks and kills: no task is lost or run twice, barriers separate, no wake-up is lost | 301,294 |
| `kv_cache` | Sequences that share, fork, pop, slide and commit trees: pages, reference counts and lengths are consistent, and the cache implements `KVSequences` | 157,812 |
| `disco_sessions` | Threads and processes that lag behind: operands, host arrays and replies are not mixed up, every operation and the destructor return | 237,526 |

Runs in which what the code does differs from what a comment or document says
(the `findings` of `PROJECT.json` quote the lines):

| Run | Property | What happens |
|---|---|---|
| `large_error` | `ModulesIntact` | An `INFER_LARGE` with the wrong number of inputs frees its arrays right after the watermark restore zeroed the counters; the pool resets to its base, under the module |
| `channel_late_reply` | `AnswersMatch` | After a timeout the next `INFER` takes the late answer |
| `thread_counters` | `CountersFit` | A launch of n + 1 tasks after one of n uses a barrier counter that was never allocated |
| `kv_mixed_trees` | `SequencesIndependent` | A batch of a tree and a chain, the chain last, is committed without moving the accepted entries of the tree |
| `disco_shutdown` | `WritesSucceed` | After an explicit `Shutdown` a destructor writes to the pipe of a process that has left |

Further configurations, which are not among the runs of `PROJECT.json`, show
differences of the same kind:

| Configuration | Property violated | What happens |
|---|---|---|
| `MCMemoryPool_mixed` | `HeaderPrecedesData` | A freed block reused at a stricter alignment has padding between header and data; freeing it is then ignored |
| `MCComputeService_two_modules` | `ModulesIntact` | Unloading one of two modules resets the pool under the other |
| `MCComputeService_stale_handle` | `RanAsked` | A stale handle runs the current module |
| `MCComputeService_input_registers` | `RegsOnHeap` | The input registers go on naming the stack of a handler that has returned, and a cleanup writes there; the comment on that cleanup speaks of "heap-allocated objects" (`compute_service.c:370`) |
| `MCComputeChannel_early_stop` | `ShutdownAcked` | A stop during start-up is overwritten by the end of init |
| `MCComputeChannel_late_stop` | `AnyStopAcked` | A stop that comes after the cleanup of a failed start has tested for one is not acknowledged |
| `MCThreadPool_failing` | `LaunchReports` | A failing task is counted down before its error is stored; the launch may return 0 |
| `MCThreadPool_stray_error` | `ErrorsInBounds` | A single task that the launching thread runs itself fails, and its error is stored under an uninitialised id |
| `MCPagedKVCache_window_fork` | `PinnedAsAsked` | A fork of a sequence with a sliding window changes how many entries are pinned |
| `MCPagedKVCache_window_pops` | `SequencesIndependent` | A pop from a sequence that has slid counts pages as if none had been dropped |
| `MCPagedKVCache_tree_rounds` | `SequencesIndependent` | A tree built by two forwards is committed as if it were the append of the second |
| `MCPagedKVCache_tree_pops` | `SequencesIndependent` | A tree that lost entries to a pop is committed at its full size |
| `MCPagedKVCache_any_commit` | `SequencesIndependent` | A commit of another list than the latest batch pops from the batch's sequences, by index |

`kv_state.h:152-153` says that a commit compacts the entries and discards those of
rejected tokens. `CommitAcceptedTokenTreeNodes` finds positions and lengths in the
arrays of the latest forward (`paged_kv_cache.cc:1558-1581`), so of a tree built by
several forwards it discards at most what the last one appended. A test builds such
trees (`test_runtime_builtin_paged_attention_kv_cache_cpu.py:924-945`, "Leaf nodes are
committed all at once at the end") and its reference does as the code does.

And some were met while modelling and have no configuration of their own:

- Constants: `DYN_UNLOAD` frees the constants of a model the client loaded with
  `MODEL_LOAD` and leaves its slot active, and the watermark restore of
  `INFER_LARGE` reclaims constants loaded after the module.
- A plain `INFER` drops the objects the previous one left in the register file
  without freeing them; `vm_builtins.h:223` says to free them after an inference.
- `MODEL_LOAD` stages its file over the ELF that is used in place; the staging
  map of `design-deep-dive.md:878-879` puts it behind the ELF.
- Pointers: one kept over an unload dangles after the next load (`PointersValid`
  is violated with `Keeps = TRUE`), and a plain input is copied over a
  `CreateInput` tensor (`CreatedKept` is violated with `Mixed = TRUE`).
- Capacity: a refused `reserve_io` leaves the buffer empty although the header
  says it never shrinks, and unloading leaves the capacity locked although
  `design-deep-dive.md:591-592` says it is reset.
- Thread pool: with one thread the result of the lambda is ignored, and with more the
  main thread's own failure is filed under the id of another task.
- Disco: a call with an unsupported argument throws after its register was
  allocated, and the register is lost (`CallUnsupported` has it).

### What the passing runs leave out because of these

`pool_uniform` has one alignment. `service_clients` keeps one module loaded and
sends no `INFER_LARGE` that fails after its header checks and before it allocates
("count" and "tensor" in `InputKinds`). Its pool is large enough for the arrays of
an `INFER_LARGE`, so the exit for want of memory there, which ends in the same
auto-reset, is not reached. The client with separate weights makes no
`INFER_LARGE`, and `ModelsIntact` speaks of clients without separate weights.
In `channel_hosts` receives fail only for the host that pings, the service is stopped
at the earliest when it has started or has failed to, and `ShutdownAcked` speaks of a
request that comes before the cleanup tests for one. `thread_pool` makes no launch for which `CountersFit`
fails, and its configurations leave at least one worker in use. The client of
`kv_cache` takes none of the `Liberties`.
In `disco_sessions` only sessions of threads are shut down explicitly.

### Bounds

- Pool: 28 units, headers of 2, requests of 1 and 5 units at alignment 4, base
  1 so that the first block needs padding, 4 allocations between resets. Four
  blocks do not fit, so exhaustion, first fit past a block that is too small,
  reuse and auto-reset all happen. The region starts as zeros or as stale headers.
- Service: 12 units with headers of 1 hold at most six blocks: a module (2), its
  constants (1), arrays (1) and two of work, so plain inferences run out of memory
  after a few have left their results behind. Tables of one slot, and a client that
  tries a second load, so that full tables are reached. `allocs` bounds the
  pool's counter, which only a reset lowers.
- Channel: five calls, queues of two. A late answer needs two calls; five
  let answers queue up behind timeouts until a send is refused.
- Buffers: a carveout of 8 units, modules that declare less than, as much as and
  more than it has, at most 3 inputs, one inline input, so that both forms of the
  request occur, and 3 allocations of each buffer.
- Thread pool: two workers, rings of two slots, two launches with at most one
  barrier, one reconfiguration, reset or destruction. The second launch meets
  what the first one left in queues and counters.
- KV cache: two sequences, three pages of two entries, appends of up to three,
  a window of three with a sink of one, two trees, one copy in flight, batches of one
  sequence (`kv_mixed_trees` has batches of two). That is
  enough for a split, a shared pop, a slide over a page and a full cache. The view
  identifies states that differ only in the names of blocks and pages.
- Disco: two workers, one of which is a process behind a pipe that holds one
  command; sessions of up to five commands, each of which uses a part of the API.
  Registers are reused in a session of five commands whose workers keep up; in the
  others workers lag by up to two commands, and sessions have three or, for copies
  alone, four, so that a register can be reused while a worker is two behind.

`CHECK_DEADLOCK FALSE` is set where the models really stop: the firmware ends in
`IDLE`, a session and a pool are destroyed, and the bounds end a client's activity.

### Fairness

`ComputeChannel` assumes weak fairness of the firmware task (one task, always
scheduled, and `RPMessage_recv` has a 30 s timeout), of `Receive` (data in the
queue ends the host's `select`), and of `ReceiveFails` (the host's `select` has a
timeout). Sending and the shutdown are not fair: nothing makes the host call or
Linux stop the core. `ThreadPool` assumes weak fairness of every thread, which the
operating system schedules, and strong fairness of the two steps that take a
mutex the other side keeps taking and releasing. Requests and spurious wake-ups
are not fair. `Disco` assumes weak fairness of the controller inside an operation
and of each worker; the client's calls are not fair.

## The proofs

Each theorem holds for every value of the constants that satisfies the named
`ASSUME`s.

- `MemoryPoolProofs`: `PoolInvariant`, `PoolLiveDisjoint`, `PoolEmptyMeansWhole`,
  `PoolTypes` and `PoolHeaderPrecedesData`, all for callers that use one alignment
  (`OneAlignment`). Disjointness is not inductive: whether a free block may be
  handed out depends on where its header is and what size it holds. `BlocksTile`
  says that held and free blocks tile `[base, bump)` without overlap, that every
  header is right before its data and aligned, that no block is both held and free
  or on the list twice, and that the two counters differ by the number of blocks
  held, which is what makes the auto-reset safe. There is one lemma per outcome of
  alloc and free.
- `ComputeChannelProofs`: `ChannelInvariant`, `ChannelImplementsCall`,
  `ChannelAnswersMatch`, `ChannelOneInFlight`, `ChannelAckInOrder`, `ChannelTypes`.
  When no receive fails, the invariant `OwnMessage` names the one message in
  flight: it carries the sequence number of the request the host waits for. That is
  why the calls that compare no sequence number are right then. When all calls are
  pings the comparison itself suffices and the queues may hold anything. The
  refinement maps every step to a step of `RemoteCall` or to a stutter. The order of
  the shutdown has an invariant of its own, `TaskOrder`: outside its loop the service
  does not run, and it has acknowledged exactly when it is past the cleanup and was
  asked to stop.
- `ClientBuffersProofs`: `BuffersTypes`; `BuffersPointersValid`, for a host that
  drops its pointers when it unloads (`~Keeps`); `BuffersCreatedKept`, for a host
  that passes no plain inputs once it has tensors from `CreateInput` (`~Mixed`).
  `PointersValid` becomes inductive with `HeldMeansLocked` (pointers are held only
  while a module is loaded and the capacity is locked) and the types of the sizes;
  that both buffers fit the heap needs that the old one is released first;
  `CreatedKept` needs that only `c7x::Module` places tensors (`Kept`).
- `ThreadPoolProofs`: `PoolTypes`, `PoolQueueNotEmpty`, and `PoolLaunchComplete` and
  `PoolBarrierSeparates`, the last two for configurations that leave a worker in
  use (`MinUsed = 1`). The queue invariant balances, for each worker, the tasks in
  the ring against `pending_`, a push that is not counted yet and a claim that has
  not taken its task. The launch invariant says which tasks are pushed, run or
  counted down, and that `num_pending_` numbers the unfinished ones, so that it
  reaches 0 only when all have run. The barrier invariant ties each counter to the
  barriers its task has passed. The types need that nobody pushes to or claims from
  the queue of worker 0 while the launching thread runs its task itself (`OwnQueue`).
- `DiscoProofs`: `DiscoInvariant` and from it `DiscoOperandsMatch`,
  `DiscoHostArraysMatch`, `DiscoRepliesMatch`, `DiscoPeekExclusive` and
  `DiscoTypes`. The invariant says what a worker's registers hold as a function of
  the commands it has executed, and that no command between a DRef's and its kill
  names the same register, which is what makes reuse safe however far a worker lags.
- `ServiceTheorems`, on `ComputeServiceProofs` and `DspHeapProofs`:
  `ServiceInvariant` and from it `ServiceTypes`, `ModulesStayIntact`,
  `ModelsStayIntact`, `ConstantsStayIntact`, `EntryStaysLive`, `RegsStayLive` and
  `NoSlotLeaks`, for every size of heap, header, tables, modules, constants and
  arrays. See below.

### The proof of the compute service

The pool resets itself when frees equal allocations, and the watermark restore moves
the bump pointer back; neither looks at who still holds a block. That nothing in use
is lost rests on counting, which is what the invariant is about:

- `DspHeapProofs` has the heap's side. A heap is described by three values the code
  does not have (`HeapOK`): the blocks `A` that are allocated, those among them, `C`,
  that the counters count, since a watermark restore clears the counters and not the
  blocks, and a floor below which nothing is handed out. Each of `DspAlloc`,
  `DspFree`, `AllocMany`, `FreeAll`, `OomReset`, `ResetPools` and `RestoreWatermark`
  has a lemma that says what it makes of the three. What the recursive functions of
  `AllocMany` and `FreeAll` compute is proved by induction on the number of blocks.
- `ComputeServiceProofs` states `ServiceInv` and has a lemma for each handler except
  `DYN_LOAD`. `ServiceInv` says that at most one module is loaded and that entry
  point, register file and embedded model are that module's (`OneModule`,
  `ModelTable`), and that for some `A` and `C` the blocks of module and constants are
  in `A`, those of the register file in `C`, pairwise disjoint and with the right
  owner (`Held`), and that where the input registers name the heap there is nothing but
  a former array (`InputsHeld`): every request that takes memory from the heap after an
  `INFER_LARGE` cleans the register file first or sets it anew. For a client that sends no `INFER_LARGE`, `C` is `A`: a reset by
  equal counters then finds no block in use. For one that does, module and constants
  lie below the watermark, which is the floor, and the register file above it.
- `ServiceTheorems` has `DYN_LOAD`, the step over `Next`, and the theorems.

Facts about cardinalities and induction on the naturals come from the library's
`FiniteSetTheorems` and `WellFoundedInduction`. The lemmas of the first two modules
take those they need as one hypothesis, `CountLaws`; lemma `Laws` of
`ServiceTheorems` proves it from the library, so no theorem depends on it. This only
keeps the library out of the context of two long modules, where it would slow every
step of their proofs.

The theorems are about `CarefulClients`: one module at a time, and `INFER_LARGE` sent
only by a client of embedded weights that does not keep stale handles, whose modules
all have an entry point, with requests that the header checks reject or that reach
the kernel, in a heap with room for module, arrays and a block of workspace. The
clients of `service_clients` are careful ones. The condition is not there for
convenience: `large_error` and `MCComputeService_two_modules` are clients that break
it and violate `ModulesIntact`. Clients of plain `INFER` need only the first part,
and may run out of memory anywhere.

### Only model-checked

- All of `PagedKVCache`: `TypeOK`, `PagesOwnedOnce`, `RefsCounted`, `LengthsAddUp`
  and the refinement `SequencesIndependent`. Its operations are folds of
  `SequencesExt`, with operators as arguments, over batches, chains of blocks and
  trees. The prover's library has no facts about these folds, and the provers cannot
  instantiate an induction theorem with such an operator.
- Liveness (`CallReturns`, `ShutdownAcked`, the fairness part of `CallSpec`,
  `LaunchReturns`, `KillReturns`, `OperationReturns`, `DestroyReturns`), which is
  beyond the prover.

## Not modelled

C7x: the L2 pool, cache maintenance, the contents of the staging buffer, the
KV-cache copies of `INFER_LARGE`, the layout of outputs, reference counts of
objects, what a write to the stack of a handler that has returned hits there, the parser of the weights stream, cycle counts and statistics, printf, the
opening of the endpoint device, and a second client, which the guide names as a
known limitation (`docs-c7x/contributor-guide/firmware/architecture.md`). ELF
parsing and relocation, kernels and TIDL are numerical or third-party code.

Thread pool: core affinity, the OpenMP path, several launching threads. KV cache:
attention numerics and plans, disaggregated transfer, uploads of auxiliary data, what
is called after an operation that threw, and a commit that names a sequence twice or
more sequences than the latest forward had.
Disco: the wake-up of a thread's queue, short writes to a pipe, workers that crash,
several client threads, socket sessions and collective libraries.
