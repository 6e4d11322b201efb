# TLA+ models of the multi-core engine

This directory holds TLA+ models of the concurrent parts of the repository under `src/`. It also holds the TLC configurations that check them. `PROJECT.json` lists every component, run, mutant, hazard and finding, and maps every definition to the source lines it models.

## The system and its parts

`spec.md` describes a fleet of logical cores with five parts:

- **Lock-free primitives** (`src/src/sync/`):
  - `LockFreeQueue`, a Michael–Scott queue with a dummy head.
  - `LockFreeStack`, a Treiber stack.
  - `LockFreeHashMap`, buckets backed by the queue.
  - `HierarchicalLock`.
  - `RCUGuard`.
- **Per-core workers** (`MultiCoreEngine`, `MultiCoreBlockchain`): one thread and queue per core, with pause, resume and stop.
- **`core::LoadBalancer`** (`src/src/core/LoadBalancer.cpp`):
  - a metrics table behind `metrics_mutex_`;
  - task tables behind `task_mutex_`;
  - a detached monitor thread that refreshes metrics once a second and triggers failure handling, resource adjustment and rebalancing.
- **Failure recovery**: `handle_core_failure` and `redistribute_tasks`, present in the balancer and in each engine.
- **Managers**: `NetworkManager`, `StorageManager`, `ParentCore`, the server-pool `loadbalancer::LoadBalancer`, and `ComputeManager`. The first four each have a table behind a mutex and a monitor thread. `ComputeManager` has a worker pool, the SIMD kernels and the batching helpers `parallelFor` and `parallelReduce`.
- **`storage::StorageManager`** (`src/src/storage/storage_manager.cpp`): a singleton table of named key/value storages behind `storages_mutex_`, with backup and snapshot name lists, and a monitoring thread held in a `std::thread` member.
- **C drivers** (`src/src/core/drivers/`): array kernels (`memory_ops.c`, `math_ops.c`, `compute_ops.c`) in an AVX2, a NEON and a plain build, plus atomics, threads and buffers.

The rest of the repository is external collaborators that the spec excludes (section 1): crypto, JIT, enclave, packet I/O and the drivers' numeric code. `cloud::DistributedLedger` (`src/src/ledger/distributed_ledger.cpp`) is one such collaborator. It owns a consensus engine, a crypto engine, a network stack and a transaction processor. Its network handlers change a chain, a state and a pool of transactions. The model covers its own control flow; the collaborators it calls are left abstract.

How the parts interact:
1. A caller submits a task to the balancer.
2. The balancer chooses the least-loaded healthy core and hands the task to an engine.
3. The engine's worker for that core runs it.
4. The balancer's monitor feeds engine metrics back into the table, and on overload or failure moves tasks between cores.

## Inventory

| Part | State | Operations | Hard behaviour |
|---|---|---|---|
| LockFreeQueue | `head_`, `tail_`, nodes with `next`/`data` | enqueue, dequeue | CAS races; lagging tail; `delete` while others hold the pointer; address reuse (ABA) |
| LockFreeStack | `head_`, nodes with `next`/`data` | push, pop | CAS races; `old_head->next` read after another pop deleted `old_head`; address reuse (ABA) |
| HierarchicalLock | `lock_`, thread-local level | lock(level), unlock | level reset on unlock; spin without fairness |
| RCUGuard | thread-local `version_` | ctor, synchronize | wait for a version nobody advances |
| core::LoadBalancer | `core_metrics_`, `tasks_`, `task_status_`, `running_`, `paused_` | submit/cancel task, update metrics, mark unhealthy, adjust, rebalance, optimize, pause, resume, stop, monitor tick | nested mutexes (relock, ABBA); id generation; map-order tie-break; stop vs detached monitor |
| MultiCoreEngine | per-core queue, `running`, `paused`, mutex/cv | start, stop, pause, resume, worker loop, failure handling, redistribution | pause vs drain; empty() test then pop() vs a redistributing worker; tasks left at stop; tasks lost in redistribution; relock of `blockchain_mutex_` |
| MultiCoreBlockchain | `running_`, per-core queues of transactions and blocks, `running`, worker thread, mutex/cv; `state_mutex_`, `block_metrics_` | start, stop, worker loop, sync, failure handling, redistribution | start vs stop on other threads; move-assign over a joinable thread; empty() test then pop(); a thrown item already popped; draining a queue its worker still pops |
| ComputeManager | `threadPool_` (threads, stop, mutex/cv), `threadCount_`, `batchSize_`, `initialized_` | initialize, shutdown, setThreadCount, setBatchSize, worker loop; add/multiply/sum/dotProduct, parallelFor/Reduce | stop vs predicate test; join before reset; unlocked setThreadCount; SIMD stride vs lanes; batch rounding |
| storage::StorageManager | `storages_` (data, stats, backups, snapshots), `monitoring_active_`, `monitoring_thread_` | create/delete/update storage, write/read/delete data, replication, encryption, compression, backups, snapshots, start/stop monitoring, monitoring loop | move-assign over a joinable thread; a start between a stop's store and its joinable() test; `used_size` after a move |
| C driver kernels | none (pure functions of their arguments) | memcpy/memset/memzero, vector sqrt/rsqrt, vector and matrix arithmetic, matrix inverse and determinant, quaternions, Bezier curves, ray queries against triangles, boxes and spheres, B-spline point and derivative, fractal noise, fast integer division, 4x4 multiply and transpose, pointer alignment; difficulty test, Merkle tree and proof, block and chain verification, fork search; key pair, sign and verify; block and transaction create, add, destroy; mining; `core_fast_memcpy`; socket non-blocking flag | SIMD loops with and without a scalar tail; pivoting and sign flips; row/column order; shifts and masks on negative numbers; odd Merkle levels; -1/0/1 results tested with `!`; an uninitialised root; every OpenSSL failure path; unpadded big numbers; a 33-byte point in a 32-byte buffer; infinities and a -1 miss marker; a degree-2 spline leaving its hull; 0 octaves |
| memory::MemoryManager | `pools_`, `blockMap_`, `stats_`, `mutex_` | allocate, deallocate, reallocate, zero, copy, move | 16-byte loops with no tail; pools that never receive a block |
| loadbalancer::LoadBalancer (server pool) | `servers_` (config, stats), `current_server_index_`, `health_checks_running_` | add/remove server, update weight, get_next_server (four algorithms), report response, health loop, start/stop health checks, destructor | weight 0 and wrap of the total; `unordered_map` order in ties; config weight never copied; detached thread outliving the object |
| C driver buffers | `data`, `capacity`, `size`, `position`, `is_owner` | create, resize, clear, write, read, peek, skip, seek, rewind, copy, clone, align | capacity doubling from 0; failure leaves the buffer intact; `destroy` before the write through `dest` |
| C driver atomics | a 64-bit word and a byte flag, per-thread exclusive reservations | add, sub, cas, xchg, store, load, test_and_set, clear | ldaxr/stlxr retry loops; the return value of add/sub; the non-atomic fallback |
| cloud::DistributedLedger | `m_consensus`, `m_crypto`, `m_network`, `m_tx_processor`; `m_chain`, `m_state`, `m_tx_pool` | constructor, destructor, handle block and transaction messages, add_block, update_state, remove processed transactions | a throw at any step of construction or shutdown; a block applied in part; a late transaction message |
| Network/StorageManager (core) | connection/file tables | connect/open, disconnect/close, monitor | relock in monitor and disconnect; `size()+1` ids; `% cores_.size()` |

## Modules

### `FifoQueue`

The abstract specification of a queue:
- `q` holds the items in the queue.
- `out` holds the dequeued items in order.

### `MSQueue`

Models `LockFreeQueue<T>::enqueue` and `dequeue` (lockfree_structures.cpp, lines 12–66).

**Threads.** Every producer and consumer thread has a `pc`. Each action is one atomic load or CAS of the code:
- enqueue: `EnqAlloc`, `EnqLoadTail`, `EnqLoadNext`, `EnqCheck`, `EnqLink`, `EnqAdvance`, `EnqSwing`;
- dequeue: `DeqLoadHead`, `DeqLoadTail`, `DeqLoadNext`, `DeqCheck`, `DeqSwing`, `DeqRead`, `DeqCas`.

**Pointers.** A pointer is a record `[node, gen]`. `gen` counts how often the node has been deleted. This lets the model tell a live node from a deleted one, and a recycled node from the one the pointer was loaded from.

**Allocation.** `new Node` takes a node from `free`. `delete` puts the node back and bumps its generation.

What the allocator may return after a delete is up to the allocator. The constant `ReuseFreed` picks between two choices:
- fresh addresses only;
- any freed address.

Every ABA on a recycled address starts with a thread dereferencing a pointer whose node was deleted after it was loaded, so `NoUseAfterFree` fails first. The runs keep `ReuseFreed = FALSE`, where that use-after-free is still reached.

A deleted node keeps its contents. Reading it is undefined behaviour, and a stale value is one outcome the build can produce.

**Checks.**
- `LinearizableFifo`: `INSTANCE FifoQueue WITH q <- Contents`. `Contents` walks the list from `head_` with a recursive, fuelled operator.
- `NoUseAfterFree`: no pointer that a thread is about to dereference names a node deleted since it was loaded.
- `AllItemsDequeued`: liveness under weak fairness per thread. Each thread is an OS thread that the scheduler keeps running.

The consumers loop forever. An empty `dequeue` throws, and the caller retries.

### `LifoStack` and `TreiberStack`

`LifoStack` is the abstract stack: `st` holds the items, top first, and `out` the popped items in order.

`TreiberStack` models `LockFreeStack<T>::push` and `pop` (lockfree_structures.cpp, lines 68–95). It uses the pointer and allocation model of `MSQueue` (`Ptr`, `Live`, `gen`, `free`, `ReuseFreed`).
- push: `PushAlloc` is `new Node{value, head_.load()}`. `PushCas` is one attempt of the CAS loop; a failed attempt stores the current `head_` into `new_node->next`, as `compare_exchange_weak` does.
- pop: `PopLoad` loads `old_head`, `PopTest` is the loop test (`nullptr` returns false and the popper calls again), `PopNext` reads `old_head->next` (the CAS's argument, read before the CAS), and `PopCas` is the CAS. On success it reads `old_head->data`, deletes the node and returns; on failure `old_head` becomes the current `head_`.
- The constructor is in a header that is not in the repository; `Init` takes an empty `head_`, as the spec says.

**Checks.**
- `LinearizableLifo`: `INSTANCE LifoStack WITH st <- Contents`, where `Contents` walks the list from `head_`.
- `AllItemsPopped`: every pushed item is eventually popped, under weak fairness per thread.
- `NoUseAfterFree`: `PopNext` reads only a node that is live and not recycled since it was loaded.

`stack_lifo` checks the first two with an allocator that never recycles. Two cfgs are kept beside it:
- `TreiberStack_aba.cfg` lets `new` return a deleted address. TLC finds `LinearizableLifo` violated. One popper loads `old_head` (node of 2) and reads its `next` (node of 1). The other pops 2 and 1, and the pusher pushes 3 into the recycled node of 2. The first popper's CAS then succeeds, returns 3 and installs the deleted node of 1 as `head_`.
- `TreiberStack_uaf.cfg` finds `NoUseAfterFree` violated even without reuse: a popper reads `old_head->next` after the other popper deleted `old_head`.

### `LoadBalancer`

Models `core::LoadBalancer` with client threads and the monitor thread.

**Locks.** `owner` holds the two mutexes. A step is one critical section, or the stretch of a call between two lock acquisitions:
- `SubmitTask` takes `task_mutex_`. `SubFind` then runs `find_least_loaded_core` under `metrics_mutex_` and stores the task.
- `RebLock`, `RebNext` and `RedistLock` cover `rebalance_load` → `redistribute_tasks`.
- `MonWait`, `MonUpdate` and `MonLock` cover one monitor tick. `MonWait` is the `state_cv_.wait` for `!paused_ || !running_`: with the balancer paused and running, the monitor goes to sleep (`mon_sleep`). Only `Resume`, which clears `paused_` and notifies, wakes it. `Stop` clears `running_` with no notify, so a sleeping monitor stays asleep.

A thread whose next step needs a mutex that is held has no enabled step. This includes a mutex the thread holds itself: `std::mutex` is not recursive, and glibc blocks the relocking thread for ever. Such a thread sits at pcs like `mark_relock`, `redist_find` or `mon_relock`.

**What is left out.**
- Calls into the engines: they change no balancer state.
- `state_mutex_`: it is never held across a step.
- `get_task_status`: a read.

**Checks.**
- `NoDeadlock`: the wait-for relation (thread → holder of the mutex it needs) has no cycle. It is computed with `Relation!TransitiveClosure`. The run `lb_abba` breaks it with two clients. The monitor's own relock of `metrics_mutex_` on its first tick is a one-thread cycle; `lb_tables` reaches it (`mon_relock`), but no run is spent on it, since any test that starts the balancer shows it. `LoadBalancer_monitor.cfg`, kept beside the runs, checks it with the monitor alone.
- `SelectionIsLeastLoaded`: `find_least_loaded_core` on every reachable table picks a least-loaded healthy core (see `CoreSelection`). `lb_tables` runs it with two cores, so the choice is between tables the monitor, `update_core_metrics`, `mark_core_unhealthy` and `adjust_resources` wrote.
- `StopJoinsMonitor`: the comment in `stop()`. It is stated but has no run: one `stop()` call in any test returns before the monitor does.

### `CoreSelection`

Models `find_least_loaded_core` as a fold (`FoldLeft`) over the table in unordered_map iteration order. It is checked against `SpecSelect`, the rule of spec §4.4.

The standard leaves the iteration order unspecified, so every permutation of the keys is enumerated. The table changes through `update_core_metrics`.

Usage is in percent and scores are `4*cpu + 3*mem + 3*net`. For the levels {0, 90}, integer ties coincide with ties of the code's double arithmetic.

`LoadBalancer` instantiates it as `CS`. `SelectionIsLeastLoaded` evaluates `CS!FindLeastLoadedCore` in every iteration order on the `core_metrics_` table of each reachable state of the balancer: the choice is a healthy core of least score, or none when no core is healthy. The run `lb_tables` checks it.

### `MultiCoreEngine`

Models `MultiCoreEngine` (MultiCoreEngine.cpp): one worker thread per core and a client thread that calls `submit_task`, `pause`, `resume` and `stop`.

**Workers.** `wpc[i]` is the worker's place in `worker_thread`:
- `WCheck` is the loop test plus the `cv.wait` predicate, taken under `core.mutex`.
- `WBlock` is `cv.wait` going to sleep. The test and the sleep are separate steps because a notifier that does not hold `core.mutex` can run between them; a `notify_all` wakes only workers already at `wait` (`Woken`). No spurious wakeups are assumed.
- `WAfter` is the `running`/`paused` tests after the wait. `WDrain` is the inner loop's `task_queue.empty()` test, `WPop` its `pop()`, and `WExec` runs the task. The test and the pop are two calls, so another thread can empty the queue between them. A pop of an empty queue returns no task (spec §4.1), and `task->execute()` then dereferences it: the worker goes to `fault`.
- `WOptimize` is `optimize_core_performance`: the integrity checks pass, or one fails and `handle_core_failure`'s recovery succeeds or throws. A throw starts `redistribute_tasks`: `WRedistCollect` drains one stopped core's queue per step into the worker's local vector `buf`, and `WResubmit` hands each collected task to `find_least_loaded_core` (`LeastLoadedCore`), dropping it when that returns -1.

**Clients.** `Pause` and `Resume` set every core's flag under `system_mutex_`; `Resume` notifies. `StopBegin`, `StopClear` and `StopJoin` are `stop()`'s exchange, its per-core clear-and-notify, and its join.

`TxBegin` and `TxLock` are `process_blockchain_transaction` (lines 322-346): the client takes `blockchain_mutex_` (`bcHolder`). An invalid transaction throws and the lock guard unlocks it. A valid one reaches `process_transaction`, which takes `blockchain_mutex_` again on the same thread. The mutex is a plain `std::mutex`, so that thread blocks on its own lock forever. The model ends such a client at `tx_relock`, a place that has no action.

`submit_task(core_id, task)` is declared in the header but defined nowhere; `SubmitTask` models spec §4.3 (push onto the core's queue, notify its cv) and is marked spec-modelled. Tasks are model values; each is submitted at most once, so copies of a task can be counted.

**Checks.**
- `NoEmptyPop`: a worker about to pop still sees a non-empty queue. The run `eng_drain` finds it violated. Core 1 fails and runs `redistribute_tasks`, which drains core 0's queue between core 0's `empty()` test and its `pop()`.
- `PauseStopsNewTasks` (action property): no worker pops a task while its core is paused.
- `NoLostWakeup`: a worker asleep on `core.cv` never has a true wait predicate. When it fails, the worker sleeps with work queued (after `resume()`) or `stop()` blocks in `join()` (after `stop()`).
- `BlockchainMutexReleased` (liveness): a client that holds `blockchain_mutex_` eventually releases it. It is checked beside the run in `MultiCoreEngine_tx.cfg` (one client, calls `tx` only). TLC finds it violated at the self-relock, because a valid transaction never returns. The run slots are all used, so this result is recorded here and in the hazard at MultiCoreEngine.cpp:345.
- `StopAccountsForTasks`: when `stop()` returns every submitted task has run. It fails both for tasks left in a queue and for tasks a redistribution drained and dropped at line 247. It is stated but has no run: `stop()` after queuing tasks on a paused core shows it in any test.

### `MultiCoreBlockchain`

Models `core::blockchain::MultiCoreBlockchain` (MultiCoreBlockchain.cpp): `start()` and `stop()`, one worker thread per core, and the failure path `handle_core_failure` → `redistribute_work`.

**Workers.** `wpc[i]` is the worker's place in `worker_thread`:
- `WCheck` and `WBlock` are the loop test with the `cv.wait` predicate, and the sleep, as in `MultiCoreEngine`. `core.paused` is never set (`pause()` and `resume()` are declared but not defined) and is left out.
- `WTxs`/`WTxPop`/`WTxProc` drain the transaction queue; `WBlocks`/`WBlkPop`/`WBlkProc` drain the block queue. As in `MultiCoreEngine`, the `empty()` test and the `pop()` are separate steps, and a pop of an emptied queue leads to `fault`; `WBlkMetrics` writes `block_metrics_`; `WSync` is `sync_core_state` under `state_mutex_` (`stateHolder`).
- Validation, processing, commit and the integrity check are external calls and are nondeterministic. A throw runs `handle_core_failure` (`WFail`, bounded by `MaxFailures`). A failed recovery runs `redistribute_work`: `WRedistCollect` drains the queues of one core whose `running` flag is false per step, and `WResubmit` pushes each item onto `find_least_loaded_core`'s queue (`LeastLoadedCore`), or drops it when that is -1. `Return` goes back to the caller and releases `state_mutex_` when the caller was `sync_core_state`.

**Clients.** `StartBegin`/`StartCore` are `start()`'s exchange and its per-core `running = true; worker = std::thread(...)`. The move assignment over a still-joinable `worker` calls `std::terminate`, which the model records in `failed`. `StopBegin`, `StopClear` and `StopJoin` are `stop()`'s exchange, clear-and-notify and join. Nothing in the repository defines a way to queue work, so `Submit` follows spec §4.3 and is marked spec-modelled.

**Checks.**
- `NoTerminate`: `start()` never move-assigns over a joinable thread. The run `bc_race` finds it violated with two clients calling start and stop (7 states). c1 starts both cores. c1's `stop()` exchanges `running_` to false. c2's `start()` then exchanges it back to true and assigns a new thread to core 0, whose worker c1 has not joined yet.
- `NoEmptyPop`: no worker pops an emptied queue, as in `MultiCoreEngine`.
- Two cfgs are kept beside the runs, and TLC finds each property violated:
  - `MultiCoreBlockchain.cfg`: `NoEmptyPop`, with one client, two cores and one failure. `redistribute_work` on the failed core drains a queue between another worker's test and its pop.
  - `MultiCoreBlockchain_lost.cfg`: `NothingLost`, nothing submitted is silently lost. A transaction whose processing throws has already been popped, so `handle_core_failure` cannot find it.

### `ComputeManager`

Models `compute::ComputeManager` (compute_manager.cpp and the templates in compute_manager.h).

**Pool.** The singleton's constructor runs `initialize()`, so `Init` already has pool 1 with `hardware_concurrency()` workers. Each pool is a generation `g`, and its workers are `<<g, k>>`.
- `Initialize`, `Shutdown`, `SetThreadCount` and `SetBatchSize` are the API calls, with their early returns.
- `cleanupThreadPool` takes four steps: `CSetStop` (under the pool mutex), `CNotify`, `CJoin` (one per thread, blocking until that worker returned) and `CReset`. `CReset` then continues into `initializeThreadPool` (`InitPool`) or clears `initialized_`.
- A worker tests its wait predicate under the mutex (`WCheck`). It then returns, or keeps the mutex until `cv.wait` releases it and sleeps (`WSleep`).
- Nothing in the repository pushes a task, so the queue is always empty.
- One API thread is modelled.

**Kernels.** A call is abstracted to the number of times it touches each element index. `add` and `multiply` must write each of `dst[0..count)` and nothing beyond. `sum` and `dotProduct` must add each element exactly once.
- `Dispatch` is the header's choice between a plain loop and the SIMD kernel at `SIMD_WIDTH`.
- `VectorLoop` and `TailStart` are a kernel's vector loop and scalar tail.
- Each kernel's intrinsics are abstracted to a (stride, lanes) pair: `X86Add` … `ArmDot`, plus `NoSimd`.
- The build (op, arch, type) is chosen in `Init` and never changes.
- `Batches`, `ParallelFor` and `ParallelReduce` are the batching of `parallelFor` and `parallelReduce`. Each batch of `parallelReduce` starts from its own `T result = T()`, and the caller folds the batch results into `init`, so the result is `init`, one `T()` per batch and every element: the fold the spec describes only when `T()` is an identity of `func` (a sum, not a product). `BatchesCoverOnce` counts all three.
- `KernelOk` and `BatchOk` are constant tables, so TLC evaluates them once.
- The SIMD templates are defined in the .cpp and never instantiated in the tree. The model describes what an instantiation would do.

**Checks.**
- `JoinedBeforeReset`: a pool is reset only after every one of its workers has returned and been joined.
- `CleanupCompletes`: every `cleanupThreadPool` returns.
- `KernelsCorrect`: the build's kernel touches exactly the right elements for every count.
- `BatchesCoverOnce`: under the current batch size, each element is processed once and `init` is folded once.

`subtract` and `divide` dispatch to plain loops. `matrixMultiply` and `convolution` are plain loop nests (`Nest` of module `DriverKernels`). `convolution` loops to `srcSize - kernelSize + 1`, computed in `size_t`. When the kernel is longer than the source this wraps, and `ConvSteps` stands for the wrapped bound by a count past every array. The `DriverOps` builds of module `DriverKernels` are checked by the same `KernelsCorrect`.

The x86_64 integral `simdAdd` steps by 16 over 8-lane vectors, so `add<int>` leaves `dst[8..15]`, `dst[24..31]` and so on unwritten. `cm_pool` leaves that build out of `Checked`. `ComputeManager_computesimd.cfg` checks `KernelsCorrect` on it together with the other SIMD builds, and TLC finds it violated in the initial state (each of those builds alone also violates it). It is not among the runs, because the template is never instantiated in the tree.

More cfgs are kept beside `ComputeManager.cfg`, each violating `KernelsCorrect` in the initial state:
- `ComputeManager_convolution.cfg`: `convolution` with `srcSize` 1 and `kernelSize` 2 reads `src[1]` and writes far past `dst`.
- `ComputeManager_computesimd.cfg`: the SIMD builds. These are the AVX2 and NEON builds of `compute_ops.c` and of `core_matrix_multiply_4x4`, the x86_64 and aarch64 builds of `MemoryManager::zero` and `copy` (17 bytes write 32), and the integral `simdAdd` above. TLC reports the first build it meets; each fails alone as well.
- `ComputeManager_computeops.cfg` and `ComputeManager_fastdiv.cfg`: see `ComputeAlgebra` and `DriverArith` below.
- `ComputeManager_blockchain.cfg`: see `BlockchainOps` below.
- `ComputeManager_buffer.cfg`: see `BufferOps` and `DriverKernels` below.
- `ComputeManager_serverpool.cfg`: see `ServerPool` below.

### `DriverKernels`

The first part of `DriverKernels` holds the element-access abstraction shared by the kernels of `ComputeManager` and of the C drivers. A call is a function from element index to the number of times the call touched that element. The indices run to `MaxCount + Pad`, so a touch past the end by a vector of up to 32 lanes is seen.
- `VectorLoop` and `TailStart` give a loop `i + stride <= n` followed by a scalar tail.
- `StridedLoop` gives a loop `i < n; i += stride` with no tail.
- `Nest` gives a two-level loop touching `i*di + j*dj`.

`DriverKernels` gives each driver kernel its geometry for the three builds (`#if __AVX2__`, `#elif __ARM_NEON`, `#else`). It checks each against its reference in `DriverOk`.
- The `memory_ops.c` and `math_ops.c` kernels have a scalar tail, and every build is correct.
- Every vector loop of `compute_ops.c` steps `i < size` by 8 (AVX2) or 4 (NEON) with no tail. So those builds store past the end of `result` for any size that is not a multiple of the width.
- `MemoryManager::zero` and `copy` (`MMZero`, `MMCopy`, in `src/src/memory`) store 16 bytes at every `i < size` from 16 bytes up in the x86_64 and aarch64 builds, also with no tail, and use `memset`/`memcpy` below 16 and in other builds. `move` is `memmove` (`MMMove`).
- `cm_pool` checks the fallback build of every driver op, and all builds of the tailed ones and of `move`.
- The sin/cos SIMD paths of `math_ops.c` do not compile as written and are left out. Their fallback loops (`VectorSin`, `VectorCos`) are checked. `core_fast_sin` and `core_fast_cos` look up tables (`sin_table.h`, `cos_table.h`) that are not in the repository, and are not modelled.
- `core_fast_memcpy` (`fast_memcpy.c`, `FastMemcpy`) must copy each byte once and return `dest`. The aarch64 and fallback builds, byte loops, do both (`cm_pool`). The x86_64 build is `rep movsb` with `"=D"(dest)` among its outputs. That stores the advanced `rdi` back into `dest`, so it returns `dest + n`. `ComputeManager_computesimd.cfg` finds it.
- `core_socket_set_nonblocking` and `core_socket_is_nonblocking` (`network_ops.c`, POSIX build) are operators on a socket's file status flags, and every `fcntl` may fail. `SocketOk` (`nonblock`, in `cm_pool`) checks three things. After a set that returns 0, `is_nonblocking` reports the value set, or fails. The other flags are kept. A set that returns -1 leaves the flags as they were. The other socket routines hand their arguments to one system call and are not modelled.

The second part of `DriverKernels` is the allocator of `memory::MemoryManager` (`memory_manager.cpp`). Each call is an operator from a manager to the set of its outcomes, as in `BufferOps`. A manager is its pools, `blockMap_`, the live `posix_memalign` blocks, the freed ones and their bytes.
- `MMInitialize` and `MMShutdown` use `InitializePools` and `CleanupPools`.
- `Allocate` is `allocateAligned` for a size above `MAX_BLOCK_SIZE`. Otherwise it searches the pools (`FindFreeBlock`), then `Defragment`s and searches again, and falls back to `allocateAligned`.
- `Deallocate` frees a pool block or a `posix_memalign` block.
- `Reallocate` has the code's branches, including the pool paths, which relock `mutex_` through `allocate` and `deallocate`.

No code adds a block to `pools_`, so every allocation is `posix_memalign`'s and `blockMap_` stays empty. `MemOk` checks two things:
- `mmalloc` (in `cm_pool`): allocate, deallocate, reallocate to 0 and shutdown leak nothing and free nothing twice, and an allocation has at least the bytes asked for.
- `mmrealloc` (in `ComputeManager_buffer.cfg`, beside it): `reallocate` keeps the first `min(n, k)` bytes and frees the old block. TLC finds it violated. For a pointer from `allocate`, the pool lookup misses and the call returns a fresh `allocateAligned` block, neither copying the bytes nor freeing the old one.

`setMemoryLimit`, the statistics and the empty cache stubs are left out.

### `ComputeAlgebra` and `DriverArith`

These modules hold the value-level routines of the C drivers as operators. Each routine sits next to a reference definition, and `AlgebraOk` and `ArithOk` compare the two over small input sets. `cm_pool`'s `KernelsCorrect` includes them through `BuildOk`, so TLC evaluates them once, as constants.

The first section of `ComputeAlgebra` is exact rational arithmetic: records `[num, den]` in lowest terms, with `Gcd` recursive. It stands for the floats of `compute_ops.c`. Rounding is left out: the checks ask whether a routine computes the right quantity.

`ComputeAlgebra` translates these routines from `compute_ops.c`:
- `MatrixInverse` (Gauss–Jordan with partial pivoting: `PivotFrom`, `SwapRows`, `NormalizeRow`, `Eliminate`, `InvLoop`), checked by `A * inverse(A) = I` on every non-singular 2x2 matrix over -1..1 and 3x3 matrix over 0..1;
- `MatrixDeterminant` (`DetLoop`, with the sign flip on a swap), checked against the Leibniz formula over `Permutations`;
- `QuaternionMul` against the table of Hamilton units;
- `QuaternionNormalize`, checked as giving norm 1 wherever the norm is a rational square;
- `QuaternionToMatrix`, checked against rotating the axes by `q v q*`;
- `MatrixToQuaternion`, checked as the inverse of `QuaternionToMatrix` up to sign on the 24 Hurwitz unit quaternions;
- `BezierPoint` and `BezierDerivative` (de Casteljau), checked against the Bernstein form for degrees up to 3;
- the ray queries `RayTriangle` (Möller–Trumbore, with `VSub`, `Cross`, `Dot`), `RayAabb` (the slab loop `SlabLoop`/`SlabStep`, with `-INFINITY` and `INFINITY` as the fractions -1/0 and 1/0, which `QLess` orders below and above every rational) and `RaySphere` (`SphereDisc`). Each is checked on inputs built from their answer. For the triangle, the origin is a point `V0 + u e1 + v e2` moved back by `t D`, for `u`, `v` in {-1/2, 0, 1/2, 1} and `t` in {-1, -1/2, 0, 1, 2}, on two triangles and every direction in {-1, 0, 1}³ (`raytri`). The box parameters are checked against whether `O + t D` lies in the box, at every multiple of 1/2 in -4..4 (`rayaabb`). The sphere roots must lie on the sphere, and a miss must be a line farther from the centre than the radius (`raysphere`). The `fabsf(x) < 1e-6f` tests are exact on integer vertices and directions, and the sphere is checked where the discriminant is negative or a rational square, where `sqrtf` is exact;
- `BsplinePoint` and `BsplineDerivative` (`KnotSpan`, the `DeBoor` rounds), checked for degrees 1 to 3 on uniform and square knots. The point must equal the Lagrange polynomial through the `degree + 1` points of the span it picks (`bspline`);
- `FractalNoise` over the Perlin stub (`PerlinNoise`, which returns 0).

`ComputeManager_computeops.cfg`, kept beside `cm_pool`, checks the members of `AlgebraFailing`. TLC finds `KernelsCorrect` violated in the initial state, and each member fails alone as well:
- `m2q`: `MatrixToQuaternion` reads the matrix transposed with respect to the row-major layout that `QuaternionToMatrix` writes, so the round trip returns the conjugate.
- `raybehind`: a reported hit lies ahead of the origin. The routines never test the sign of `t`, so a triangle or box behind the origin is reported with a negative `t`. Since -1 also marks a miss, a hit at exactly `t = -1` cannot be told from one.
- `bsplinehull`: a B-spline point lies within the convex hull of its control points. The routine's rounds use `knots[i + j] - knots[i + j - k]`, which is Neville's scheme for the interpolating polynomial, not de Boor's algorithm. At degree 2 the point leaves the hull (control points 0, 0, 1 at knots 0, 1, 2 give -1/8 at t = 1/2). Degree 1 keeps to it.
- `bsplined`: `BsplineDerivative` is the derivative of `BsplinePoint`, compared with the central difference, which is exact for degree 2. It agrees at degree 1 and not at degree 2.
- `noisenan`: `core_compute_fractal_noise` with 0 octaves returns `total / max_value` = 0/0, a NaN.

`DriverArith` translates these routines from `math_ops.c` and `memory_ops.c`:
- `FastDiv` and `FastMod` (`core_fast_div`, `core_fast_mod`). `ShiftRight` is `a >> k` on a negative int32, which gcc and clang compile to an arithmetic shift: the quotient rounded down. `MaskLow` is `a & (2^k - 1)` in two's complement: the residue mod `2^k`. `CDiv` and `CMod` are C's `/` and `%`, which truncate.
- `MatrixMultiply4x4` for the three builds. The SIMD builds load `b[j*4 .. j*4+3]`, row `j` of `b`, as the column, so they compute `A * B^T`.
- `MatrixTranspose4x4` for NEON (`Deinterleave4`, the lane order of `vld4q_f32`) and the fallback. The AVX2 build calls `_mm256_movelh_ps`, which does not exist, so it is left out.
- `AlignPtr` and `AlignmentOffset` on `PtrBits`-bit (8-bit) `uintptr_t`, with `&` from the community module `Bitwise` and `~x` as `2^w - 1 - x`.

`ArithOk` checks that:
- `FastDiv` and `FastMod` recombine to the dividend for dividends in -40..40 and divisors in -20..20;
- the product and the transpose agree with the matrix definitions. The product is bilinear, so it is checked on all pairs of the 16 unit matrices. The transpose only moves entries, so it is checked on one matrix with 16 distinct entries.
- an aligned address is the first multiple of the alignment at or after the address, and equals the address plus the offset, for every address and every alignment in {1, 2, 4, 8, 16} that does not wrap.

Two findings are checked by cfgs kept beside `cm_pool`, and TLC finds `KernelsCorrect` violated in each:
- `ComputeManager_fastdiv.cfg` compares `FastDiv`/`FastMod` with C's `/` and `%`. They differ for negative dividends only: `core_fast_div(-7, 2)` is -4 and `core_fast_mod(-7, 2)` is 1, where `/` and `%` give -3 and -1.
- `ComputeManager_computesimd.cfg` also checks the AVX2 and NEON `core_matrix_multiply_4x4`, which multiply by the transpose of `b`.

### `BufferOps`

`BufferOps` translates `buffer_ops.c`, a growable byte buffer with a size and a read/write position, used by one caller at a time. Its header and `core_malloc` are not in the repository, so the struct is read off the uses. Every routine that changes a buffer is an operator from the buffer and its arguments to the set of outcomes the code can give. Each allocation may fail. A call that never returns has no outcome.
- `BufferCreate` and `BufferResize`. Resize copies `min(size, new_capacity)` bytes into a fresh allocation, whose other bytes are `Undef`.
- `BufferWrite`: the growth loop `Grow` doubles from twice the capacity until the bytes fit, then `WriteAt` copies them.
- `BufferRead`, `BufferPeek` and `BufferSkip`, which share the test `Short`; `BufferSeek`, `BufferRewind` and `BufferClear`.
- `BufferCopy` (`CopyInto`), `BufferClone` and `BufferAlign` (`AlignedSize`, the `& ~(a - 1)` rounding through `Bitwise`).

Every buffer comes from `core_buffer_create`, which sets `is_owner`, so the `!is_owner` early returns are never taken. The getters and the cache hints change nothing and are left out.

`BufferOk` checks every routine against a byte stream: the first `size` bytes and the position. It runs on every well-formed buffer of capacity 0..3 over two byte values and `Undef` (334 buffers), on chunks of 0..2 bytes, counts 0..4 and alignments 0, 1, 2 and 4. A call must return. A success (0) must leave a live, well-formed buffer doing what the routine is named for. A failure (-1) must leave the buffer as it was. `cm_pool` includes every routine but two. `ComputeManager_buffer.cfg`, kept beside it, checks those two (with `MemoryManager::reallocate`, see `DriverKernels`), and TLC finds `KernelsCorrect` violated in the initial state:
- `core_buffer_write` on a buffer of capacity 0 (from `core_buffer_create(0)` or `core_buffer_resize(b, 0)`) starts `new_capacity` at `0 * 2` and doubles it for ever;
- `core_buffer_clone` calls `core_buffer_destroy(dest)`, which frees the struct `dest` points to, and then writes the new buffer through `dest`. The caller holds freed memory.

### `ServerPool`

`ServerPool` models the server-pool balancer `loadbalancer::LoadBalancer` (`src/src/load_balancer/load_balancer.cpp`). Every public call holds `servers_mutex_` for its whole body, so each call is one atomic operator on a table record. The record holds the servers by address and `current_server_index_`.
- A server keeps its config weight, `stats.weight`, `active_connections`, the request counters, `response_time_ms` and `is_healthy`. The moving average `0.1 * ms + 0.9 * rt` is kept as an exact fraction.
- The operators are `AddServer`, `RemoveServer`, `UpdateServerWeight`, `ReportServerResponse` (with `UpdateServerStats`), `HealthSweep` (one pass of the health loop, with `CheckServerHealth`, which returns true) and `GetNextServer`.
- `GetNextServer` takes the `unordered_map`'s iteration order as an argument, and the checks range over every order (`Orders`). It covers round robin (the default for `IP_HASH` and `CONSISTENT_HASH` too), `std::min_element` (`FirstMin`) for least connections and least response time, and the weighted loop (`Prefix`, `Draws`, `WeightedPick`).
- `Tables(k, ...)` is every table that k calls or fewer reach from a new balancer.
- The health thread's life is a second set of operators. `StartHealthChecks`, `StopHealthChecks` and `DestroyBalancer` are the owner's calls; `ThreadWakes` is a detached thread ending its sleep and re-reading `health_checks_running_`.

`ServerOk` is checked by `KernelsCorrect`:
- `spselect` (in `cm_pool`), over the tables five calls reach with three addresses and weights 1 and 2:
  - `""` is returned only for an empty table;
  - round robin returns every server once in as many calls as there are servers;
  - no server is below the least-connections or the least-response-time pick;
  - every weighted draw returns a server of positive weight, and server `a` for exactly `weight(a)` of the draws.
- `ComputeManager_serverpool.cfg`, kept beside `cm_pool`, finds three violations. Each also fails alone.
  - `spzero`: `update_server_weight(a, 0)` on the only server makes the total 0. `total_weight - 1` wraps, no draw passes the loop, and `servers_.begin()`, of weight 0, is returned.
  - `spconfig`: a server added with config weight 2 is drawn as often as one of weight 1, because `add_server` leaves `stats.weight` at its default 1.
  - `sphealth`: start, destructor, wake. The detached thread captures `this` and reads `health_checks_running_` of a destroyed balancer.

Weights stay small, so the sum never passes 2^32, which is beyond TLC's integers. A total of 0 is the one wrap the model reaches. For it, the draw 0 stands for the whole range, on which the pick is constant. The health loop holds `servers_mutex_` through its 5 s sleep, so every call waits up to 5 s; the operators cannot show that. `get_server_stats` and `get_all_stats` only read.

### `AtomicWord` and `AtomicOps`

`AtomicWord` is what `atomic_ops.h` promises: every call is invoked, takes effect on its location (the word or the flag) at one instant, and returns what that instant gives it. `add` and `sub` return the new value, `cas`, `xchg`, `test_and_set` and `load` the old one.

`AtomicOps` translates `atomic_ops.c` for three builds, chosen in `Init`:
- x86_64: each call is one `lock`-prefixed instruction, the action `Atomic`.
- aarch64: `ldaxr` (`LoadStep`, which takes the reservation), then `stlxr` (`StoreOk` when the thread still holds the reservation, `StoreFail` otherwise, back to the load). A `cas` that sees a different value and a `test_and_set` that sees the flag set leave the loop without storing. `store`, `load` and `clear` are single instructions.
- the fallback: the same load and store with no reservation, so another thread can write in between.
Any store to a location clears every reservation on it (`ClearReservations`). `Return` gives the value the code returns (`CodeReturn`).

The refinement mapping keeps `mem` and `res` and builds `pend` from the thread's pc: a call is done once its store (or its only instruction) has happened, and its result is what the abstract operation returns on the value it saw. `Linearizable` is `AW!Spec`; `AllCallsReturn` says every thread finishes its calls.

`atomic_word` checks the x86_64 build with every operation and the aarch64 build with every operation but `add` and `sub`. Two cfgs are kept beside it, and TLC finds `Linearizable` violated in both:
- `AtomicOps_armadd.cfg`: the aarch64 `core_atomic_add_64` returns `result + value`, the new value plus the argument again (4 after 0→2);
- `AtomicOps_fallback.cfg`: two adds both load 0 and both store 2, so one update is lost.

### `BlockchainOps`

`BlockchainOps` translates the deciding routines of `blockchain_ops.c`. SHA-256 is an ideal hash: `HashTwice(x)` is a term equal only to itself, so two hashes are equal exactly when their inputs are. A transaction's bytes are the one-element sequence of it, and the 64-byte `combined` buffer is the pair of the two hashes. ECDSA is abstracted to the result `ECDSA_do_verify` returns (1, 0 or -1, `SigResult`).
- `VerifyHash` (`ZeroBits`, `ZeroBitsOfByte`, with `&` from `Bitwise`) counts leading zero bits over bytes; `HasLeadingZeros` is the reference (the hash as a number below `2^(bits - difficulty)`).
- `BuildMerkleTree` (`Leaves`, `NextLevel`, `RootOf`): pairs are hashed, an odd last node is copied up.
- `VerifyMerkleProof` (`ProofLoop`): step `i` puts the current hash on the left when `i` is even. `PathOf` is the reference path of a leaf in the tree `BuildMerkleTree` builds, with the side of each sibling, and `FollowPath` follows it.
- `TransactionVerify`, `BlockVerify` and `VerifyChain` (`ChainLoop`). `core_block_verify` compares the freshly built root with `calculated_root`, which nothing writes; reading it is undefined, so `BlockVerify` is the set of results the build can give. `VerifyChain` is a set for the same reason. `ChainValid` is the reference.
- `FindFork` against `ForkHeight`, the last height of the common prefix.

`ChainOk` checks these on byte pairs with difficulties 0..17, on every list of one to four transactions over two values, on chains of up to two blocks with at most one transaction each, and on hash sequences of lengths 1..3 with a common genesis. `cm_pool` includes the difficulty test and Merkle-root injectivity, which hold. `ComputeManager_blockchain.cfg`, kept beside it, checks the other three, and TLC finds `KernelsCorrect` violated in the initial state:
- the proof of leaf 1 of a two-leaf tree needs the current hash on the right at step 0, so `verify_merkle_proof` rejects it;
- `verify_chain` rejects a chain when `!core_block_verify(...)`, i.e. when it returned 0 (valid), and goes on when it returned -1. A chain whose block fails the difficulty test is accepted, and a valid one is rejected whenever the uninitialised root happens to match;
- `find_fork` returns the first height at which the chains agree, which is the genesis, not the block after which they diverge.

**Keys and signatures.** `Sign`, `Verify`, `GenerateKeypair` and `PublicKeyFromPrivate` are each the sequence of their OpenSSL calls (`Routine` of `OsslCall`s). Each call may fail after allocating part of its objects, and its early return frees a stated set. `KeyOutcomes` gives every outcome: the value returned, the objects left allocated, and the objects freed without being held. OpenSSL itself is abstracted to two size facts:
- `EC_POINT_point2oct` of a compressed point needs 33 bytes (`PointToOct`);
- `EC_POINT_oct2point` accepts only 33 or 65 bytes (`OctToPointOk`).

`SignatureBytes` and `SignatureValues` are the `BN_bn2bin`/`BN_bin2bn` encoding of r and s into the signature. They are checked with two-byte slots.

**Blocks in memory.** The block and transaction routines work on a heap, `[live, bad]`:
- `live` is the set of live allocations;
- `bad` is the set of pointers freed while not live;
- `core_malloc` may return NULL.

The heap routines are `BlockCreate`, `TransactionCreate`, `BlockAddTransaction`, `TransactionDestroy` and `BlockDestroy`. A transaction copied into a block shares its `data` pointer with the caller's. `BlockMine` is the nonce loop of `core_block_mine` over a sequence of hashes, one per try.

`cm_pool` also checks these:
- `keyfrees`: every early return of the four key routines frees exactly what is held, and nothing is freed twice;
- `blockmem`: after any sequence of adds, some of them failing, the block holds the array and the block itself, and `core_block_destroy` frees those and the data of the added transactions, with no double free;
- `mine`: `core_block_mine` returns the first nonce whose hash passes the difficulty test.

`ComputeManager_blockchain.cfg` also checks the following three, and each is false:
- `keyuse`: `generate_keypair` and `public_key_from_private` return -1 whatever OpenSSL does, because a compressed point does not fit the 32-byte `CORE_BLOCKCHAIN_PUBLIC_KEY_SIZE` buffer. `verify` never reaches `ECDSA_do_verify`, because it hands 32 bytes to `oct2point`.
- `sigpad`: an r or s below 2^248 is written unpadded at the front of its slot, and `verify` reads back a different number.
- `txlife`: `core_transaction_destroy` frees the data and never the struct that `core_transaction_create` allocated.

### `DistributedLedger` (a section of `BlockchainOps`)

The last section of `BlockchainOps` models `cloud::DistributedLedger`. Every call into a collaborator may throw: OpenSSL, the engines, `m_chain`, `m_state`, `m_tx_pool` and the metrics. Where the code catches and goes on, the model goes on. Where it rethrows, the model stops at that point.

- **Lifecycle.** A record holds each owned object as `none`, `made`, `running` or `stopped`, plus whether `m_crypto` exists. Each lifecycle call is a trace: the sequence of records it passes through. The call may throw at any of them.
  - `DistributedLedger` chains the constructor's calls: `InitializeConsensus` (with `InitializeCrypto`), `SetupNetwork` and `StartConsensus` (with `StartTransactionProcessor`).
  - `DestroyLedger` is the destructor: `StopConsensus` (with `StopTransactionProcessor`), then `CleanupResources`. Its argument `f` is the set of `stop()` calls that throw. A throwing network `stop()` skips the engine's `stop()`, because both are inside one `try`.
- **Handlers.** The data are a record of the chain (a set of blocks, each a sequence of transactions), the state (the applied transactions), the pool, and `pooled` (every transaction the pool ever took).
  - `HandleTransactionMessage` calls `AddTransaction`.
  - `HandleBlockMessage` calls `AddBlock`: `m_chain.add_block`, then `UpdateState`, then `RemoveProcessedTransactions`. Each of these may stop part-way through its loop.
  - A failed signature check, from `VerifyBlockSignature` or `VerifyTransactionSignature`, drops the message.
  - `Histories(k)` is every record that `k` or fewer messages reach over two transactions and four blocks. Messages may arrive in any order, be lost or be repeated.

`LedgerOk` checks these through `KernelsCorrect`. `cm_pool` includes the first two, which hold:
- `ledorder`: after four messages, every applied transaction belongs to a block of the chain (`StateFollowsChain`), and every pooled transaction of a chain block is applied or still pooled (`NoLostTransaction`). Both depend on the order in `add_block`.
- `ledlife`: when every `stop()` returns, the network runs only while the consensus engine runs and `m_crypto` exists (`NetworkOverEngine`). This holds in construction, in every state a throwing constructor stops at, and in destruction.

`ComputeManager_blockchain.cfg` also checks the following three, and each is false:
- `ledwhole`: `apply_transaction` throwing mid-block leaves the block in the chain, applied in part.
- `ledpool`: a transaction message that arrives after its block was applied puts an applied transaction back in the pool.
- `ledstop`: a throwing `m_network->stop()` leaves the network running while `cleanup_resources` resets the engine.

The mutants tried by hand each break a passing check:
- `update_state` before `m_chain.add_block` breaks `StateFollowsChain`;
- removing the processed transactions before `update_state` breaks `NoLostTransaction`;
- the engine stopped before the network, or the network started before the engine, breaks `NetworkOverEngine`.

`handle_consensus_message` only forwards to the engine, and is left out.

### `Storage` and `StorageKV`

`Storage` models `storage::StorageManager`. Every public operation holds `storages_mutex_` for its whole body, so each is one atomic step of its client, counted against `MaxCalls`.
- A storage is a record: its data (key to value, or `Missing`), `used_size`, the read and write counters, and the backup and snapshot lists.
- The configuration is abstracted away. Only `apply_storage_changes` and the encrypt/compress/replicate helpers read it, and they are empty. So `update_storage`, the replication calls, the encryption and compression setters, and both restores change nothing the model keeps (`ConfigCall`).
- `write_data` adds `processed_data.size()` after `processed_data` was moved into the map. The size of a moved-from vector is unspecified, so `MovedFromSize` offers both 0 and the full size.
- `used_size` is kept modulo `SizeMod`, a small stand-in for `size_t` wrap.

Monitoring:
- `StartMonitoring` is the `exchange(true)` and, when it was false, the creation of a thread and its move-assignment. Assigning to a joinable `std::thread` calls `std::terminate`, which sets `failed`; `Terminated` is the ended process, which takes no further step.
- `stop_storage_monitoring` takes three steps: `StopMonitoring` (the store), `StopTest` (`joinable()`) and `StopJoin` (`join()`, blocking until the worker returned). A `join()` on a thread another stop has joined throws, which also sets `failed`.
- The worker alternates `WorkerCheck` (the loop test) and `WorkerBody` (stats, health, cleanup and sleep). The body changes no modelled state: no storage is ever inactive while the lock is free.

`StorageKV` is what the manager promises its callers: named maps that are created empty, dropped, written, erased and read. `RefinesKV` maps each present storage to its data.

Checks:
- `RefinesKV`: the manager implements `StorageKV` under every interleaving with the monitoring calls of both clients (run `st_store`).
- `StopReturns` (liveness): every `stop_storage_monitoring` returns, unless the process has ended. The run `st_stop2` finds it violated with both clients starting and stopping monitoring. c2's stop stores false. c1's start exchanges the flag back to true and spawns a worker into the empty handle. c2's `joinable()` test then sees that worker, and c2 joins a thread that loops while the flag stays true.
- `NoTerminate`: monitoring never ends the process. It is stated without a run: with two callers it fails in a few steps (a start, the other client's store of false, a start over the joinable thread), and `st_store` reaches those states.

Beside `Storage.cfg`:
- `Storage_accounting.cfg` checks `UsedSizeMatches` (`used_size` is the byte size of the stored data). TLC finds it violated after one write and one delete: the write added 0 and the delete wrapped `used_size` below zero. Nothing reads the statistic but `get_storage_stats`, so this has no run.
- `Storage_monitor2.cfg` is the cfg of the violation run `st_stop2`. No file of the repository calls the monitoring functions at all, so nothing confines them to one thread, and both runs give both clients the calls.

### `HierarchicalLock`

Models `core::concurrency::HierarchicalLock` (advanced_synchronization.cpp, lines 10–44).

**State.** `lock_` is each lock object's atomic word: 0, or the level it was taken at. `current` is each thread's `thread_local current_hierarchy`, shared by all lock objects. The ghost `held` lists the locks a thread holds, in the order it took them.

**Actions.**
- `Lock(t, l)` is the call `lock(Level[l])`. It throws `InvalidHierarchy` with nothing changed when the level is not above `current`. Otherwise the thread enters the CAS loop.
- `Acquire(t)` is the successful `compare_exchange(0, level)` followed by `current_hierarchy = level`. A failed CAS only spins, so a waiting thread has no step.
- `Unlock(t)` releases the lock the thread took last. It throws, leaving the lock taken, when `current` is 0. Otherwise it stores 0 and resets `current` to 0.

**Usage assumed.** Clients use the lock the way spec §4.2 intends:
- each lock object is always taken at its own level;
- a thread never locks a lock it holds;
- a thread unlocks in reverse order, as scoped guards do.

**Check.** `NoDeadlock`: no cycle in the relation "t spins on a lock u holds". Spec §4.2 says the level check prevents lock-order inversion by construction. TLC finds it violated (run `hl_inversion`): the reset of `current` to 0 by an inner `unlock()` lets a lower-level lock be taken under an outer one. Scenario D (lock(3) at level 5 fails and changes nothing) is the first branch of `Lock`.

### `NetworkManager`

Models `core::NetworkManager` (NetworkManager.cpp). `core::StorageManager` (StorageManager.cpp) repeats this class with files in place of connections. It is not modelled: this module is written from NetworkManager.cpp only and maps no line of StorageManager.cpp.

**State.** `owner` holds the four mutexes (state, connection, task, metrics). `conns` maps an id to a connection object number (0 when absent); `connect()` gives id `connections_.size() + 1`. `running` and `paused` are the flags. Each `start()` that finds `running_` false spawns a fresh detached monitor, so `Monitors` has one slot per start.

**Client calls.** `Start`, `Pause`, `Resume`, `Connect`, `Disconnect`, `Transfer` (send, receive and broadcast), `SubmitTask` and `CancelTask`. `stop()` takes three steps: `StopBegin` (the exchange), `StopLock` (the wait on `state_cv_`, which sleeps if a `start()` came in between) and `StopConn` (the connection cleanup). As in `LoadBalancer`, a thread that needs a mutex it already holds has no step:
- `disconnect` of a known id blocks in `cleanup_connection`;
- `stop` with a connection open blocks in the same way;
- the monitor's health sweep blocks in `handle_connection_failure` or `optimize_connection`.

**Monitor.** `MTop` is the loop test. `MLockState` covers the paused wait. `MCollect` and `MUpdate` are the metrics pass, and `MHealth` is the health sweep.

**Left out.** The per-core delegations call into `NetworkCore`, which is declared but never defined. The read-only getters are also left out.

**Checks.**
- `AtMostOneMonitor`: at most one monitor thread is alive at a time. `stop()` never waits for the detached monitor, so a `start()` after it spawns a second one. `NetworkManager.cfg` (2 clients × 3 calls, 2 starts) finds it violated in 4 states: start, stop, start. It is kept beside the runs: all twelve run slots are used.

## Runs

| Run | Checks | Result |
|---|---|---|
| `msq_mpmc` | TypeOK, LinearizableFifo, AllItemsDequeued; 2 producers (one item each), 2 consumers, 3 nodes, no reuse | pass (≈118k states) |
| `bc_race` | NoTerminate; 2 cores, no items, 2 clients making 2 calls of start/stop | violation (7 states): a `start()` between another client's `stop()` exchange and its joins assigns over a joinable worker |
| `lb_tables` | TypeOK, SelectionIsLeastLoaded; 2 clients × 2 calls of every operation, the monitor, 2 cores, usage {0, 90}, 1 payload | pass (≈1.78M states, 2 min; deadlock checking off, since the code deadlocks) |
| `lb_abba` | NoDeadlock; 2 clients, submit/update/rebalance, no monitor | violation: task→metrics against metrics→task |
| `eng_drain` | NoEmptyPop; 2 cores, 3 tasks, 1 client making 4 calls of submit/pause/resume/stop/tx, 1 failure | violation (depth 17): a failed core's `redistribute_tasks` drains core 0's queue between its worker's `empty()` test and its `pop()` |
| `eng_wakeup` | NoLostWakeup; 2 tasks on core 0, two calls of pause/resume/stop | violation: resume's notify falls between the worker's test and its sleep |
| `atomic_word` | TypeOK, Linearizable, AllCallsReturn; 2 threads × 2 calls of every operation, the x86_64 build and the aarch64 build without add/sub, value 2, expected 0 or 2 | pass (≈160k states, 20 s; deadlock checking off: the threads stop after their calls) |
| `stack_lifo` | TypeOK, LinearizableLifo, AllItemsPopped; 2 pushers (items 1,2 and 3), 2 poppers, 3 nodes, no reuse | pass (≈57k states, 10 s) |
| `cm_pool` | TypeOK, JoinedBeforeReset, KernelsCorrect, BatchesCoverOnce, CleanupCompletes; 1 API thread, 4 calls, 0 or 2 hardware threads, thread counts {0, 1, 257}, batch sizes {0, 3}; every build in `MCCheckedGood`, counts 0..17 | pass (≈139k states, 65 s; deadlock checking off: the API thread may stop calling while workers sleep) |
| `hl_inversion` | NoDeadlock; 2 threads, 3 locks at levels 1, 2, 3, 3 lock calls each, scoped unlocking | violation: a thread holding `la` (2) takes and releases `lb` (3), which resets its level to 0, then waits for `lc` (1) held by the other thread, which waits for `la` |
| `st_store` | TypeOK, RefinesKV; 2 clients × 3 calls of every operation, both calling the monitoring functions, 1 storage, 2 keys, 2 values of sizes 1 and 2, one backup and one snapshot name | pass (≈57k states, 25 s) |
| `st_stop2` | StopReturns; the same bounds | violation: a start between the other client's store of false and its `joinable()` test leaves that stop joining a live worker for ever |

`MSQueue_uaf.cfg` is kept beside `MSQueue_mpmc.cfg` and is not a run. It checks `NoUseAfterFree` with 2 producers (items 1, 2 and 3) and 1 consumer. TLC finds it violated: a dequeue deletes the node that another thread is about to read.

`MultiCoreEngine_pause.cfg` is kept beside `MultiCoreEngine_drain.cfg` and is not a run. It checks `PauseStopsNewTasks` with two tasks on core 0 and one `pause()`. TLC finds it violated: a worker inside its drain loop pops and starts the second task after `pause()` has set `paused`. Spec §4.3 and Scenario C say the flag is consulted before each pop.

`CoreSelection_tiebreak.cfg` is kept beside `LoadBalancer_tables.cfg` and is not a run. `lb_tables` checks the least-load rule (`SelectionIsLeastLoaded`) on the tables the balancer reaches, in every iteration order. `CoreSelection_tiebreak.cfg` checks `LowestIdTieBreak`, the lowest-id tie-break of spec §4.4 and §8. TLC finds it violated: between equally loaded cores, the code's strict `<` keeps the first core in `unordered_map` iteration order.

### Why the bounds are enough

- **Queue.** Two producers can hold the same tail while the other links its node, and two consumers can race on the same head and on the empty test; one item per producer is enough for both races and for a lagging tail. Three nodes are the dummy plus the two items. The use-after-free run uses three items and four nodes so a consumer deletes a node while a producer still holds it.
- **Balancer.** One core is enough for every lock path (rebalancing an overloaded core that holds a task, marking a known core, a monitor tick); `lb_abba` uses it. `lb_tables` has two cores, so that the selection chooses between a healthy and an unhealthy core, or between two loads 0 and 90; one payload keeps it within two minutes, and the payload is never read by the selection.
- **Engine.** Two cores are the fewest for which redistribution on one core drains the other core's queue between its worker's test and its pop, and `stop()` clears one core while another still runs. Three tasks let a submitted task meet two preloaded ones; one failure reaches both outcomes of recovery.
- **ComputeManager.** Thread count 1 after 2 (or 0 from `hardware_concurrency()`) makes a rebuild shrink and grow the pool. 257 and 0 reach the early return of `setThreadCount`. Four calls reach a rebuild after a shutdown and re-initialize. Counts 0..17 cover the dispatch threshold (16), one full 16-step of the integral add, and a tail after every stride (2, 4, 8, 16). Batch size 3 gives a partial last batch for most counts, and the default 1024 gives a single batch.
- **NetworkManager.** Two clients with three calls each reach connect, disconnect, connect and a `start()` between another client's `stop()` steps. Two starts give two monitors alive together. One core and one task id reach both branches of submit and cancel.
- **Storage.** Three calls of a monitoring caller reach start, stop and start again, which reuses `monitoring_thread_` after the join; with both clients calling, a start falls between the other client's store and its `joinable()` test. The other client's three calls reach create, write and overwrite, or write and delete, and meet each monitoring step. Two keys and two values of different sizes tell a lost or doubled byte count apart. One storage name is enough because the storages never interact.
- **Stack.** Two pushers race on the same `head_` and two poppers on the same top; three items let a pop's CAS fail against a push and against a pop. Three nodes hold the three items. The ABA cfg needs one popper to hold a node while the other pops two and the pusher recycles one, so it has three items and two poppers.
- **Driver arithmetic.** The dividends -40..40 and divisors -20..20 include every power-of-two case with negative and positive dividends. Unit matrices and one matrix of distinct entries are complete for a bilinear map and for a permutation of entries. An 8-bit pointer width has every alignment up to 16 and the wrap at the top.
- **Blockchain routines.** The key routines are checked on every failure point of every call. Signature values 1, 255, 256, 4660 and 65535 are one and two bytes long, so both slot lengths are reached, over buffers of zeros and of 0xff. Up to three caller transactions with and without data reach a first add, a reallocating add and a failed add between two good ones. Two tries and difficulties 0..17 reach a first, a second and no acceptable nonce. Two transaction values and lists of up to four give trees with one, two and three levels and an odd node copied up at two levels. Chains of two blocks reach the link check and both orders of a failing block. Three heights let the chains agree, diverge and agree again.
- **Atomics.** Two threads with two calls each reach an interleaved read-modify-write on both builds, a failed `stlxr` followed by a retry, and a `cas` that matches and one that does not (expected 0 or 2 against a word that is 0 or a multiple of 2). One value argument is enough: the lost update and the wrong return need only that a second call runs between a load and a store.
- **Buffers.** Capacities up to 3 with writes of up to 2 bytes reach a write that fits, one that grows once and one whose loop doubles once more (two bytes at position 1 of capacity 1). Counts up to 4 exceed every size. Two byte values and `Undef` tell copied, stale and unwritten bytes apart.
- **Server pool.** Three addresses and five calls reach three servers with different weights or response times, a removal, and a weight update after reports. Weights 1 and 2 make the draws tell the prefix comparison `<` from `<=`. Two steps reach a table whose only server has weight 0. Four steps of the health thread reach start, destructor and wake, and start, stop, start.
- **Ledger.** Two transactions and the blocks of one or both, in either order, reach a block whose second transaction fails after its first was applied. Four messages reach a pooled transaction, its block, and the transaction again. Every subset of throwing `stop()` calls is tried.

### Mutants

Every property of a passing run is broken by a mutant of the code, which is listed in `PROJECT.json`:

| Mutant | What it changes | Breaks |
|---|---|---|
| `DeqCheckNoEmptyTest` | drops the empty-queue test | TypeOK |
| `EnqCheckKeepsTail` | retries on a stale tail | AllItemsDequeued |
| `EnqLinkStore` | a plain store instead of the link CAS | LinearizableFifo |
| `DeqCasStore` | an unconditional store instead of the head CAS | LinearizableFifo |
| `MonUpdateOffByOne` | the monitor loop writes one core too many | TypeOK |
| `VisitAll` | selection ignores `is_healthy` | SelectionIsLeastLoaded (in `lb_tables`) |
| `AtomicTasAdds` | test_and_set adds 1 instead of storing 1 | TypeOK |
| `StoreOkUnreserved` | `stlxr` succeeds without the reservation | Linearizable |
| `StoreFailNoReload` | a failed `stlxr` does not go back to `ldaxr` | AllCallsReturn |
| `SetThreadCountUnchecked` | drops the 0 / MAX_THREADS range check | TypeOK |
| `CSetStopUnlocked` | cleanup sets `stop` without the pool mutex | CleanupCompletes |
| `CResetEarly` | the join loop stops one thread short | JoinedBeforeReset |
| `X86MultiplyStride16` | the integral multiply steps by 16 like add | KernelsCorrect |
| `BatchesFloor` | the batch count rounds down | BatchesCoverOnce |
| `DeleteDataSigned` | `used_size` goes below zero instead of wrapping | TypeOK |
| `WriteDataAutoCreate` | `storages_[name]` in place of `find`, creating an unknown storage | RefinesKV |
| `PushAllocNoData` | `new Node` without the value, only `->next` set | TypeOK |
| `PopCasStore` | pop stores `head_ = old_head->next` instead of a CAS | LinearizableLifo |
| `PushCasStaleNext` | push retries without refreshing `new_node->next` | AllItemsPopped |

## Fairness

- `MSQueue` and `TreiberStack`: weak fairness per thread, because every thread is a dedicated OS thread. A CAS that fails only because another thread's CAS succeeded leaves the system making progress, so the liveness properties need no more than that.
- `MultiCoreEngine`: the specification carries weak fairness for each worker (a dedicated OS thread) and for a client's steps inside `stop()` and inside `process_blockchain_transaction` (`TxLock`: a thread blocked on a mutex gets it once it is free); a client is never obliged to make a call. The progress failures (a worker asleep with work, `stop()` stuck in `join()`) are stated as the safety property `NoLostWakeup`, whose counterexamples are short.
- `ComputeManager`: weak fairness for each worker (an OS thread) and for the API thread's steps inside `cleanupThreadPool`. Starting a call has no fairness. `CleanupCompletes` relies on this: a worker asleep on the cv is not enabled until a notify, so weak fairness cannot wake it.
- `Storage`: weak fairness for the monitoring thread (an OS thread) and for a caller's steps inside `stop_storage_monitoring`. Starting a call has no fairness. With this fairness a stop that joins its own worker returns; `st_stop2`'s counterexample is a worker that never sees the flag false because the other client set it true again, not a starved thread.
- `NetworkManager`: no fairness and no liveness claimed. The monitor is detached and nothing waits for it.
- `AtomicOps`: weak fairness per thread. Each caller is an OS thread, and an `stlxr` fails only when another thread's store cleared the reservation, which is progress for the system; `AllCallsReturn` needs no more.
- `MultiCoreBlockchain`: weak fairness for each worker (an OS thread) and for a client's steps inside `start()` and `stop()`. Making a call has no fairness. No liveness is claimed, so the fairness only keeps the behaviours realistic.
- `LoadBalancer`: no liveness is claimed. The monitor and the callers block, and nothing guarantees progress.

## Plan for the remaining parts

1. **`MultiCoreEngine`** (done for workers, pause/resume/stop and recovery): the blockchain call `process_blockchain_transaction` is modelled as far as its self-relock; `MultiCoreBlockchain` (done for start, stop, the worker and redistribution) is a module of its own.
2. **`HierarchicalLock`** (done): a pass run for mutual exclusion and for the throwing nested `unlock()` would need a run of its own.
3. **`LockFreeStack`** (done): a hazard-pointer or epoch variant, as the spec asks for, would be checked by the same properties.
4. **`NetworkManager`** (tables, monitor and stop done; `AtMostOneMonitor` checked beside the runs): the lost wake-up of a paused monitor at stop(). `StorageManager.cpp` repeats the class and would be a second instance of the same module with its own map.
5. **`ParentCore`** is not modelled: `ParentCore.cpp` calls `set_blockchain_engine`, `stop_core` and `get_failed_tasks`, which neither `MultiCoreEngine` nor `MultiCoreBlockchain` declares, so it does not compile. The server-pool balancer is done (`ServerPool`). A state machine for its health thread holding `servers_mutex_` through its 5 s sleep would need a run of its own.
6. **C drivers** (`src/src/core/drivers/`), surveyed and listed as hazards in `PROJECT.json`:
   - `atomic_ops.c` (done, in `AtomicWord` and `AtomicOps`). The thread_ops spin lock calls `core_atomic_cas_32` and `core_atomic_store_32`, which do not exist, and is not modelled.
   - `buffer_ops.c` (done, in `BufferOps`).
   - `blockchain_ops.c` (done, in `BlockchainOps`: the deciding, key, signature, block memory and mining routines).
9. **`DistributedLedger`** (lifecycle and block and transaction handlers done, in `BlockchainOps`). Its collaborators are not modelled: the engines, chain, state and pool are declared in headers that are not in the repository.
   - `memory_ops.c`, `math_ops.c` and `compute_ops.c` (done, in `DriverKernels`, `ComputeAlgebra` and `DriverArith`), with the ray queries, the B-spline routines and the fractal noise; the simplex and Worley noise stubs and the empty image and FFT stubs are left out.
   `thread_ops.c` would need a run of its own, and the project already uses its twelve. Adding one means retiring one.
7. **`ComputeManager`** (pool and all kernels done): two API threads (`setThreadCount` takes no lock).
8. **`MemoryManager`** (`zero`, `copy`, `move` and the allocator done in `DriverKernels`): `setMemoryLimit`, the statistics and the cache stubs.

## Not modelled

- **ComputeManager's statistics and feature queries**: counters and reads.
- **`memory_ops.c` prefetch and barrier routines** (lines 90-164): hints and fences. The models take every shared step as sequentially consistent, so a fence changes none of their behaviours.
- **`MemoryManager`'s OS queries and `getStats`/`resetStats`**: the queries read the system, and the statistics are copies of structs of `std::atomic` fields, which are not copyable. `ComputeManager::getStats` has the same problem.
- **`StorageManager`'s replication, encryption, compression and config hooks** (storage_manager.cpp 380-419) and **`LoadBalancer`'s `optimize_core_performance`, `adjust_core_resources` and `cleanup_core`**: placeholders with empty bodies, or calls forwarded to engines whose effect is not in the repository.
- **StorageManager's read-only calls** (`list_storages`, `exists`, `list_backups`, `list_snapshots`, `get_storage_stats`) and its destructor. The destructor is defaulted, so a still-joinable `monitoring_thread_` at exit would call `std::terminate`; the model has no exit.
- **Numeric kernels of other parts, crypto, JIT, enclave, packet and container code**: pure computation or I/O behind narrow interfaces (spec §1).
- **`DistributedLedger`'s collaborators and `handle_consensus_message`**: the consensus engines, `m_chain`, `m_state` and `m_tx_pool` are declared in headers that are missing from the repository, as is the class's own header. Only what the ledger itself does with their results and throws is modelled.
- **`core::container::ContainerManager`**: `create_container` holds `containers_mutex_`, a `std::mutex`, and calls `set_resource_limits`, which locks it again (line 33). On Linux the first create never returns and keeps the mutex, so every later call blocks, and no table with a container is reachable. This is listed as a hazard in `PROJECT.json`. Without the relock two more defects would show: the id is read after `std::move(container)`, and `stats.state` is never initialised.
- **`core::network::NetworkManager`, `MonitoringSystem`, `DiagnosticProbe`**: name-keyed tables behind mutexes that are never nested in a conflicting order, with placeholder hooks. Their monitoring threads start and stop with the same code as `storage::StorageManager`, which `Storage` models, and they share its hazards. `MonitoringSystem::process_alert` calls handlers while holding `alerts_mutex_`. It would deadlock only if a handler called back into the system, and the repository registers no handler.
- **`CoreOptimizer` and `AdvancedThreadPool`**: `core_optimizer.cpp` redefines two member functions that the header already defines inline, and `submit` calls a `push` that `WorkQueue` lacks, so the file does not compile.
- **`RCUGuard`**: the constructor copies `version_` into itself, and `synchronize()` spins until `version_` changes. No code in the repository changes it, and it is `thread_local`. So every call of `synchronize()` spins for ever, and there is no interleaving to explore.
- **Floating-point metrics**: abstracted to two usage levels.
- **Timing**: the monitor's one-second sleep; the interleavings cover every timing.
- **Spurious CAS failure of `compare_exchange_weak`** (queue and stack): it only causes a retry.
