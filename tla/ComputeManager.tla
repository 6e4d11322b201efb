---------------------------- MODULE ComputeManager ----------------------------
(***************************************************************************)
(* compute::ComputeManager (src/src/compute/compute_manager.cpp and        *)
(* src/include/compute/compute_manager.h), in two parts.                   *)
(*                                                                         *)
(* The worker pool: the singleton's constructor runs initialize(); the API *)
(* thread then calls initialize, shutdown, setThreadCount and             *)
(* setBatchSize.  Each pool is a generation g; its workers <<g, k>> block  *)
(* on the pool's condition variable until stop is set.  Nothing in the    *)
(* repository pushes onto ThreadPool::tasks, so the queue is always empty *)
(* and the wait predicate reduces to `stop`.  One API thread is modelled: *)
(* setThreadCount takes no lock, so two API threads race on the pool; see  *)
(* README.                                                                 *)
(*                                                                         *)
(* The kernels: add, multiply, sum and dotProduct dispatch to the SIMD     *)
(* kernels for count >= SIMD_WIDTH, and each kernel is a vector loop       *)
(* `for (; i + stride <= count; i += stride)` whose body touches `lanes`   *)
(* elements from i, followed by a scalar tail loop.  The arithmetic is     *)
(* abstracted to which element indices a call touches and how often, which *)
(* is what decides whether the result is right; the per-type intrinsics    *)
(* are abstracted to their (stride, lanes) geometry.                       *)
(***************************************************************************)
EXTENDS Integers, FiniteSets, DriverKernels, DriverArith, BlockchainOps, BufferOps,
        ServerPool

CONSTANTS
    MAX_THREADS,       \* compute_manager.h:18
    HardwareThreads,   \* possible values of hardware_concurrency()
    ThreadCounts,      \* arguments given to setThreadCount
    BatchSizes,        \* arguments given to setBatchSize
    DEFAULT_BATCH_SIZE,\* compute_manager.h:19
    MaxPools,          \* bound on the pools created
    MaxCalls,          \* bound on API calls
    Checked            \* <<op, arch, type>>: the kernel builds checked

SIMD_WIDTH == 16       \* compute_manager.h:20

\* Every call may build a pool, so the bound on pools never blocks a call.
ASSUME MaxCalls \in Nat /\ MaxPools > MaxCalls

\* Worker slots: the largest pool the model can create.
MaxSlots == LET valid == {n \in ThreadCounts : n > 0 /\ n <= MAX_THREADS}
                                \cup HardwareThreads
            IN CHOOSE m \in valid : \A n \in valid : n <= m
Gens    == 1 .. MaxPools
Workers == Gens \X (1 .. MaxSlots)
\* No thread holds the mutex (the API thread holds it only within a step).
Free == <<0, 0>>

VARIABLES
    initialized,   \* initialized_
    threadCount,   \* threadCount_
    batchSize,     \* batchSize_
    pool,          \* generation of *threadPool_, 0 when it is null
    made,          \* pools created so far
    size,          \* size[g]: threadPool_->threads.size() of pool g
    stop,          \* stop[g]: threadPool_->stop of pool g
    holder,        \* holder[g]: the worker holding pool g's mutex, or Free
    wpc,           \* wpc[w]: where worker w is
    cpc,           \* where the API thread is
    cont,          \* what the API thread does once cleanupThreadPool returns
    jidx,          \* the threads[] index cleanupThreadPool is joining
    calls,         \* API calls made
    build          \* <<op, arch, type>>: the kernel build a call runs

vars == <<build, initialized, threadCount, batchSize, pool, made, size, stop,
          holder, wpc, cpc, cont, jidx, calls>>

WState == {"unborn", "check", "holding", "sleep", "exited", "joined"}
CState == {"idle", "set_stop", "notify", "join", "reset"}

TypeOK ==
    /\ initialized \in BOOLEAN
    /\ threadCount \in 0 .. MAX_THREADS
    /\ batchSize \in Nat \ {0}
    /\ pool \in 0 .. MaxPools /\ made \in 0 .. MaxPools
    /\ size \in [Gens -> 0 .. MaxSlots]
    /\ stop \in [Gens -> BOOLEAN]
    /\ holder \in [Gens -> Workers \cup {Free}]
    /\ wpc \in [Workers -> WState]
    /\ cpc \in CState
    /\ cont \in {"none", "init", "uninit"}
    /\ jidx \in 1 .. MaxSlots + 1
    /\ calls \in 0 .. MaxCalls
    /\ build \in Checked

-----------------------------------------------------------------------------
(* The pool life cycle.                                                    *)

\* initializeThreadPool(): a new pool with stop = false and threadCount_
\* workers started on workerThread.
InitPool(n) ==
    LET g == made + 1 IN
    /\ made < MaxPools
    /\ pool' = g /\ made' = g
    /\ size' = [size EXCEPT ![g] = n]
    /\ stop' = [stop EXCEPT ![g] = FALSE]
    /\ wpc' = [w \in Workers |-> IF w[1] = g /\ w[2] <= n THEN "check" ELSE wpc[w]]

\* The constructor of the singleton runs initialize().
Init ==
    /\ \E n \in HardwareThreads :
          /\ threadCount = n
          /\ size = [g \in Gens |-> IF g = 1 THEN n ELSE 0]
          /\ wpc = [w \in Workers |-> IF w[1] = 1 /\ w[2] <= n THEN "check" ELSE "unborn"]
    /\ initialized = TRUE
    /\ batchSize = DEFAULT_BATCH_SIZE
    /\ pool = 1 /\ made = 1
    /\ stop = [g \in Gens |-> FALSE]
    /\ holder = [g \in Gens |-> Free]
    /\ cpc = "idle" /\ cont = "none" /\ jidx = 1 /\ calls = 0
    /\ build \in Checked

\* Entry to cleanupThreadPool(): it returns at once when there is no pool.
BeginCleanup(then) ==
    IF pool = 0
    THEN cpc' = "idle" /\ cont' = "none"
    ELSE cpc' = "set_stop" /\ cont' = then

Call == cpc = "idle" /\ calls < MaxCalls /\ calls' = calls + 1

\* initialize(): a second call returns early; otherwise a new pool.
Initialize ==
    /\ Call
    /\ IF initialized
       THEN UNCHANGED <<build, initialized, pool, made, size, stop, wpc>>
       ELSE InitPool(threadCount) /\ initialized' = TRUE
    /\ UNCHANGED <<build, threadCount, batchSize, holder, cpc, cont, jidx>>

\* shutdown(): cleanupThreadPool(), then initialized_ = false.
Shutdown ==
    /\ Call
    /\ IF initialized
       THEN BeginCleanup("uninit")
       ELSE UNCHANGED <<build, cpc, cont>>
    /\ UNCHANGED <<build, initialized, threadCount, batchSize, pool, made, size, stop,
                   holder, wpc, jidx>>

\* Mutant: the range check on count dropped.
SetThreadCountUnchecked(n) ==
    /\ Call
    /\ threadCount' = n
    /\ IF initialized THEN BeginCleanup("init") ELSE UNCHANGED <<build, cpc, cont>>
    /\ UNCHANGED <<build, initialized, batchSize, pool, made, size, stop, holder, wpc, jidx>>

\* setThreadCount(count): out-of-range counts are ignored; otherwise the
\* count is stored and, if initialized, the pool is rebuilt.
SetThreadCount(n) ==
    /\ Call
    /\ IF n = 0 \/ n > MAX_THREADS
       THEN UNCHANGED <<build, threadCount, cpc, cont>>
       ELSE /\ threadCount' = n
            /\ IF initialized THEN BeginCleanup("init") ELSE UNCHANGED <<build, cpc, cont>>
    /\ UNCHANGED <<build, initialized, batchSize, pool, made, size, stop, holder, wpc, jidx>>

\* setBatchSize(size): zero is ignored.
SetBatchSize(n) ==
    /\ Call
    /\ batchSize' = IF n = 0 THEN batchSize ELSE n
    /\ UNCHANGED <<build, initialized, threadCount, pool, made, size, stop, holder,
                   wpc, cpc, cont, jidx>>

\* Mutant: stop set without taking the pool's mutex.
CSetStopUnlocked ==
    /\ cpc = "set_stop"
    /\ stop' = [stop EXCEPT ![pool] = TRUE]
    /\ cpc' = "notify"
    /\ UNCHANGED <<build, initialized, threadCount, batchSize, pool, made, size,
                   holder, wpc, cont, jidx, calls>>

\* cleanupThreadPool(), step 1: stop = true under the pool's mutex.
CSetStop ==
    /\ cpc = "set_stop" /\ holder[pool] = Free
    /\ stop' = [stop EXCEPT ![pool] = TRUE]
    /\ cpc' = "notify"
    /\ UNCHANGED <<build, initialized, threadCount, batchSize, pool, made, size,
                   holder, wpc, cont, jidx, calls>>

\* Step 2: condition.notify_all() wakes every worker asleep on the cv.
CNotify ==
    /\ cpc = "notify"
    /\ wpc' = [w \in Workers |-> IF w[1] = pool /\ wpc[w] = "sleep" THEN "check" ELSE wpc[w]]
    /\ cpc' = "join" /\ jidx' = 1
    /\ UNCHANGED <<build, initialized, threadCount, batchSize, pool, made, size, stop,
                   holder, cont, calls>>

\* Step 3: join threads[jidx]; join blocks until the worker has returned.
CJoin ==
    /\ cpc = "join" /\ jidx <= size[pool]
    /\ wpc[<<pool, jidx>>] = "exited"
    /\ wpc' = [wpc EXCEPT ![<<pool, jidx>>] = "joined"]
    /\ jidx' = jidx + 1
    /\ UNCHANGED <<build, initialized, threadCount, batchSize, pool, made, size, stop,
                   holder, cpc, cont, calls>>

\* Mutant: the join loop stops one thread short.
CResetEarly ==
    /\ cpc = "join" /\ jidx >= size[pool]
    /\ cpc' = "idle" /\ cont' = "none" /\ jidx' = 1
    /\ \/ cont = "init" /\ InitPool(threadCount) /\ UNCHANGED initialized
       \/ cont = "uninit" /\ initialized' = FALSE /\ pool' = 0
          /\ UNCHANGED <<build, made, size, stop, wpc>>
    /\ UNCHANGED <<build, threadCount, batchSize, holder, calls>>

\* Step 4: threads.clear(); threadPool_.reset(); then the caller goes on:
\* setThreadCount runs initializeThreadPool(), shutdown clears initialized_.
CReset ==
    /\ cpc = "join" /\ jidx > size[pool]
    /\ cpc' = "idle" /\ cont' = "none" /\ jidx' = 1
    /\ \/ cont = "init" /\ InitPool(threadCount) /\ UNCHANGED initialized
       \/ cont = "uninit" /\ initialized' = FALSE /\ pool' = 0
          /\ UNCHANGED <<build, made, size, stop, wpc>>
    /\ UNCHANGED <<build, threadCount, batchSize, holder, calls>>

\* workerThread(), wait predicate tested under the pool's mutex: with stop
\* set (and no tasks) the worker returns, else it stays in cv.wait.
WCheck(w) ==
    /\ wpc[w] = "check" /\ holder[w[1]] = Free
    /\ IF stop[w[1]]
       THEN wpc' = [wpc EXCEPT ![w] = "exited"] /\ UNCHANGED holder
       ELSE wpc' = [wpc EXCEPT ![w] = "holding"] /\ holder' = [holder EXCEPT ![w[1]] = w]
    /\ UNCHANGED <<build, initialized, threadCount, batchSize, pool, made, size, stop,
                   cpc, cont, jidx, calls>>

\* cv.wait releases the mutex and sleeps in one step.
WSleep(w) ==
    /\ wpc[w] = "holding"
    /\ wpc' = [wpc EXCEPT ![w] = "sleep"]
    /\ holder' = [holder EXCEPT ![w[1]] = Free]
    /\ UNCHANGED <<build, initialized, threadCount, batchSize, pool, made, size, stop,
                   cpc, cont, jidx, calls>>

Api ==
    \/ Initialize \/ Shutdown
    \/ \E n \in ThreadCounts : SetThreadCount(n)
    \/ \E n \in BatchSizes : SetBatchSize(n)
Cleanup == CSetStop \/ CNotify \/ CJoin \/ CReset
Worker(w) == WCheck(w) \/ WSleep(w)

Next == Api \/ Cleanup \/ \E w \in Workers : Worker(w)

\* Worker threads are OS threads; a call in progress is continued by its
\* thread.  Starting a call is up to the program, so Api has no fairness.
Spec == Init /\ [][Next]_vars /\ WF_vars(Cleanup) /\ \A w \in Workers : WF_vars(Worker(w))

-----------------------------------------------------------------------------
(* The kernels, in the element-access abstraction of module Kernels.      *)

\* x86_64 simdAdd: AVX float 8, double 4; the integral case loads and adds
\* 8 int32 lanes per __m256i but advances i by 16.
X86Add(t) == CASE t = "float" -> Geo(8, 8) [] t = "double" -> Geo(4, 4)
                [] t = "int" -> Geo(16, 8)
\* Mutant: the integral multiply loop advances by 16, as simdAdd does.
X86MultiplyStride16(t) == CASE t = "float" -> Geo(8, 8) [] t = "double" -> Geo(4, 4)
                             [] t = "int" -> Geo(16, 8)
\* x86_64 simdMultiply.
X86Multiply(t) == CASE t = "float" -> Geo(8, 8) [] t = "double" -> Geo(4, 4)
                     [] t = "int" -> Geo(8, 8)
\* x86_64 simdSum: lane sums in one register, tail, then temp[0..lanes-1].
X86Sum(t) == CASE t = "float" -> Geo(8, 8) [] t = "double" -> Geo(4, 4)
                 [] t = "int" -> Geo(8, 8)
\* x86_64 simdDotProduct: as simdSum over vec1[i] * vec2[i].
X86Dot(t) == CASE t = "float" -> Geo(8, 8) [] t = "double" -> Geo(4, 4)
                 [] t = "int" -> Geo(8, 8)
\* aarch64 simdAdd: NEON float 4, double 2, int32 4.
ArmAdd(t) == CASE t = "float" -> Geo(4, 4) [] t = "double" -> Geo(2, 2)
                 [] t = "int" -> Geo(4, 4)
\* aarch64 simdMultiply.
ArmMultiply(t) == CASE t = "float" -> Geo(4, 4) [] t = "double" -> Geo(2, 2)
                     [] t = "int" -> Geo(4, 4)
\* aarch64 simdSum.
ArmSum(t) == CASE t = "float" -> Geo(4, 4) [] t = "double" -> Geo(2, 2)
                 [] t = "int" -> Geo(4, 4)
\* aarch64 simdDotProduct.
ArmDot(t) == CASE t = "float" -> Geo(4, 4) [] t = "double" -> Geo(2, 2)
                 [] t = "int" -> Geo(4, 4)
\* The fallback kernels of a build with neither: plain loops.
NoSimd(t) == Scalar

SimdKernel(op, arch, t) ==
    CASE arch = "x86" -> (CASE op = "add" -> X86Add(t) [] op = "multiply" -> X86Multiply(t)
                            [] op = "sum" -> X86Sum(t) [] op = "dot" -> X86Dot(t))
      [] arch = "arm" -> (CASE op = "add" -> ArmAdd(t) [] op = "multiply" -> ArmMultiply(t)
                            [] op = "sum" -> ArmSum(t) [] op = "dot" -> ArmDot(t))
      [] arch = "none" -> NoSimd(t)

\* The header templates add, subtract, multiply, divide, sum, dotProduct:
\* count == 0 returns at once; subtract and divide are plain loops in
\* both branches; the others go to the SIMD kernel for count >= SIMD_WIDTH,
\* else a plain loop.
Dispatch(op, arch, t, n) ==
    IF n = 0 THEN None
    ELSE IF op \in {"subtract", "divide"} THEN Kernel(Scalar, n)
    ELSE IF n >= SIMD_WIDTH THEN Kernel(SimdKernel(op, arch, t), n)
    ELSE Kernel(Scalar, n)

\* matrixMultiply: returns when a dimension is 0, else writes
\* dst[i * cols2 + j] for each row i < rows1 and column j < cols2.
\* Mutant: the row stride taken from cols1.
MatrixMultiplyStrideCols1(rows1, cols1, cols2) ==
    IF rows1 * cols1 * cols2 = 0 THEN None
    ELSE Nest(rows1, cols2, cols1, 1)
MatrixMultiply(rows1, cols1, cols2) ==
    IF rows1 * cols1 * cols2 = 0 THEN None
    ELSE Nest(rows1, cols2, cols2, 1)

\* The loop bound srcSize - kernelSize + 1 in size_t: a negative difference
\* d wraps to 2^64 + d, beyond every index kept (and beyond TLC's integers),
\* so the loop is cut at the first index past the window.
ConvSteps(srcSize, kernelSize) ==
    LET d == srcSize - kernelSize + 1
    IN  IF d >= 0 THEN d ELSE MaxCount + Pad + 1
\* convolution: returns when a size is 0, else for i < ConvSteps reads
\* src[i + j] for j < kernelSize and writes dst[i].  Returns the touches
\* of dst and of src.
Convolution(srcSize, kernelSize) ==
    IF srcSize = 0 \/ kernelSize = 0 THEN [dst |-> None, src |-> None]
    ELSE LET steps == ConvSteps(srcSize, kernelSize)
         IN  [dst |-> Span(0, steps),
              src |-> Nest(steps, kernelSize, 1, 1)]
\* The sizes given to convolution.
ConvSizes == 0 .. 4

\* parallelFor: batches of min(batchSize_, count) elements,
\* ceil(count / batch) of them, batch i covering [i*batch, min(.., count)).
\* Mutant: numBatches = count / batchSize, rounding down.
BatchesFloor(bs, n) ==
    LET b == IF bs < n THEN bs ELSE n
    IN  {<<i * b, IF i * b + b < n THEN i * b + b ELSE n>> : i \in 0 .. n \div b - 1}
Batches(bs, n) ==
    LET b == IF bs < n THEN bs ELSE n
    IN  {<<i * b, IF i * b + b < n THEN i * b + b ELSE n>> : i \in 0 .. (n + b - 1) \div b - 1}
RECURSIVE SumSpans(_)
SumSpans(S) ==
    IF S = {} THEN None
    ELSE LET s == CHOOSE s \in S : TRUE IN Plus(Span(s[1], s[2]), SumSpans(S \ {s}))
ParallelFor(bs, n) == IF n = 0 THEN None ELSE SumSpans(Batches(bs, n))

\* parallelReduce: each batch folds its elements into `T result = T()`,
\* a value-initialized T of its own that holds nothing of init; the caller
\* folds the batch results into `result = init`.  Returns how often init,
\* a T() and each element enter the result: it is the fold of init and the
\* elements only for a func of which T() is an identity (0 for a sum, not
\* for a product or a minimum over positive values).
BatchSeed == [init |-> 0, seeds |-> 1, elems |-> None]
ReduceBatch(s) == [BatchSeed EXCEPT !.elems = Plus(@, Span(s[1], s[2]))]
RECURSIVE FoldBatches(_)
FoldBatches(S) ==
    IF S = {} THEN [init |-> 1, seeds |-> 0, elems |-> None]
    ELSE LET s == CHOOSE s \in S : TRUE
             r == FoldBatches(S \ {s})
         IN [init |-> r.init + ReduceBatch(s).init,
             seeds |-> r.seeds + ReduceBatch(s).seeds,
             elems |-> Plus(r.elems, ReduceBatch(s).elems)]
ParallelReduce(bs, n) ==
    IF n = 0 THEN [init |-> 0, seeds |-> 0, elems |-> None] ELSE FoldBatches(Batches(bs, n))

\* Whether each build's kernels touch every element as the reference does:
\* add, subtract, multiply, divide and matrixMultiply write each element of
\* dst and nothing beyond it; sum and dotProduct add each element exactly
\* once; convolution writes the srcSize - kernelSize + 1 outputs of a
\* valid convolution (none when the kernel is longer than the source) and
\* reads no element past src[srcSize - 1]; the driver kernels are checked
\* by DriverOk, the algebra routines of compute_ops.c by AlgebraOk, and the
\* integer, 4x4 matrix and alignment routines by ArithOk, and the hash,
\* Merkle, chain and fork routines of blockchain_ops.c by ChainOk, the
\* buffers by BufferOk, MemoryManager's allocator by MemOk, the server-pool
\* balancer by ServerOk, the socket flags of network_ops.c by SocketOk and
\* DistributedLedger's handlers and lifecycle by LedgerOk.
BuildOk(c) ==
        CASE c[1] \in {"add", "subtract", "multiply", "divide"} ->
                \A n \in 0 .. MaxCount : WritesExactly(Dispatch(c[1], c[2], c[3], n), n)
          [] c[1] \in {"sum", "dot"} ->
                \A n \in 0 .. MaxCount : Dispatch(c[1], c[2], c[3], n) = Once(n)
          [] c[1] = "matrixMultiply" ->
                \A s \in Shapes, cols1 \in 1 .. 2 :
                    WritesExactly(MatrixMultiply(s[1], cols1, s[2]), s[1] * s[2])
          [] c[1] = "convolution" ->
                \A s, k \in ConvSizes :
                    LET r == Convolution(s, k) IN
                    /\ WritesExactly(r.dst, IF s >= k /\ k > 0 THEN s - k + 1 ELSE 0)
                    /\ \A i \in Idx : r.src[i] > 0 => i < s
          [] c[1] \in DriverOps -> DriverOk(c[1], c[2])
          [] c[1] \in AlgebraOps -> AlgebraOk(c[1])
          [] c[1] \in ArithOps -> ArithOk(c[1], c[2])
          [] c[1] \in ChainOps -> ChainOk(c[1])
          [] c[1] \in BufferOpNames -> BufferOk(c[1])
          [] c[1] \in MemOps -> MemOk(c[1])
          [] c[1] \in ServerOps -> ServerOk(c[1])
          [] c[1] \in SocketOps -> SocketOk(c[1])
          [] c[1] \in LedgerOps -> LedgerOk(c[1])
\* The verdict on each build, as a set of pairs, which TLC computes once.
KernelOk == {<<c, BuildOk(c)>> : c \in Checked}

\* Whether, under each batch size, parallelFor applies func to each element
\* once and parallelReduce folds init once, each element once and one T()
\* per batch, ceil(n / min(b, n)) of them.
BatchOk ==
    [b \in {DEFAULT_BATCH_SIZE} \cup (BatchSizes \ {0}) |->
        \A n \in 1 .. MaxCount :
            LET bb == IF b < n THEN b ELSE n IN
            /\ ParallelFor(b, n) = Once(n)
            /\ ParallelReduce(b, n) = [init |-> 1, seeds |-> (n + bb - 1) \div bb,
                                       elems |-> Once(n)]]

-----------------------------------------------------------------------------
(* Properties.                                                             *)

\* cleanupThreadPool destroys a pool (threads.clear, threadPool_.reset)
\* only after every worker of that pool has returned from workerThread
\* and been joined: no worker is left running on a freed ThreadPool.
JoinedBeforeReset ==
    \A g \in 1 .. made : g # pool =>
        \A k \in 1 .. size[g] : wpc[<<g, k>>] = "joined"

\* Every shutdown or setThreadCount that enters cleanupThreadPool returns:
\* stop is set under the pool mutex, so it cannot fall between a worker's
\* test of the wait predicate and its sleep, and every join returns.
CleanupCompletes == cpc # "idle" ~> cpc = "idle"

\* For the build the program runs and every count, add and multiply write each
\* element of dst[0 .. count) and nothing beyond it, and sum and
\* dotProduct add each element into the result exactly once.
KernelsCorrect == <<build, TRUE>> \in KernelOk

\* Under the batch size last set by setBatchSize, parallelFor applies func
\* to each element exactly once, and parallelReduce folds init once, each
\* element once and one T() per batch.
BatchesCoverOnce == BatchOk[batchSize]

=============================================================================
