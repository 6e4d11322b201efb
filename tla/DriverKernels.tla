---------------------------- MODULE DriverKernels ----------------------------
(***************************************************************************)
(* The vector kernels of compute::ComputeManager                           *)
(* (src/src/compute/compute_manager.cpp) and of the C drivers in           *)
(* src/src/core/drivers, in one element-access abstraction.  A call's      *)
(* effect on one array is a function from element index to the number of  *)
(* times the call touched that element: written, for a kernel that stores *)
(* into dst; added into the result, for a reduction.  The arithmetic is    *)
(* left out: whether each element is touched as often as the reference    *)
(* says, and none past its end, is what decides whether the result is     *)
(* right and the call memory-safe.  A SIMD loop is abstracted to its       *)
(* geometry: how far i advances per step (stride) and how many elements    *)
(* from i the body loads or stores (lanes).                                *)
(*                                                                         *)
(* The second part gives the driver kernels their geometry: memory_ops.c   *)
(* (core_memcpy_aligned, core_memset_aligned, core_memzero_aligned),       *)
(* math_ops.c (core_vector_sqrt, core_vector_rsqrt) and compute_ops.c      *)
(* (the vector and matrix operations).  Each is compiled one of three      *)
(* ways, by `#if defined(__AVX2__)`, `#elif defined(__ARM_NEON)` and      *)
(* `#else`; arch "x86", "arm" and "none" name the three builds.  Also the  *)
(* byte loops of memory::MemoryManager (src/src/memory), whose builds are *)
(* chosen by __x86_64__ and __aarch64__.                                   *)
(***************************************************************************)
EXTENDS Integers, FiniteSets, Sequences, TLC

CONSTANT MaxCount      \* largest element count given to a kernel

ASSUME MaxCount \in Nat

\* Indices up to MaxCount + Pad are kept, so that a touch past the end of
\* an array of MaxCount elements by a vector of up to Pad lanes is seen.
Pad == 32
Idx == 0 .. MaxCount + Pad

None == [k \in Idx |-> 0]
\* The reference: every element of 0 .. n-1 exactly once.
Once(n) == [k \in Idx |-> IF k < n THEN 1 ELSE 0]
Plus(f, g) == [k \in Idx |-> f[k] + g[k]]
Span(lo, hi) == [k \in Idx |-> IF lo <= k /\ k < hi THEN 1 ELSE 0]
\* A store kernel's reference: it writes every element of dst[0 .. n) and
\* nothing beyond it.
WritesExactly(r, n) == \A k \in Idx : (r[k] > 0) <=> (k < n)

Geo(stride, lanes) == [stride |-> stride, lanes |-> lanes]
\* A plain loop over all elements, one per step.
Scalar == Geo(0, 0)

\* The vector loop `for (; i + stride <= count; i += stride)` from i, whose
\* body touches lanes elements from i.
RECURSIVE VectorLoop(_, _, _)
VectorLoop(g, n, i) ==
    IF g.stride > 0 /\ i + g.stride <= n
    THEN Plus(Span(i, i + g.lanes), VectorLoop(g, n, i + g.stride))
    ELSE None
\* Where the vector loop leaves i for the tail loop `for (; i < count; ++i)`.
TailStart(g, n) == IF g.stride > 0 THEN (n \div g.stride) * g.stride ELSE 0
\* A vector loop followed by its scalar tail.
Kernel(g, n) == Plus(VectorLoop(g, n, 0), Span(TailStart(g, n), n))

\* The loop `for (i = 0; i < count; i += stride)` with no tail, whose body
\* touches lanes elements from base + i: the last step runs whenever
\* i < count, however few elements remain.
RECURSIVE StridedLoop(_, _, _, _)
StridedLoop(g, base, n, i) ==
    IF i < n
    THEN Plus(Span(base + i, base + i + g.lanes), StridedLoop(g, base, n, i + g.stride))
    ELSE None

\* The loop nest `for (i < rows) for (j < cols)` whose body touches the
\* element at i * di + j * dj: the row-major and column-major walks of the
\* matrix kernels.
Nest(rows, cols, di, dj) ==
    [k \in Idx |-> Cardinality({p \in (0 .. rows - 1) \X (0 .. cols - 1) :
                                    p[1] * di + p[2] * dj = k})]

-----------------------------------------------------------------------------

Archs == {"x86", "arm", "none"}

\* memory_ops.c: 32-byte AVX2 or 16-byte NEON stores while i + width <= n,
\* then a byte loop for the rest; the fallback is a byte loop.
MemGeo(arch) == CASE arch = "x86" -> Geo(32, 32)
                  [] arch = "arm" -> Geo(16, 16)
                  [] arch = "none" -> Scalar
MemcpyAligned(arch, n) == Kernel(MemGeo(arch), n)
MemsetAligned(arch, n) == Kernel(MemGeo(arch), n)
MemzeroAligned(arch, n) == MemsetAligned(arch, n)

\* math_ops.c core_vector_sqrt and core_vector_rsqrt: 8 floats per AVX
\* step, 4 per NEON step while i + width <= n, then a scalar tail.
MathGeo(arch) == CASE arch = "x86" -> Geo(8, 8)
                   [] arch = "arm" -> Geo(4, 4)
                   [] arch = "none" -> Scalar
VectorSqrt(arch, n) == Kernel(MathGeo(arch), n)
VectorRsqrt(arch, n) == Kernel(MathGeo(arch), n)
\* core_vector_sin and core_vector_cos: the fallback loop, one element per
\* step (their AVX2 and NEON paths pass a loop counter where an immediate
\* is required and do not compile).
VectorSin(n) == Kernel(Scalar, n)
VectorCos(n) == Kernel(Scalar, n)

\* fast_memcpy.c core_fast_memcpy: the bytes copied and the offset from
\* dest of the pointer returned.  On x86_64 `rep movsb` copies n bytes and
\* advances rdi by n; the "=D"(dest) output stores rdi back into dest, so
\* dest + n is returned.  The other builds copy byte by byte and return
\* dest.
FastMemcpy(arch, n) ==
    [copied |-> IF arch = "x86" THEN Span(0, n) ELSE Kernel(Scalar, n),
     ret |-> IF arch = "x86" THEN n ELSE 0]

\* compute_ops.c: every vector loop is `for (i = 0; i < size; i += W)`
\* storing W floats from i, with no tail: W is 8 (AVX), 4 (NEON) or 1.
ComputeGeo(arch) == CASE arch = "x86" -> Geo(8, 8)
                      [] arch = "arm" -> Geo(4, 4)
                      [] arch = "none" -> Geo(1, 1)
VectorAdd(arch, n) == StridedLoop(ComputeGeo(arch), 0, n, 0)
VectorSub(arch, n) == StridedLoop(ComputeGeo(arch), 0, n, 0)
VectorMul(arch, n) == StridedLoop(ComputeGeo(arch), 0, n, 0)
VectorDiv(arch, n) == StridedLoop(ComputeGeo(arch), 0, n, 0)
VectorScale(arch, n) == StridedLoop(ComputeGeo(arch), 0, n, 0)
\* The lane sums are stored to temp[] and every lane of it is added.
VectorDot(arch, n) == StridedLoop(ComputeGeo(arch), 0, n, 0)
VectorLength(n) == Kernel(Scalar, n)
\* normalize scales in place when the length is positive, else leaves the
\* vector alone: the set of the writes it may make.
VectorNormalize(arch, n) == {None, VectorScale(arch, n)}
MatrixAdd(arch, rows, cols) == VectorAdd(arch, rows * cols)
MatrixSub(arch, rows, cols) == VectorSub(arch, rows * cols)

\* core_compute_matrix_mul: for each row i, the column loop
\* `for (j = 0; j < b_cols; j += W)` stores W floats at result[i*b_cols + j].
RECURSIVE MatrixRows(_, _, _, _)
MatrixRows(g, rows, bcols, i) ==
    IF i < rows
    THEN Plus(StridedLoop(g, i * bcols, bcols, 0), MatrixRows(g, rows, bcols, i + 1))
    ELSE None
MatrixMul(arch, rows, bcols) == MatrixRows(ComputeGeo(arch), rows, bcols, 0)

\* Mutant: the row stride of the result taken from cols.
MatrixTransposeColStride(rows, cols) == Nest(rows, cols, 1, cols)
\* core_compute_matrix_transpose writes result[j * rows + i].
MatrixTranspose(rows, cols) == Nest(rows, cols, 1, rows)

\* MemoryManager::zero and MemoryManager::copy: nothing for a null pointer
\* or size 0; from 16 bytes the x86_64 and aarch64 builds store 16 bytes
\* at every i < size, stepping by 16, with no tail; below 16 bytes and in
\* other builds std::memset or std::memcpy.
MMZero(arch, n) ==
    IF arch # "none" /\ n >= 16 THEN StridedLoop(Geo(16, 16), 0, n, 0) ELSE Kernel(Scalar, n)
MMCopy(arch, n) == MMZero(arch, n)
\* MemoryManager::move is std::memmove in every build.
MMMove(n) == Kernel(Scalar, n)

-----------------------------------------------------------------------------
(* The allocator of memory::MemoryManager (memory_manager.cpp).  A         *)
(* manager is [pools, map, live, bad, data, next, initialized]: pools the  *)
(* block vectors of pools_, each block [ptr, size, isUsed]; map blockMap_, *)
(* from a pointer to the <<pool, index>> of its block; live the pointers   *)
(* posix_memalign returned that free has not released; bad the pointers   *)
(* freed while not live; data[p] the bytes at p; next the next fresh       *)
(* address.  Every public call holds mutex_ for its body.  getFromCache    *)
(* returns nullptr and putToCache does nothing (TODO stubs); the stats,   *)
(* lastAccess and the per-pool mutexes, taken only under mutex_, are left  *)
(* out.  A call that never returns has no outcome.                         *)
MAX_BLOCK_SIZE == 1024 * 1024
MMNull == <<"mmnull", 0>>
MMUndef == "mmundef"
NoBlock == <<0, 0>>
MMEmpty == [pools |-> <<>>, map |-> [q \in {} |-> NoBlock], live |-> {}, bad |-> {},
            data |-> [q \in {} |-> <<>>], next |-> 1, initialized |-> FALSE]

\* allocateAligned: posix_memalign fails (nullptr) or returns a fresh
\* block of size unwritten bytes.  deallocateAligned: free.
AllocateAligned(m, n) ==
    LET p == <<"heap", m.next>> IN
    {[m |-> m, ret |-> MMNull],
     [m |-> [m EXCEPT !.live = @ \cup {p}, !.data = (p :> [i \in 1 .. n |-> MMUndef]) @@ @,
                      !.next = @ + 1], ret |-> p]}
DeallocateAligned(m, p) ==
    IF p \in m.live THEN [m EXCEPT !.live = @ \ {p}] ELSE [m EXCEPT !.bad = @ \cup {p}]

\* initializePools pushes four empty pools; cleanupPools frees every
\* block's pointer and clears pools_ and blockMap_.
InitializePools(m) == [m EXCEPT !.pools = [i \in 1 .. 4 |-> <<>>]]
CleanupPools(m) ==
    LET ps == UNION {{m.pools[i][j].ptr : j \in DOMAIN m.pools[i]} : i \in DOMAIN m.pools} \ {MMNull}
    IN [m EXCEPT !.live = @ \ ps, !.bad = @ \cup (ps \ m.live), !.pools = <<>>,
                 !.map = [q \in {} |-> NoBlock]]

\* initialize: nothing when initialized_; else initializePools, or its
\* push_back throws and cleanupPools runs before the rethrow.  shutdown:
\* nothing unless initialized_, else cleanupPools.
MMInitialize(m) ==
    IF m.initialized THEN {m}
    ELSE {[InitializePools(m) EXCEPT !.initialized = TRUE], CleanupPools(m)}
MMShutdown(m) == IF m.initialized THEN [CleanupPools(m) EXCEPT !.initialized = FALSE] ELSE m

\* findFreeBlock: the first unused block, pool by pool, at least size
\* bytes long.  defragment sorts each pool's blocks by address, leaving
\* blockMap_'s block pointers aimed at whatever block now sits there.
FindFreeBlock(m, n) ==
    LET fit == {<<i, j>> \in UNION {{i} \X DOMAIN m.pools[i] : i \in DOMAIN m.pools} :
                    ~m.pools[i][j].isUsed /\ m.pools[i][j].size >= n}
    IN IF fit = {} THEN NoBlock
       ELSE CHOOSE b \in fit : \A c \in fit : b[1] < c[1] \/ (b[1] = c[1] /\ b[2] <= c[2])
SortedByPtr(s) ==
    [k \in DOMAIN s |-> CHOOSE b \in {s[j] : j \in DOMAIN s} :
                            Cardinality({j \in DOMAIN s : s[j].ptr[2] < b.ptr[2]}) = k - 1]
Defragment(m) == [m EXCEPT !.pools = [i \in DOMAIN @ |-> SortedByPtr(@[i])]]

\* allocate(size): nullptr for 0; past MAX_BLOCK_SIZE, or when no pool
\* block fits even after defragment, allocateAligned; else the block is
\* marked used and entered in blockMap_.
Allocate(m, n) ==
    LET m1 == IF FindFreeBlock(m, n) = NoBlock THEN Defragment(m) ELSE m
        b == FindFreeBlock(m1, n)
    IN IF n = 0 THEN {[m |-> m, ret |-> MMNull]}
       ELSE IF n > MAX_BLOCK_SIZE THEN AllocateAligned(m, n)
       ELSE IF b = NoBlock THEN AllocateAligned(m1, n)
       ELSE {[m |-> [m1 EXCEPT !.pools[b[1]][b[2]].isUsed = TRUE,
                               !.map = (m1.pools[b[1]][b[2]].ptr :> b) @@ @],
              ret |-> m1.pools[b[1]][b[2]].ptr]}

\* deallocate(ptr): nothing for nullptr; a pool block is marked unused
\* and erased from blockMap_; any other pointer goes to free.
Deallocate(m, p) ==
    IF p = MMNull THEN m
    ELSE IF p \in DOMAIN m.map
         THEN [m EXCEPT !.pools[m.map[p][1]][m.map[p][2]].isUsed = FALSE,
                        !.map = [q \in DOMAIN @ \ {p} |-> @[q]]]
         ELSE DeallocateAligned(m, p)

\* reallocate(ptr, newSize): allocate for nullptr, deallocate for 0; a
\* pool block that is large enough is returned as it is; for a larger one
\* the thread holding mutex_ locks it again, in allocate or, past
\* MAX_BLOCK_SIZE, in the deallocate after a successful allocateAligned,
\* and never returns; any other pointer gets a fresh allocateAligned
\* block, with nothing copied and nothing freed.
Reallocate(m, p, n) ==
    IF p = MMNull THEN Allocate(m, n)
    ELSE IF n = 0 THEN {[m |-> Deallocate(m, p), ret |-> MMNull]}
    ELSE IF p \in DOMAIN m.map
         THEN IF n <= m.pools[m.map[p][1]][m.map[p][2]].size THEN {[m |-> m, ret |-> p]}
              ELSE IF n > MAX_BLOCK_SIZE THEN {o \in AllocateAligned(m, n) : o.ret = MMNull}
              ELSE {}
    ELSE AllocateAligned(m, n)

\* The singleton after its constructor (a throwing initialize leaves no
\* instance), and a caller writing the bytes w into what it was given.
Managers == {x \in MMInitialize(MMEmpty) : x.initialized}
MMWrite(m, p, w) == [m EXCEPT !.data[p] = w]
MMBytes(n) == [1 .. n -> {"a", "b"}]
MinN(x, y) == IF x < y THEN x ELSE y
MemOps == {"mmalloc", "mmrealloc"}

\* mmalloc: what allocate, or reallocate of nullptr, returns is a block of
\* at least the bytes asked for, and deallocate, or reallocate to size 0,
\* frees it with nothing left allocated and nothing freed twice; shutdown
\* frees every pool.  mmrealloc: reallocate of a block the caller wrote
\* returns (or fails with nullptr) a block that starts with the bytes the
\* old one held, and the old one is freed.
MemOk(op) ==
    CASE op = "mmalloc" ->
            \A m0 \in Managers, n \in 0 .. 3 :
                /\ \A o \in Allocate(m0, n) \cup Reallocate(m0, MMNull, n) :
                       /\ o.ret # MMNull => Len(o.m.data[o.ret]) >= n
                       /\ Deallocate(o.m, o.ret).live = {}
                       /\ Deallocate(o.m, o.ret).bad = {}
                       /\ \A r \in Reallocate(o.m, o.ret, 0) : r.m.live = {} /\ r.m.bad = {}
                /\ MMShutdown(m0).live = {} /\ MMShutdown(m0).pools = <<>>
      [] op = "mmrealloc" ->
            \A m0 \in Managers, n \in 1 .. 2, k \in 1 .. 3, w \in MMBytes(2) :
                \A o \in Allocate(m0, n) : o.ret # MMNull =>
                    LET m1 == MMWrite(o.m, o.ret, SubSeq(w, 1, n)) IN
                    /\ Reallocate(m1, o.ret, k) # {}
                    /\ \A r \in Reallocate(m1, o.ret, k) : r.ret # MMNull =>
                           /\ SubSeq(r.m.data[r.ret], 1, MinN(n, k)) = SubSeq(w, 1, MinN(n, k))
                           /\ Deallocate(r.m, r.ret).live = {}
-----------------------------------------------------------------------------
DriverOps == {"memcpy", "memset", "memzero", "vsqrt", "vrsqrt",
              "vadd", "vsub", "vmul", "vdiv", "vscale", "vdot", "vlength",
              "vnormalize", "madd", "msub", "mmul", "mtranspose",
              "mmzero", "mmcopy", "mmmove", "vsin", "vcos", "fastmemcpy"}

\* Matrix shapes of at most MaxCount elements.
Shapes == {s \in (0 .. MaxCount) \X (0 .. MaxCount) : s[1] * s[2] <= MaxCount}

\* Whether the arch build of op touches each array as the reference does,
\* for every count (or shape) up to MaxCount: each store kernel writes
\* every element of its destination and nothing beyond it; dot and length
\* add each element once; transpose writes each element once; and
\* core_fast_memcpy copies each byte once and returns dest.
DriverOk(op, arch) ==
    CASE op = "memcpy" -> \A n \in 0 .. MaxCount : MemcpyAligned(arch, n) = Once(n)
      [] op = "memset" -> \A n \in 0 .. MaxCount : MemsetAligned(arch, n) = Once(n)
      [] op = "memzero" -> \A n \in 0 .. MaxCount : MemzeroAligned(arch, n) = Once(n)
      [] op = "vsqrt" -> \A n \in 0 .. MaxCount : VectorSqrt(arch, n) = Once(n)
      [] op = "vrsqrt" -> \A n \in 0 .. MaxCount : VectorRsqrt(arch, n) = Once(n)
      [] op = "vadd" -> \A n \in 0 .. MaxCount : WritesExactly(VectorAdd(arch, n), n)
      [] op = "vsub" -> \A n \in 0 .. MaxCount : WritesExactly(VectorSub(arch, n), n)
      [] op = "vmul" -> \A n \in 0 .. MaxCount : WritesExactly(VectorMul(arch, n), n)
      [] op = "vdiv" -> \A n \in 0 .. MaxCount : WritesExactly(VectorDiv(arch, n), n)
      [] op = "vscale" -> \A n \in 0 .. MaxCount : WritesExactly(VectorScale(arch, n), n)
      [] op = "vdot" -> \A n \in 0 .. MaxCount : VectorDot(arch, n) = Once(n)
      [] op = "vlength" -> \A n \in 0 .. MaxCount : VectorLength(n) = Once(n)
      [] op = "vnormalize" -> \A n \in 0 .. MaxCount : \A r \in VectorNormalize(arch, n) :
                                  r = None \/ WritesExactly(r, n)
      [] op = "madd" -> \A s \in Shapes : WritesExactly(MatrixAdd(arch, s[1], s[2]), s[1] * s[2])
      [] op = "msub" -> \A s \in Shapes : WritesExactly(MatrixSub(arch, s[1], s[2]), s[1] * s[2])
      [] op = "mmul" -> \A s \in Shapes : WritesExactly(MatrixMul(arch, s[1], s[2]), s[1] * s[2])
      [] op = "mmzero" -> \A n \in 0 .. MaxCount : MMZero(arch, n) = Once(n)
      [] op = "mmcopy" -> \A n \in 0 .. MaxCount : MMCopy(arch, n) = Once(n)
      [] op = "mmmove" -> \A n \in 0 .. MaxCount : MMMove(n) = Once(n)
      [] op = "vsin" -> \A n \in 0 .. MaxCount : VectorSin(n) = Once(n)
      [] op = "vcos" -> \A n \in 0 .. MaxCount : VectorCos(n) = Once(n)
      [] op = "fastmemcpy" -> \A n \in 0 .. MaxCount :
                                  FastMemcpy(arch, n) = [copied |-> Once(n), ret |-> 0]
      [] op = "mtranspose" -> \A s \in Shapes : MatrixTranspose(s[1], s[2]) = Once(s[1] * s[2])


-----------------------------------------------------------------------------
\* network_ops.c on POSIX: a socket's file status flags, as the set of the
\* flags set (O_NONBLOCK and one other).
FileFlags == SUBSET {"O_NONBLOCK", "O_APPEND"}

\* core_socket_set_nonblocking: F_GETFL, which may fail (-1); the flags with
\* O_NONBLOCK set or cleared as nonblocking is nonzero or not; F_SETFL,
\* which may fail and leave the flags, or set them and return 0.
SetNonblocking(fl, nb) ==
    LET new == IF nb # 0 THEN fl \cup {"O_NONBLOCK"} ELSE fl \ {"O_NONBLOCK"}
    IN  {[ret |-> -1, fl |-> fl], [ret |-> 0, fl |-> new]}

\* core_socket_is_nonblocking: -1 if F_GETFL fails, else whether
\* O_NONBLOCK is set.
IsNonblocking(fl) == {-1, IF "O_NONBLOCK" \in fl THEN 1 ELSE 0}

\* After set_nonblocking(s, nb) returns 0, is_nonblocking(s) reports nb
\* (or fails) and every other flag is as before; after it returns -1 the
\* flags are as before.
SocketOps == {"nonblock"}
SocketOk(op) ==
    \A fl \in FileFlags, nb \in {0, 1, 2} : \A o \in SetNonblocking(fl, nb) :
        IF o.ret = 0
        THEN /\ IsNonblocking(o.fl) \subseteq {-1, IF nb # 0 THEN 1 ELSE 0}
             /\ o.fl \ {"O_NONBLOCK"} = fl \ {"O_NONBLOCK"}
        ELSE o.fl = fl
=============================================================================
