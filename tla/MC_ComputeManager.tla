-------------------------- MODULE MC_ComputeManager --------------------------
(* Kernel builds for checking ComputeManager with TLC.  A build is          *)
(* <<op, arch, type>>; the operations that do not depend on the             *)
(* architecture or the element type are checked once, as <<op, "none",     *)
(* "float">>.                                                               *)
EXTENDS ComputeManager

Ops   == {"add", "multiply", "sum", "dot"}
Types == {"float", "double", "int"}
Plain == {"subtract", "divide", "matrixMultiply"}
\* memory_ops.c and math_ops.c: a vector loop with a scalar tail;
\* MemoryManager::move and core_vector_sin and cos: no vector loop.
TailedDriverOps == {"memcpy", "memset", "memzero", "vsqrt", "vrsqrt", "mmmove",
                    "vsin", "vcos"}
\* compute_ops.c and MemoryManager::zero and copy: vector loops with no
\* tail; core_fast_memcpy: rep movsb on x86_64.
UntailedDriverOps == DriverOps \ TailedDriverOps
One(S) == S \X {"none"} \X {"float"}
\* core_compute_matrix_to_quaternion on the matrices of
\* core_compute_quaternion_to_matrix, the ray queries against hits behind
\* the origin, the B-spline point against the convex hull of its control
\* points and the derivative against the point, and the fractal noise of
\* 0 octaves.
AlgebraFailing == {"m2q", "raybehind", "bsplinehull", "bsplined", "noisenan"}

\* Every build except the x86_64 integral simdAdd, the convolution, the
\* SIMD builds of compute_ops.c, of MemoryManager::zero and copy and of
\* core_matrix_multiply_4x4,
\* the compute_ops.c checks of AlgebraFailing, the comparison of core_fast_div with C's / and
\* the Merkle proof, chain and fork routines of blockchain_ops.c, its
\* key pair routines, signature bytes and transaction destroy, and
\* the x86_64 core_fast_memcpy, core_buffer_write from capacity 0,
\* core_buffer_clone,
\* MemoryManager::reallocate, and the server pool's weight-0, config-weight
\* and health-thread checks, and the ledger's whole-block, pool and
\* throwing-stop checks.
MCCheckedGood ==
    ((Ops \X Archs \X Types) \ {<<"add", "x86", "int">>})
        \cup One(Plain) \cup (TailedDriverOps \X Archs \X {"float"})
        \cup One(UntailedDriverOps) \cup One(AlgebraOps \ AlgebraFailing)
        \cup One({"fastdivmod", "mat4mul", "align"})
        \cup ({"mat4transpose"} \X {"arm", "none"} \X {"float"})
        \cup One({"verifyhash", "merkleroot", "keyfrees", "blockmem", "mine"})
        \cup One(BufferOpNames \ {"bufwrite0", "bufclone"}) \cup One({"mmalloc"})
        \cup One({"spselect", "nonblock"}) \cup {<<"fastmemcpy", "arm", "float">>}
        \cup One({"ledorder", "ledlife"})
\* The convolution template alone.
MCCheckedConvolution == One({"convolution"})
\* The SIMD and assembly builds left out of MCCheckedGood: the AVX2 and NEON
\* builds of compute_ops.c and of core_matrix_multiply_4x4, the x86_64 and
\* aarch64 builds of MemoryManager::zero and copy, the x86_64 integral
\* simdAdd and the x86_64 core_fast_memcpy.
MCCheckedComputeSimd ==
    ((UntailedDriverOps \cup {"mat4mul"}) \X {"x86", "arm"} \X {"float"})
        \cup {<<"add", "x86", "int">>}
\* The compute_ops.c checks of AlgebraFailing.
MCCheckedComputeOps == One(AlgebraFailing)
\* core_fast_div and core_fast_mod against C's / and %.
MCCheckedFastDivC == One({"fastdiv_c"})
\* core_blockchain_verify_merkle_proof, core_blockchain_verify_chain,
\* core_blockchain_find_fork, the key pair and public key routines, the
\* signature bytes and core_transaction_destroy; DistributedLedger's
\* application of whole blocks, its pool against its state, and its
\* shutdown when a stop() throws.
MCCheckedBlockchain ==
    One({"merkleproof", "verifychain", "findfork", "keyuse", "sigpad", "txlife",
         "ledwhole", "ledpool", "ledstop"})
\* core_buffer_write on a buffer of capacity 0, core_buffer_clone and
\* MemoryManager::reallocate.
MCCheckedBuffer == One({"bufwrite0", "bufclone", "mmrealloc"})
\* loadbalancer::LoadBalancer with a weight of 0, against the weights its
\* servers were added with, and its health thread.
MCCheckedServerPool == One({"spzero", "spconfig", "sphealth"})
=============================================================================
