\* The SIMD and assembly builds left out of cm_pool: the AVX2 and NEON builds of
\* compute_ops.c and core_matrix_multiply_4x4, the x86_64 and aarch64 builds
\* of MemoryManager::zero and copy, the x86_64 integral simdAdd and the
\* x86_64 core_fast_memcpy, which returns dest + n.
SPECIFICATION Spec
CONSTANTS
    MAX_THREADS = 256
    HardwareThreads = {2}
    ThreadCounts = {1}
    BatchSizes = {3}
    DEFAULT_BATCH_SIZE = 1024
    MaxPools = 2
    MaxCalls = 1
    Checked <- MCCheckedComputeSimd
    MaxCount = 17
INVARIANT KernelsCorrect
CHECK_DEADLOCK FALSE
