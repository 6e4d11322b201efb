\* The compute_ops.c checks that fail: AlgebraFailing.
SPECIFICATION Spec
CONSTANTS
    MAX_THREADS = 256
    HardwareThreads = {2}
    ThreadCounts = {1}
    BatchSizes = {3}
    DEFAULT_BATCH_SIZE = 1024
    MaxPools = 2
    MaxCalls = 1
    Checked <- MCCheckedComputeOps
    MaxCount = 17
INVARIANT KernelsCorrect
CHECK_DEADLOCK FALSE
