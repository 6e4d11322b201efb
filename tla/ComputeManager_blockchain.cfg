\* The Merkle proof, chain and fork routines of blockchain_ops.c alone.
SPECIFICATION Spec
CONSTANTS
    MAX_THREADS = 256
    HardwareThreads = {2}
    ThreadCounts = {1}
    BatchSizes = {3}
    DEFAULT_BATCH_SIZE = 1024
    MaxPools = 2
    MaxCalls = 1
    Checked <- MCCheckedBlockchain
    MaxCount = 17
INVARIANT KernelsCorrect
CHECK_DEADLOCK FALSE
