\* The pool life cycle with one API thread, and the kernels of every build
\* but the x86_64 integral add.
SPECIFICATION Spec
CONSTANTS
    MAX_THREADS = 256
    HardwareThreads = {0, 2}
    ThreadCounts = {0, 1, 257}
    BatchSizes = {0, 3}
    DEFAULT_BATCH_SIZE = 1024
    MaxPools = 5
    MaxCalls = 4
    Checked <- MCCheckedGood
    MaxCount = 40
INVARIANT TypeOK JoinedBeforeReset KernelsCorrect BatchesCoverOnce
PROPERTY CleanupCompletes
CHECK_DEADLOCK FALSE
