\* core_buffer_write on a buffer of capacity 0 (which never returns),
\* core_buffer_clone (which leaves dest pointing to freed memory) and
\* MemoryManager::reallocate (which keeps neither the bytes nor frees the block).
SPECIFICATION Spec
CONSTANTS
    MAX_THREADS = 256
    HardwareThreads = {2}
    ThreadCounts = {1}
    BatchSizes = {3}
    DEFAULT_BATCH_SIZE = 1024
    MaxPools = 2
    MaxCalls = 1
    Checked <- MCCheckedBuffer
    MaxCount = 17
INVARIANT KernelsCorrect
CHECK_DEADLOCK FALSE
