\* loadbalancer::LoadBalancer: the weighted pick with weight 0, the weighted
\* shares against the weights servers were added with, and the health thread.
SPECIFICATION Spec
CONSTANTS
    MAX_THREADS = 256
    HardwareThreads = {2}
    ThreadCounts = {1}
    BatchSizes = {3}
    DEFAULT_BATCH_SIZE = 1024
    MaxPools = 2
    MaxCalls = 1
    Checked <- MCCheckedServerPool
    MaxCount = 17
INVARIANT KernelsCorrect
CHECK_DEADLOCK FALSE
