\* Two clients each calling start and stop, nothing submitted: a stop that
\* runs while the other client's start is still creating threads.
CONSTANTS
    NumCores = 2
    Txs = {}
    Blocks = {}
    Clients = {c1, c2}
    Ops = {"start", "stop"}
    MaxCalls = 2
    MaxFailures = 0
    NoItem = NoItem
    NoCore = NoCore
SPECIFICATION Spec
CHECK_DEADLOCK FALSE
INVARIANT NoTerminate
