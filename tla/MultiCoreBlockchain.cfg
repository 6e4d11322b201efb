\* Two cores, one client starting, submitting two transactions and a block,
\* and stopping, one failure: does a worker's pop find the item its empty()
\* test saw?
CONSTANTS
    NumCores = 2
    Txs = {x1, x2}
    Blocks = {b1}
    Clients = {c1}
    Ops = {"start", "stop", "submit"}
    MaxCalls = 5
    MaxFailures = 1
    NoItem = NoItem
    NoCore = NoCore
SPECIFICATION Spec
CHECK_DEADLOCK FALSE
INVARIANT NoEmptyPop
