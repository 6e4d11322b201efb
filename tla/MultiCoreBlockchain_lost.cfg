\* The configuration of MultiCoreBlockchain.cfg, checking that nothing
\* submitted is lost.
CONSTANTS
    NumCores = 2
    Txs = {x1, x2}
    Blocks = {b1}
    Clients = {c1}
    Ops = {"start", "stop", "submit"}
    MaxCalls = 5
    MaxFailures = 1
    NoItem = NoItem
    NoCore = NoCore
SPECIFICATION Spec
CHECK_DEADLOCK FALSE
INVARIANT NothingLost
