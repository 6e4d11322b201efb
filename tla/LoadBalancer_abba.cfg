\* Two clients, no monitor: submit_task against rebalance_load, with tasks
\* that name no core (so redistribute_tasks never relocks metrics itself).
CONSTANTS
    Clients = {c1, c2}
    Monitor = mon
    WithMonitor = FALSE
    NumCores = 1
    AssignedCores = {NoCore}
    Ops = {"submit", "update", "rebalance"}
    MaxCalls = 2
    Usage = {0, 90}
    Payloads = {pa, pb}
    NoOwner = NoOwner
    NoCore = NoCore
SPECIFICATION Spec
INVARIANT NoDeadlock
