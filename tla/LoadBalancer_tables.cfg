\* Two clients calling every public operation, with the monitor running.
\* The code deadlocks (see LoadBalancer_monitor.cfg and
\* LoadBalancer_abba.cfg), so a state with no successor is expected here.
CONSTANTS
    Clients = {c1, c2}
    Monitor = mon
    WithMonitor = TRUE
    NumCores = 2
    Usage = {0, 90}
    Payloads = {pa}
    AssignedCores = {0, NoCore}
    Ops = {"submit", "cancel", "update", "mark", "adjust", "rebalance", "optimize", "pause", "resume", "stop"}
    MaxCalls = 2
    NoOwner = NoOwner
    NoCore = NoCore
SPECIFICATION Spec
CHECK_DEADLOCK FALSE
INVARIANT TypeOK SelectionIsLeastLoaded
