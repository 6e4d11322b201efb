\* The monitor thread alone, on a fleet of two cores: its first tick.
CONSTANTS
    Clients = {}
    Monitor = mon
    WithMonitor = TRUE
    NumCores = 2
    AssignedCores = {NoCore}
    Ops = {}
    MaxCalls = 0
    Usage = {0, 90}
    Payloads = {pa, pb}
    NoOwner = NoOwner
    NoCore = NoCore
SPECIFICATION Spec
INVARIANT NoDeadlock
