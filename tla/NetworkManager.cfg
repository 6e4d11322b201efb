\* Two clients, three calls each, of every public operation; two monitors:
\* a start() after a stop() while the first monitor is still looping.
SPECIFICATION Spec
CONSTANTS
    Clients = {c1, c2}
    NoOwner = NoOwner
    NumCores = 1
    TaskIds = {1}
    Ops = {"start", "stop", "pause", "resume", "connect", "disconnect", "transfer", "submit", "cancel"}
    MaxCalls = 3
    MaxStarts = 2
INVARIANT AtMostOneMonitor
CHECK_DEADLOCK FALSE
