\* Two cores, one client submitting, pausing, resuming and stopping, one
\* failed integrity check: a stop() clearing core 0 while its worker is in
\* the drain loop and core 1's worker redistributes.
CONSTANTS
    NumCores = 2
    Tasks = {t1, t2, t3}
    Preloaded <- NoPreload
    Clients = {c1}
    Ops = {"submit", "pause", "resume", "stop", "tx"}
    MaxCalls = 4
    MaxFailures = 1
    NoTask = NoTask
    NoCore = NoCore
SPECIFICATION Spec
CHECK_DEADLOCK FALSE
INVARIANT NoEmptyPop
