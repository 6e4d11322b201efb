\* Two tasks queued on core 0 and two calls of pause, resume or stop: both resume() and stop() notify without core.mutex.
CONSTANTS
    NumCores = 2
    Tasks = {t1, t2}
    Preloaded <- PreloadOnFirst
    Clients = {c1}
    Ops = {"pause", "resume", "stop"}
    MaxCalls = 2
    MaxFailures = 1
    NoTask = NoTask
    NoCore = NoCore
SPECIFICATION Spec
CHECK_DEADLOCK FALSE
INVARIANT NoLostWakeup
