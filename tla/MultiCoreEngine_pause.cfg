\* Two tasks queued on core 0 and one pause(): the worker's drain loop has no paused test.
CONSTANTS
    NumCores = 2
    Tasks = {t1, t2}
    Preloaded <- PreloadOnFirst
    Clients = {c1}
    Ops = {"pause"}
    MaxCalls = 1
    MaxFailures = 1
    NoTask = NoTask
    NoCore = NoCore
SPECIFICATION Spec
CHECK_DEADLOCK FALSE
PROPERTY PauseStopsNewTasks
