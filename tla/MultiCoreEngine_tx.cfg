\* One client calling process_blockchain_transaction twice: does it give
\* blockchain_mutex_ back?
CONSTANTS
    NumCores = 2
    Tasks = {t1}
    Preloaded <- NoPreload
    Clients = {c1}
    Ops = {"tx"}
    MaxCalls = 2
    MaxFailures = 0
    NoTask = NoTask
    NoCore = NoCore
SPECIFICATION Spec
CHECK_DEADLOCK FALSE
PROPERTY BlockchainMutexReleased
