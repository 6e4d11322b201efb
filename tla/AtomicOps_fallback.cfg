\* The fallback build: plain loads and stores on a shared word.
SPECIFICATION Spec
CONSTANTS
    Threads = {t1, t2}
    Builds <- MCBuildsFallback
    Args = {2}
    Expected = {0, 2}
    MaxCalls = 2
    NoValue = NoValue
    None = None
CHECK_DEADLOCK FALSE
INVARIANT TypeOK
PROPERTY Linearizable
