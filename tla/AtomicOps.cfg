\* Two threads, two calls each, in the x86_64 and the aarch64 builds.
\* The threads stop after their calls, so the final state has no successor.
SPECIFICATION Spec
CONSTANTS
    Threads = {t1, t2}
    Builds <- MCBuildsGood
    Args = {2}
    Expected = {0, 2}
    MaxCalls = 2
    NoValue = NoValue
    None = None
CHECK_DEADLOCK FALSE
INVARIANT TypeOK
PROPERTY Linearizable AllCallsReturn
