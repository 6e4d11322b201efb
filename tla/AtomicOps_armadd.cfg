\* The aarch64 core_atomic_add_64 and core_atomic_sub_64 alone.
SPECIFICATION Spec
CONSTANTS
    Threads = {t1, t2}
    Builds <- MCBuildsArmAdd
    Args = {2}
    Expected = {0, 2}
    MaxCalls = 2
    NoValue = NoValue
    None = None
CHECK_DEADLOCK FALSE
INVARIANT TypeOK
PROPERTY Linearizable
