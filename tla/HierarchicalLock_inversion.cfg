\* Two threads and three locks, each always taken at its own level and
\* released only by its holder: can the threads still deadlock?
CONSTANTS
    Threads = {t1, t2}
    Locks = {lc, la, lb}
    Level <- MCLevel
    MaxCalls = 3
    Idle = Idle
    t1 = t1  t2 = t2  lc = lc  la = la  lb = lb
SPECIFICATION Spec
INVARIANT NoDeadlock
