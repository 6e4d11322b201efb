\* Two producers, one consumer: a thread dereferences a node another
\* thread already deleted, even when addresses are never recycled.
CONSTANTS
    Producers = {p1, p2}
    Consumers = {c1}
    Nodes = {n1, n2, n3, n4}
    Dummy = n1
    Null = Null
    NoValue = NoValue
    Input <- MCInputMPSC
    ReuseFreed = FALSE
    p1 = p1  p2 = p2  c1 = c1  c2 = c2
    n1 = n1  n2 = n2  n3 = n3  n4 = n4
SPECIFICATION Spec
INVARIANT NoUseAfterFree
