\* Two producers and two consumers racing on tail_ and head_, an allocator
\* that does not recycle addresses: the CAS protocol alone.
CONSTANTS
    Producers = {p1, p2}
    Consumers = {c1, c2}
    Nodes = {n1, n2, n3}
    Dummy = n1
    Null = Null
    NoValue = NoValue
    Input <- MCInputTwo
    ReuseFreed = FALSE
    p1 = p1  p2 = p2  c1 = c1  c2 = c2
    n1 = n1  n2 = n2  n3 = n3  n4 = n4
SPECIFICATION Spec
INVARIANT TypeOK
PROPERTY LinearizableFifo AllItemsDequeued
