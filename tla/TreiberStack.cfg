\* Two pushers (two items and one) and two poppers racing on head_, an
\* allocator that does not recycle addresses: the CAS protocol alone.
CONSTANTS
    Pushers = {p1, p2}
    Poppers = {c1, c2}
    Nodes = {n1, n2, n3}
    Null = Null
    NoValue = NoValue
    Input <- MCInputTwo
    ReuseFreed = FALSE
    p1 = p1  p2 = p2  c1 = c1  c2 = c2
    n1 = n1  n2 = n2  n3 = n3
SPECIFICATION Spec
INVARIANT TypeOK
PROPERTY LinearizableLifo AllItemsPopped
