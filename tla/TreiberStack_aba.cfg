\* One pusher of three items, two poppers, an allocator that hands a deleted
\* address straight back: pop's CAS succeeds on a recycled head (ABA).
CONSTANTS
    Pushers = {p1}
    Poppers = {c1, c2}
    Nodes = {n1, n2, n3}
    Null = Null
    NoValue = NoValue
    Input <- MCInputThree
    ReuseFreed = TRUE
    p1 = p1  p2 = p2  c1 = c1  c2 = c2
    n1 = n1  n2 = n2  n3 = n3
SPECIFICATION Spec
PROPERTY LinearizableLifo
