\* One pusher of two items, two poppers, addresses never recycled: a pop
\* reads old_head->next of a node the other pop has deleted.
CONSTANTS
    Pushers = {p1}
    Poppers = {c1, c2}
    Nodes = {n1, n2, n3}
    Null = Null
    NoValue = NoValue
    Input <- MCInputThree
    ReuseFreed = FALSE
    p1 = p1  p2 = p2  c1 = c1  c2 = c2
    n1 = n1  n2 = n2  n3 = n3
SPECIFICATION Spec
INVARIANT NoUseAfterFree
