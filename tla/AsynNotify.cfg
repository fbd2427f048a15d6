SPECIFICATION FairSpec
CONSTANTS
    c1 = c1
    c2 = c2
    w1 = w1
    w2 = w2
    n1 = n1
    n2 = n2
    Clients = {c1, c2}
    Walkers = {w1, w2}
    Nodes = {n1, n2}
    Null = null
    Kinds = {"exception", "interrupt"}
    Overlap = FALSE
INVARIANTS NoCallAfterRemove EveryoneCalled
PROPERTIES NotifyReturns
CHECK_DEADLOCK FALSE
