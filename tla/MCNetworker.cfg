SPECIFICATION FairSpec
CONSTANTS
    n1 = n1  n2 = n2  n3 = n3
    Reqs <- TwoReqs
    Roots <- TwoTrees
    FirstRoot = 11
    NodesOf <- NodesOfTrees
    timeout = 1
    extended_timeout = 1
    active_timeout = 1
    conn_limit = 2
    Bounds <- ThreeSends
INVARIANTS LiveHasDeadline CountedNotAwaited
PROPERTIES RequestsEnd ConnectionsReleased
CHECK_DEADLOCK FALSE
