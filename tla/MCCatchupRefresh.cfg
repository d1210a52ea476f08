SPECIFICATION Spec
CONSTANTS
    Nodes = {n1, n2}
    Faulty = {}
    MaxSize = 3
    Starts <- StartRefresh
    FaultyVotes <- NoLies
    BlankLine = FALSE
SYMMETRY Symmetry
INVARIANTS ActiveIsReal CacheIsTree ProofsDecide
CHECK_DEADLOCK FALSE
