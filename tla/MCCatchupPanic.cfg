SPECIFICATION Spec
CONSTANTS
    Nodes = {n1, n2}
    Faulty = {}
    MaxSize = 3
    Starts <- StartStale
    FaultyVotes <- NoLies
    BlankLine = FALSE
SYMMETRY Symmetry
INVARIANTS NoPanic
CHECK_DEADLOCK FALSE
