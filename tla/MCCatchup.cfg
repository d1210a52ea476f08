SPECIFICATION FairSpec
CONSTANTS
    Nodes = {n1, n2, n3, n4}
    Faulty = {n4}
    MaxSize = 3
    Starts <- StartAny
    FaultyVotes <- Lies
    BlankLine = FALSE
INVARIANTS TargetIsReal ActiveIsReal CacheIsTree NoUnderflow RoundSucceeds
PROPERTIES CatchupEnds
CHECK_DEADLOCK FALSE
