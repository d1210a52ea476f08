SPECIFICATION FairSpec
CONSTANTS
    Names = {p1}
    ReqIds = {r1, r2}
    Uses <- AnyOrCalm
    MaxId = 4
INVARIANTS AckHasCallback OpenIsServed
PROPERTIES AllAnswered CloseReturns
CHECK_DEADLOCK FALSE
