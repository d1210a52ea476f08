SPECIFICATION Spec
CONSTANTS
    Names = {p1}
    ReqIds = {r1}
    Uses <- WithDelete
    MaxId = 2
INVARIANTS SameNameOnce
CHECK_DEADLOCK FALSE
