SPECIFICATION Spec
CONSTANTS
    MaxCredNum = 2
    RevokeIds <- MCRevokeIds
    MaxHeld = 1
    AskBack = TRUE
    MaxDeltas = 2
    MaxTime = 4
    MaxTorn = 1
INVARIANT DeltaCoversGap
CHECK_DEADLOCK FALSE
