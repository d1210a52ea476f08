SPECIFICATION Spec
CONSTANTS
    MaxCredNum = 2
    RevokeIds <- MCRevokeIds
    MaxHeld = 1
    AskBack = FALSE
    MaxDeltas = 2
    MaxTime = 4
    MaxTorn = 1
INVARIANTS RecordsAgree EntriesAgree ValidInInterval MemberProves
CHECK_DEADLOCK FALSE
