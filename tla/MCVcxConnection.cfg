CONSTANTS
    Invitees = {a, b}
    MaxKeys = 4
    MaxFaults = 2
    Restarting = {"inviter"}
    MaxAsks = 1
SPECIFICATION FairSpec
INVARIANTS InviterAgrees InviteeAgrees
PROPERTY HandshakeEnds
CHECK_DEADLOCK FALSE
