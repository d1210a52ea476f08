SPECIFICATION Spec
CONSTANTS
    Wallets = {w1}
    Passphrases = {k1, k2}
    Malformed = bad
    Records = {r1}
    Paths = {p1}
    OldFiles <- AnyFile
    MaxId = 4
    MaxCrashes = 1
SYMMETRY Symmetry
INVARIANTS ListedIsOpen OpenIsCurrent ImportAllOrNothing ContinueFindsData
PROPERTIES DeleteNeedsKey
CHECK_DEADLOCK FALSE
