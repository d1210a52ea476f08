CONSTANTS
    MaxThreads = 2
    MaxRequests = 3
    RegistrySize = 2
    MaxFaults = 3
SPECIFICATION FairSpec
INVARIANTS Revocable CopiesAreCaused OutcomesAgree
PROPERTY ExchangeEnds
CHECK_DEADLOCK FALSE
