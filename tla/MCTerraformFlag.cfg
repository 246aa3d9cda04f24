SPECIFICATION FairSpec
CONSTANTS
    prod = prod
    dev = dev
    checkout = checkout
    plain = plain
    Environments <- TwoEnvironments
    Keys <- OneKey
    ValidKeys <- OneKey
    Descriptions <- OneDescription
    Omitted = Omitted
    NoState = NoState
    NoConfig = NoConfig
    Workers = {w1, w2}
    Configs <- Moved
    Offered <- InBoth
    MaxTime = 1
    MaxTroubles = 3
INVARIANTS
    OrphansAreReported
PROPERTIES
    SavedStateWasTrue
    UnmanagedFlagsAreSafe
    DriftIsReconciled
CHECK_DEADLOCK FALSE
