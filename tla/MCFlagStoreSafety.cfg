SPECIFICATION Spec
CONSTANTS
    prod = prod
    staging = staging
    checkout = checkout
    search = search
    malformed = malformed
    none = none
    text = text
    Environments = {prod, staging}
    Keys = {checkout, search, malformed}
    ValidKeys = {checkout, search}
    Descriptions = {none, text}
    Omitted = Omitted
    MaxTime = 1
    Offered <- EveryOperation
    Workers = {w1, w2}
    NoWorker = NoWorker
    NoFlag = NoFlag
SYMMETRY Symmetric
INVARIANTS
    SchemaIsWhole
PROPERTIES
    HistoryIsKept
    OmittedFieldsSurvive
    NewerFileIsLeftAlone
    FlagsComeAndGoByCall
    ImplementsRegistry
