SPECIFICATION FairSpec
CONSTANTS
    prod = prod
    staging = staging
    checkout = checkout
    search = search
    malformed = malformed
    none = none
    text = text
    Environments = {prod, staging}
    Keys = {checkout, search, malformed}
    ValidKeys = {checkout, search}
    Descriptions = {none, text}
    Omitted = Omitted
    MaxTime = 0
    Offered <- Contention
    Workers = {w1, w2, w3}
    NoWorker = NoWorker
    NoFlag = NoFlag
PROPERTIES
    EveryCallReturns
    ConnectionComesBack
