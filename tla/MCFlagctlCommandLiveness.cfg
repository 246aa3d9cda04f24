SPECIFICATION FairSpec
CONSTANTS
    prod = prod
    checkout = checkout
    malformed = malformed
    plain = plain
    text = text
    Environments = {prod}
    Keys = {checkout, malformed}
    ValidKeys = {checkout}
    Descriptions = {plain, text}
    Omitted = Omitted
    Offered <- Others
    Scripts <- EveryCommand
    Workers = {w1, w2}
    MaxTime = 1
    MaxTroubles = 2
PROPERTIES
    ScriptEnds
CHECK_DEADLOCK FALSE
