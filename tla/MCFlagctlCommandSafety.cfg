SPECIFICATION Spec
CONSTANTS
    prod = prod
    checkout = checkout
    malformed = malformed
    plain = plain
    text = text
    Environments = {prod}
    Keys = {checkout, malformed}
    ValidKeys = {checkout}
    Descriptions = {plain, text}
    Omitted = Omitted
    Offered <- Others
    Scripts <- EveryCommand
    Workers = {w1, w2}
    MaxTime = 1
    MaxTroubles = 3
SYMMETRY WorkerSymmetry
INVARIANTS
    OutputWasTrue
    MessageTellsEffect
    RetriesConverge
    RepeatsChangeNothing
CHECK_DEADLOCK FALSE
