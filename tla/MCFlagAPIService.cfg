SPECIFICATION Spec
CONSTANTS
    prod = prod
    checkout = checkout
    malformed = malformed
    none = none
    text = text
    Environments = {prod}
    Keys = {checkout, malformed}
    ValidKeys = {checkout}
    Descriptions = {none, text}
    Omitted = Omitted
    MaxTime = 1
    Offered = {}
    Workers = {w1, w2}
    Calls <- Resembling
    Empty = none
    Null = Null
    NoCall = NoCall
SYMMETRY Symmetric
PROPERTIES
    ImplementsService
