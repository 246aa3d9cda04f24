SPECIFICATION Spec
CONSTANTS
    Procs = {p1, p2}
    Requests = {r1, r2, r3}
    Schema = Schema
    Opening = Opening
    Nobody = Nobody
SYMMETRY Interchangeable
INVARIANTS
    DataNeedsListener
    CleanExit
PROPERTIES
    ImplementsLedger
CHECK_DEADLOCK FALSE
