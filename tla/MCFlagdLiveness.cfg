SPECIFICATION FairRun
CONSTANTS
    Procs = {p1, p2}
    Requests = {r1, r2}
    Schema = Schema
    Opening = Opening
    Nobody = Nobody
PROPERTIES
    SignalEndsProcess
    RequestsResolve
CHECK_DEADLOCK FALSE
