SPECIFICATION PlacedSpec
CONSTANTS
    i1 = i1
    i2 = i2
    i3 = i3
    Inodes = {i1, i2, i3, i4}
    None = None
    Generations = {1, 2}
    MaxChanges = 2
INVARIANTS
    RefusedOnlyIfChanged
PROPERTIES
    LoadedWasHeld
    LoadEnds
CHECK_DEADLOCK FALSE
