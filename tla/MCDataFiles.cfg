SPECIFICATION Spec
CONSTANTS
    Processes = {p1, p2}
    MaxChanges = 2
SYMMETRY ProcessSymmetry
INVARIANTS
    CheckedIsPrivate
    RefusedOnlyIfUnsafe
PROPERTIES
    LinksAreNotFollowed
