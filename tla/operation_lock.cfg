SPECIFICATION Spec
CONSTANTS
    Callers = {c1, c2, c3, c4}
    VolumeIDs = {v1, v2}
    NoLock = NoLock
INVARIANTS
    CountsAreHolders
PROPERTY StartsAlone
SYMMETRY Symmetry
