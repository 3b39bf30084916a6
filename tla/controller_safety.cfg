SPECIFICATION Spec
CONSTANTS
    GiB = 2
    FloatExact = 64
    IntLimit = 128
    Handlers = {h1, h2, h3}
    Clusters = {c1}
    Names = {n1}
    StaticHandles = {s1}
    CreateBytes = {1, 3}
    ExpandBytes = {5}
    Absent = Absent
    KeyFiles = {k1, k2, k3}
    NoKey = NoKey
INVARIANTS
    TypeOK
    MutualExclusion
    LocksHaveHolders
    CheckedAbsent
    KeysArePrivate
PROPERTIES
    KeysRemoved
SYMMETRY Symmetry
