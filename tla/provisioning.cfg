\* Once its claim is gone nothing has to happen any more.
CHECK_DEADLOCK FALSE
SPECIFICATION ProvisioningSpec
CONSTANTS
    GiB = 2
    FloatExact = 64
    IntLimit = 128
    Handlers = {h1, h2}
    Clusters = {c1}
    Names = {n1}
    StaticHandles = {}
    CreateBytes = {5}
    ExpandBytes = {5, 7, 9}
    Absent = Absent
    KeyFiles = {k1, k2, k3}
    NoKey = NoKey
    MaxFaults = 2
INVARIANT PromisesKept
PROPERTIES
    ShrinksOnlyLate
    ClaimsServed
    ImplementsService
    LocksFreed
