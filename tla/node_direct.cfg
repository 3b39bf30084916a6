SPECIFICATION Spec
CONSTANTS
    Handlers = {h1, h2}
    Volumes = {v1}
    Pods = {p1, p2}
    ReadonlyPods = {p2}
    Proxy = FALSE
    MaxStack = 2
    MaxOwed = 0
INVARIANTS
    OneOperationPerVolume
    NothingBuried
    AnswersHold
    ChecksHold
SYMMETRY Symmetry
