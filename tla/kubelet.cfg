SPECIFICATION KubeletSpec
CONSTANTS
    Handlers = {h1, h2}
    Volumes = {v1}
    Pods = {p1, p2}
    ReadonlyPods = {p2}
    Proxy = FALSE
    MaxStack = 2
    MaxOwed = 0
    MaxFaults = 2
INVARIANTS
    BeliefsHold
    DeadEndsNeedFaults
    FaultlessCallsSucceed
    UsedVolumesLeftAlone
PROPERTIES
    PodsGetVolumes
    CleansUp
