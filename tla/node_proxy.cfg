SPECIFICATION Spec
CONSTANTS
    Handlers = {h1, h2}
    Volumes = {v1}
    Pods = {p1}
    ReadonlyPods = {}
    Proxy = TRUE
    MaxStack = 2
    MaxOwed = 1
PROPERTIES
    UnmountedWhenDecided
    Answered
