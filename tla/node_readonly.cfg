SPECIFICATION Spec
CONSTANTS
    Handlers = {h1, h2}
    Volumes = {v1}
    Pods = {p1}
    ReadonlyPods = {p1}
    Proxy = FALSE
    MaxStack = 2
    MaxOwed = 0
PROPERTY ReadonlyHonoured
