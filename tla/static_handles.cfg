SPECIFICATION Spec
CONSTANTS
    GiB = 16
    FloatExact = 64
    IntLimit = 512
    MaxVolIDLen = 20
    Word = 64
    NotHex = NotHex
    NoTopology = NoTopology
    NoIdentifier = NoIdentifier
    ContextPath = ContextPath
    CreateRequests <- MCCreateRequests
    StaticHandles <- MCStaticHandles
    ExpandBytes <- MCExpandBytes
PROPERTY HandleIsPool
