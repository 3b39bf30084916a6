SPECIFICATION Spec
CONSTANTS
    Servers = {s1, s2}
    Volumes = {v1, v2}
    KeyFiles = {k1, k2}
    MaxConns = 2
    NoVolume = NoVolume
    NoKey = NoKey
    Nobody = Nobody
INVARIANTS
    OneCommand
PROPERTIES
    ProxyKeysRemoved
    ImplementsProxyService
