SPECIFICATION Spec
CONSTANTS
    hostname = hostname
    zone = zone
    otherZone = otherZone
    NoTopology = NoTopology
    Configs <- MCConfigs
    Labels <- MCLabels
    LabelValue <- MCLabelValue
    Domain <- MCDomain
    MaxFaults = 2
INVARIANTS
    ServesRole
    TopologyComplete
PROPERTIES
    DiesOnlyForCause
    Recovers
