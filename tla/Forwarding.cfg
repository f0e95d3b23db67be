SPECIFICATION Spec
CONSTANTS
    d1 = d1
    d2 = d2
    Device <- MCDevice
    Port <- MCPort
    HostEnd <- MCHostEnd
    Link <- MCLink
    Hop <- MCHop
    NoPort = NoPort
    Unknown = Unknown
    MaxInputs = 2
    MaxBusy = 2
INVARIANTS
    WrongFlowExplained
CHECK_DEADLOCK FALSE
PROPERTY
    Repaired
