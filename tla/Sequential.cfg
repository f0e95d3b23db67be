SPECIFICATION MCSpec
CONSTANTS
    a = a
    b = b
    c = c
    d = d
    Vertex = {a, b, c, d}
    Port = {1, 2, 3, 4, 5}
    Edge <- MCEdge
    Weight <- MCWeight
    max = 2
    Second = 2
    MaxTime = 8
    MaxFloods = 6
    Wildcard = Wildcard
    NoIP = NoIP
    Empty = Empty
    MAC = {mac}
    IP = {ip}
    Tried = {"SrcMAC", "VLANID", "VLANPriority", "EtherType", "IPProtocol", "SrcIP", "DstIP", "SrcPort", "DstPort"}
    Number16 = {65535}
    Bits = {24, 32}
INVARIANTS
    SpanningForestWhenDone
    MinimumWhenDone
    PathsRight
    WithinLimit
    RoundTrip
PROPERTIES
    Returns
    Implements
    Implements10
    Implements13
CHECK_DEADLOCK FALSE
