SPECIFICATION Spec
CONSTANTS
    a = a
    b = b
    c = c
    Vertex = {a, b, c}
    Port = {1, 2, 3}
    Edge <- MCEdge
    Expiration = 2
INVARIANTS
    KnownEnds
    PointsLive
    TreeUpToDate
PROPERTIES
    TreeStable
    DeadLinksForgotten
