SPECIFICATION Spec
CONSTANTS
    Session = {s1, s2, s3}
    DPID = {d1, d2}
    None = None
INVARIANTS
    NoGhost
    OneSessionUnlessRaced
    ServedUnlessRaced
    SendersUnlessRaced
PROPERTY
    Deregistered
CHECK_DEADLOCK FALSE
