SPECIFICATION Spec
CONSTANTS
    Session = {s1, s2, s3}
    DPID = {d1, d2}
    None = None
INVARIANT
    OneSession
CHECK_DEADLOCK FALSE
