SPECIFICATION Spec
CONSTANTS
    Controller = {c1, c2}
    NoRow = NoRow
    Expiration = 3
    Skew = 1
    MaxStall = 2
    MaxDeadlockRetry = 1
    MaxStarts = 2
    MaxConn = 1
PROPERTIES
    ElectTruthful
