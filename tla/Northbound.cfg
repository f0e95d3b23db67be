SPECIFICATION Spec
CONSTANTS
    s1 = s1
    s2 = s2
    m1 = m1
    m2 = m2
    NULL = NULL
    Zero = Zero
    Switch = {s1, s2}
    Port <- MCPort
    Start <- MCStart
    Workers = 2
    NetworkParam <- MCNetworkParam
    HostParam <- MCHostParam
    VIPParam <- MCVIPParam
    Known = {1, 3}
    MaxInputs = 3
    MaxRetry = 1
INVARIANT Consistent
PROPERTIES FailedOver ToggleAnnounced ArpConverges
CHECK_DEADLOCK FALSE
