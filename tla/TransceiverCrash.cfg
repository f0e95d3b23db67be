SPECIFICATION StreamSpec
CONSTANTS
    MaxIdle = 1
    HelloTimeout = 3
    MaxPings = 2
    Buffer = 2
    MaxInbox = 2
INVARIANT
    NeverCrashes
CHECK_DEADLOCK FALSE
