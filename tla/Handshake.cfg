SPECIFICATION Spec
CONSTANTS
    Port = {p1, local}
    Reserved = {local}
    Capacity = 2
    MaxSessions = 2
    MaxInputs = 2
INVARIANTS SpecialFlowsStay NormalFlowsInTable
PROPERTIES PortDownTold SetUpUnlessLost PortsConverge LLDPAgain
CHECK_DEADLOCK FALSE
