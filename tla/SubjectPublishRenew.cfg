SPECIFICATION Spec
CONSTANTS
    Nodes = {n1}
    ServingNodes = {n1}
    Callers = {c1}
    Sweepers = {"expiry"}
    MaxCalls = 2
    Regrants = FALSE
    Faults = FALSE
PROPERTIES
    SweeperAgreesWithBuilder
CHECK_DEADLOCK FALSE
