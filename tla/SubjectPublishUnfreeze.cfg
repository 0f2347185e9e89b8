SPECIFICATION Spec
CONSTANTS
    Nodes = {n1}
    ServingNodes = {n1}
    Callers = {c1}
    Sweepers = {"enforce"}
    MaxCalls = 2
    Regrants = FALSE
    Faults = FALSE
PROPERTIES
    UnfreezeRestoresAccess
CHECK_DEADLOCK FALSE
