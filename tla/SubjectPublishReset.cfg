SPECIFICATION Spec
CONSTANTS
    Nodes = {n1}
    ServingNodes = {n1}
    Callers = {c1}
    Sweepers = {"enforce", "reset"}
    MaxCalls = 2
    Regrants = FALSE
    Faults = FALSE
PROPERTIES
    ResetSparesTheOperator
CHECK_DEADLOCK FALSE
