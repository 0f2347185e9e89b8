SPECIFICATION Spec
CONSTANTS
    Nodes = {n1, n2}
    ServingNodes = {n1, n2}
    Callers = {c1, c2}
    Sweepers = {}
    MaxCalls = 3
    Regrants = TRUE
    Faults = FALSE
SYMMETRY CallerSymmetry
INVARIANTS
    DeletedIsRevoked
CHECK_DEADLOCK FALSE
