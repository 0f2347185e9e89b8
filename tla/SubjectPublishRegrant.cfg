SPECIFICATION Spec
CONSTANTS
    Nodes = {n1, n2}
    ServingNodes = {n1, n2}
    Callers = {c1, c2}
    Sweepers = {"expiry", "enforce"}
    MaxCalls = 3
    Regrants = TRUE
    Faults = TRUE
SYMMETRY Symmetry
CONSTRAINT OnePeriod
INVARIANTS
    TypeOK
    NoChangeIsStranded
CHECK_DEADLOCK FALSE
