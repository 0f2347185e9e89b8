SPECIFICATION FairSpec
CONSTANTS
    Nodes = {n1, n2}
    ServingNodes = {n1, n2}
    Callers = {c1}
    Sweepers = {"expiry", "enforce", "reset"}
    MaxCalls = 2
    Regrants = FALSE
    Faults = FALSE
PROPERTIES
    OverQuotaIsCutOff
    ExpiredIsCutOff
CHECK_DEADLOCK FALSE
