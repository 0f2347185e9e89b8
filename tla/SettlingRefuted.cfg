SPECIFICATION SettlingSpec
CONSTANTS
    Kinds = {"xray", "singbox", "wireguard", "hysteria2", "openvpn", "ocserv", "l2tp"}
    Wants <- MCWants
    MaxRetries = 2
    MaxWants = 3
    MaxFaults = 2
    Strategies = {"all_at_once", "canary", "staged", "rolling"}
    MaxDeployments = 2
    MaxRollbacks = 2
    MaxDpFaults = 1
    MaxAlertChanges = 2
    MaxAlertFaults = 1
INVARIANTS
    AppliedIsServed
    OneInProgress
PROPERTIES
    EndedStays
    EveryDeploymentEnds
    SeverityFollows
    ExceededIsTrue
CHECK_DEADLOCK FALSE
