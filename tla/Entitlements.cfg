SPECIFICATION EntitlementsSpec
CONSTANTS
    Sellers = {"a"}
    Names = {"n1", "n2"}
    ClientKeys = {"k1"}
    Offers <- MCOffers
    Uploads <- MCUploads
    MaxSubjects = 2
    MaxRequests = 3
    root = root
    ops = ops
    Admins = {root, ops}
    c1 = c1
    c2 = c2
    Clients = {c1, c2}
    AccountFailureLimit = 1
    IPFailureLimit = 3
    MaxSecrets = 3
    MaxPasswords = 2
    MaxSessions = 3
    MaxAuthCalls = 3
    LimitedSubjects = {"s1"}
    Limits <- MCLimits
    MaxTrackers = 2
    MaxPolicyUpdates = 1
SYMMETRY AccountSymmetry
INVARIANTS
    EntitlementsTypeOK
    CustomersArePaidFor
    RecoveryCodeUsedOnce
    GuessesAreLimited
    ConnectionLimitHolds
CHECK_DEADLOCK FALSE
