SPECIFICATION EnrollSpec
CONSTANTS
    alpha = alpha
    beta = beta
    k1 = k1
    k2 = k2
    Names <- MCNames
    BadName = BadName
    Keys <- MCKeys
    BadKey = BadKey
    NoLimit = NoLimit
    Configs <- MCConfigs
    EnrollToken = "secret"
    CaKey = "file"
    MaxFaults = 2
INVARIANTS
    EnrollTypeOK
    DoneMatchesConfig
    LockedOutBounded
PROPERTIES
    InvalidChangesNothing
    RepairedByReboot
