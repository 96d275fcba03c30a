SPECIFICATION EnrollSpec
CONSTANTS
    alpha = alpha
    beta = beta
    k1 = k1
    k2 = k2
    Names <- MCNames
    BadName = BadName
    Keys <- MCKeys
    BadKey = BadKey
    NoLimit = NoLimit
    Configs <- OnlineConfigs
    EnrollToken = "secret"
    CaKey = "file"
    MaxFaults = 0
PROPERTY
    ReceivesCertificate
