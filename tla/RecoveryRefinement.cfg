\* One wallet, one request: the reference is refined, recoveries settle.
CONSTANTS
    m = m
    d1 = d1
    g1 = g1
    g2 = g2
    w1 = w1
    Wallets = {w1}
    Keys = {m, d1, g1, g2}
    DeviceKeys = {m, d1, g2}
    GuardianKeys = {g1, g2}
    NoAddress = NoAddress
    Manager <- OneManager
    MIN_TIMELOCK = 1
    Timelocks = {1}
    UINT64_MAX = 2
    MaxTime = 2
    MaxRequests = 1
SPECIFICATION FairSpec
CHECK_DEADLOCK FALSE

PROPERTIES
    ImplementsReference
    ApprovedRecoverySettles
