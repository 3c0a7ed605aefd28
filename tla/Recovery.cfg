\* One wallet, two successive requests, two guardians, one also a device key, deadlines that do and do not fit.
CONSTANTS
    m = m
    d1 = d1
    d2 = d2
    g1 = g1
    g2 = g2
    g3 = g3
    w1 = w1
    w2 = w2
    Wallets = {w1}
    Keys = {m, d1, g1, g2}
    DeviceKeys = {m, d1, g2}
    GuardianKeys = {g1, g2}
    NoAddress = NoAddress
    Manager <- OneManager
    MIN_TIMELOCK = 1
    Timelocks = {0, 1}
    UINT64_MAX = 2
    MaxTime = 2
    MaxRequests = 2
SPECIFICATION Spec
CHECK_DEADLOCK FALSE

INVARIANTS
    TypeOK
    DeviceSetSound
    GovernanceConfigured
    QuorumCounted
    WarningWindow
    OneLiveRequest
    NewDeviceStillNew
PROPERTIES
    HistoryFixed
    DeviceSetProvenance
