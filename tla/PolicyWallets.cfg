\* Two wallets under one manager: recovery and execution together.
CONSTANTS
    m = m
    d1 = d1
    g1 = g1
    g2 = g2
    w1 = w1
    w2 = w2
    rm = rm
    pm = pm
    shop = shop
    Wallets = {w1, w2}
    Keys = {m, d1, g1}
    DeviceKeys = {m, d1}
    GuardianKeys = {g1}
    NoAddress = NoAddress
    Manager <- OneManager
    MIN_TIMELOCK = 1
    Timelocks = {1}
    UINT64_MAX = 8
    MaxTime = 1
    MaxRequests = 2
    RecoveryManager = rm
    PolicyManager = pm
    PolicyWired = {w1, w2}
    Transactions <- SignedForWallets
    MAX_RESTRICTED_DESTINATIONS = 1
    MAX_RESTRICTED_SELECTORS = 1
    MaxAuthorizations = 2
SPECIFICATION PolicySpec
CHECK_DEADLOCK FALSE

INVARIANTS
    SingleConsumption
    LatestIsOwn
PROPERTIES
    ImplementsGovernance
    OwnGuardiansApprove
