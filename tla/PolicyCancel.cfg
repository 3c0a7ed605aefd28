\* Two wallets with different devices: who can cancel a record.
CONSTANTS
    m = m
    d1 = d1
    g1 = g1
    g2 = g2
    w1 = w1
    w2 = w2
    rm = rm
    pm = pm
    shop = shop
    Wallets = {w1, w2}
    Keys = {m, d1, g1}
    DeviceKeys = {m, d1}
    GuardianKeys = {g1}
    NoAddress = NoAddress
    Manager <- OneManager
    MIN_TIMELOCK = 1
    Timelocks = {1}
    UINT64_MAX = 8
    MaxTime = 0
    MaxRequests = 0
    RecoveryManager = rm
    PolicyManager = pm
    PolicyWired = {w1, w2}
    Transactions <- SignedForWallets
    MAX_RESTRICTED_DESTINATIONS = 1
    MAX_RESTRICTED_SELECTORS = 1
    MaxAuthorizations = 1
SPECIFICATION PolicySpec
CHECK_DEADLOCK FALSE

INVARIANTS
    CancelByOwnDevice
