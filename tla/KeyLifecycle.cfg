\* Two rotation requests on one key, two guardians, a provider of any age; governed and stepwise driving.
CONSTANTS
    g1 = g1
    g2 = g2
    RotationIds = {1, 2}
    Guardians = {g1, g2}
    Proposals <- Asked
    Names = {"A", "B", "C", "D", "E"}
    GroupKeys = {"vk", "other"}
    GroupKey = "vk"
    Alias <- Positions
    MIN_TIMELOCK_SECONDS = 1
    U64_MAX = 3
    OverflowWraps = FALSE
    MaxTime = 2
    ApplyThresholds = {1, 2}
    MaxRefreshes = 1
    ProviderIds = {"p"}
    Bindings <- AskedToSign
    Subsets <- AskedPositions
    MAINNET = 1
    MainnetAllowed = FALSE
SYMMETRY GuardianSymmetry
SPECIFICATION SigningSpec
CHECK_DEADLOCK FALSE

INVARIANTS
    KeyTypeOK
    RotationEarned
    VersionHistory
    LockReleased
    CheckedSignature
    OneWalletKey
    HoldersTakePart
PROPERTIES
    FailureKeepsKey
    RetirementFinal
    KeyIdNamesSet
