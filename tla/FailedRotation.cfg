\* Two rotation requests on one key, two guardians; a rotation applied by hand fails.
CONSTANTS
    g1 = g1
    g2 = g2
    RotationIds = {1, 2}
    Guardians = {g1, g2}
    Proposals <- Asked
    Names = {"A", "B", "C", "D", "E"}
    GroupKeys = {"vk", "other"}
    GroupKey = "vk"
    Alias <- Positions
    MIN_TIMELOCK_SECONDS = 1
    U64_MAX = 2
    OverflowWraps = FALSE
    MaxTime = 2
    ApplyThresholds = {1, 2}
    MaxRefreshes = 1
    ProviderIds = {"p"}
    Bindings <- AskedToSign
    Subsets <- AskedPositions
    MAINNET = 1
    MainnetAllowed = FALSE
SPECIFICATION SigningSpec
CHECK_DEADLOCK FALSE

INVARIANT
    FailedRotationRestores
