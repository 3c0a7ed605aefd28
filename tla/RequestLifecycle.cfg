\* One request of the reference state machine, in a build with overflow checks,
\* and the byte strings of requests, transactions and messages.
CONSTANTS
    g1 = g1
    g2 = g2
    g3 = g3
    Ids = {1}
    Guardians = {g1, g2, g3}
    Devices <- Names
    NoDevice = NoDevice
    MIN_TIMELOCK_SECONDS = 1
    Timelocks = {0, 1, 2, 3}
    U64_MAX = 5
    OverflowWraps = FALSE
    MaxTime = 4
    Base = 4
    Numbers = {0, 1, 5}
    Texts <- ByteStrings
    Wallet <- WalletName
    Initiator <- InitiatorName
    DomainTags <- Tags
    MaxDataBytes = 1
SYMMETRY LifecycleSymmetry
SPECIFICATION LifecycleSpec
CHECK_DEADLOCK FALSE

INVARIANTS
    ExecutionEarned
PROPERTIES
    EncodingCanonical
