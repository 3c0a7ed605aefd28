\* Two wallets, four guardians: every list of distinct guardians is reached.
CONSTANTS
    w1 = w1
    w2 = w2
    g1 = g1
    g2 = g2
    g3 = g3
    g4 = g4
    Wallets = {w1, w2}
    GuardianKeys = {g1, g2, g3, g4}

SPECIFICATION RegistrySpec

INVARIANTS
    RegistryTypeOK
    ListEnumeratesActive
    CountIsCardinality
