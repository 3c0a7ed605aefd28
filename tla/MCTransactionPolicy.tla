------------------------ MODULE MCTransactionPolicy ------------------------
(***************************************************************************)
(* Instances of TransactionPolicy for TLC. Every wallet's manager is m.    *)
(***************************************************************************)
EXTENDS PolicyPreview

CONSTANTS m, d1, g1, g2, w1, w2, rm, pm, shop

OneManager == [w \in Wallets |-> m]

Pay(value) == [to |-> shop, selector |-> "none", value |-> value]
Configure(mode, threshold, required) ==
    [to |-> pm, selector |-> "configurePolicy", value |-> 0,
     mode |-> mode, threshold |-> threshold, required |-> required]
Quorum(required) ==
    [to |-> pm, selector |-> "setTransactionQuorum", value |-> 0, required |-> required]
Mode(mode) == [to |-> pm, selector |-> "setDefaultMode", value |-> 0, mode |-> mode]
Threshold(threshold) ==
    [to |-> pm, selector |-> "setValueThreshold", value |-> 0, threshold |-> threshold]
RestrictDestination(destination, on) ==
    [to |-> pm, selector |-> "setDestinationRestriction", value |-> 0,
     destination |-> destination, restricted |-> on]
RestrictSelector(selector, on) ==
    [to |-> pm, selector |-> "setSelectorRestriction", value |-> 0,
     restrictedSelector |-> selector, restricted |-> on]
Add(g) == [to |-> rm, selector |-> "addGuardian", value |-> 0, guardian |-> g]
Remove(g) == [to |-> rm, selector |-> "removeGuardian", value |-> 0, guardian |-> g]
RecoveryQuorum(q) == [to |-> rm, selector |-> "setQuorum", value |-> 0, quorum |-> q]
RecoveryTimelock(s) ==
    [to |-> rm, selector |-> "setRecoveryTimelock", value |-> 0, seconds |-> s]

Sign(w, n, calls) ==
    [wallet : {w}, nonce : {n}, call : calls, expiry : {0}]

(* One wallet: each setting changes at least once, the transaction quorum  *)
(* is raised, and a guardian leaves, while authorizations are open.        *)
SignedForPolicy ==
    Sign(w1, 0, {Configure("DEVICE_PLUS_GUARDIANS", 0, 1)})
        \cup Sign(w1, 1, {Quorum(2), Mode("DEVICE_ONLY"), Threshold(1), Remove(g1),
                          RestrictDestination(shop, TRUE), Pay(0),
                          RestrictSelector("addGuardian", TRUE)})
        \cup Sign(w1, 2, {Pay(0), Add(g1), RecoveryQuorum(1), RecoveryTimelock(1),
                          RestrictDestination(shop, FALSE)})

(* Two wallets: the devices of either know what w1 signed.                 *)
SignedForWallets == Sign(w1, 0, {Configure("DEVICE_ONLY", 0, 1), Remove(g1)})
=============================================================================
