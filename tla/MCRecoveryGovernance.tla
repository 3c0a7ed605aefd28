------------------------ MODULE MCRecoveryGovernance ------------------------
(***************************************************************************)
(* Instances of RecoveryGovernance for TLC.                                *)
(***************************************************************************)
EXTENDS RecoveryGovernance, TLC

CONSTANTS m, d1, d2, g1, g2, g3, w1, w2

(* The manager runs the wallet before bootstrap. *)
OneManager == [w \in Wallets |-> m]

(* Addresses that play the same roles are interchangeable. *)
GuardianSymmetry == Permutations({g1, g2})
WalletSymmetry == Permutations({w1, w2})
=============================================================================
