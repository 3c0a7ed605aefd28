------------------------ MODULE MCRecoveryRefinement ------------------------
(***************************************************************************)
(* An instance of RecoveryRefinement for TLC.                              *)
(***************************************************************************)
EXTENDS RecoveryRefinement

CONSTANTS m, d1, g1, g2, w1

OneManager == [w \in Wallets |-> m]
=============================================================================
