------------------------- MODULE MCGuardianRegistry -------------------------
(***************************************************************************)
(* Two wallets and four guardians, for TLC.                                *)
(***************************************************************************)
EXTENDS GuardianRegistry, TLC

CONSTANTS w1, w2, g1, g2, g3, g4
=============================================================================
