------------------------- MODULE MCRequestLifecycle -------------------------
(***************************************************************************)
(* Instances of the reference state machine and of the encodings for TLC.  *)
(***************************************************************************)
EXTENDS RequestEncoding, TLC

CONSTANTS g1, g2, g3

Names == {<<1>>, <<1, 1>>}

ByteStrings == {<<>>, <<1>>, <<0>>, <<1, 1>>, <<0, 1>>, <<2, 1>>}

Tags == {<<1, 1>>, <<1, 2>>, <<2, 1>>}

WalletName == <<1>>

InitiatorName == <<0, 1>>

LifecycleSymmetry == Permutations({g1, g2, g3})
=============================================================================
