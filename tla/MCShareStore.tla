---------------------------- MODULE MCShareStore ----------------------------
(***************************************************************************)
(* An instance of ShareStore for TLC.                                      *)
(***************************************************************************)
EXTENDS ShareStore, TLC

CONSTANTS p1, p2

ProcessSymmetry == Permutations({p1, p2})
=============================================================================
