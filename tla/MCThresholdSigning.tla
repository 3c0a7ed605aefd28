------------------------- MODULE MCThresholdSigning -------------------------
(***************************************************************************)
(* Instances of ThresholdSigning for TLC. Participants are named as in the *)
(* library's tests: A, B and C stand for the first three positions, D for  *)
(* the fourth, E for none a small set has. Positions asked to sign include *)
(* too few, one twice, and one outside a set of three.                     *)
(***************************************************************************)
EXTENDS ThresholdSigning, TLC

CONSTANTS g1, g2

Positions == [A |-> 0, B |-> 1, C |-> 2, D |-> 3, E |-> 4]

Proposal(version, set, t, group, q, seconds) ==
    [oldVersion |-> version, newSet |-> set, threshold |-> t, groupKey |-> group,
     quorum |-> q, timelock |-> seconds]

(* Rotations of the first set, of the second, and of a key not yet         *)
(* generated; then proposals each of which one check must refuse.          *)
Asked ==
    {Proposal(1, <<"A", "C", "D">>, 2, "vk", 2, 1),
     Proposal(1, <<"E">>, 1, "vk", 1, 2),
     Proposal(2, <<"A", "B", "E">>, 2, "vk", 1, 1),
     Proposal(0, <<"A", "B", "C">>, 2, "vk", 1, 1),
     Proposal(1, <<"A", "B">>, 2, "other", 1, 1),
     Proposal(1, <<"A", "B">>, 3, "vk", 2, 1),
     Proposal(1, <<"A", "A">>, 1, "vk", 2, 1),
     Proposal(1, <<"A", "B">>, 2, "vk", 3, 1),
     Proposal(1, <<"A", "B">>, 2, "vk", 1, 0)}

AskedToSign == {[chain |-> 1, digest |-> "tx"], [chain |-> 31337, digest |-> "tx"]}

AskedPositions == {<<0>>, <<0, 1>>, <<2, 1>>, <<1, 1>>, <<0, 99>>, <<0, 1, 2>>}

GuardianSymmetry == Permutations({g1, g2})
=============================================================================
