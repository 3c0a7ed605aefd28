---------------------------- MODULE KeyMaterial ----------------------------
(***************************************************************************)
(* The material of a threshold key and the runs that produce it: the DKG   *)
(* (crates/keymesh-tss/src/dkg.rs) and the re-sharing of refresh and       *)
(* rotation (lifecycle.rs).                                                *)
(*                                                                         *)
(* A participant is its verifier, a number. KeyInit, KeyResharing and      *)
(* AuxGen are external: of a run the code sees whether it ended with a     *)
(* share for every new holder, which group key the shares are of, and      *)
(* whether the auxiliary information was generated. Shares are known by    *)
(* how many re-sharings they went through. Names and group keys are those  *)
(* of the rotation requests.                                               *)
(***************************************************************************)
EXTENDS RotationGovernance

CONSTANT
    Alias            \* Alias[name]: the position a participant's name stands for

ASSUME MaterialAssumption == Alias \in [Names -> Nat]

Material ==
    [participants : Seq(Nat), threshold : Nat, reshared : Nat,
     groupKey : GroupKeys \cup {"none"}]

NoMaterial ==
    [participants |-> <<>>, threshold |-> 0, reshared |-> 0, groupKey |-> "none"]

(* What the code sees of a run of the external protocols. *)
ProtocolRun == [vk : GroupKeys, shared : BOOLEAN, auxGen : BOOLEAN]

(* The distinct verifiers of a list of participants. *)
Holders(participants) == {participants[i] : i \in 1 .. Len(participants)}

----------------------------------------------------------------------------
(* Generation *)

(* setup_2of3: signers 0, 1 and 2. *)
Generated(vk) ==
    [participants |-> <<0, 1, 2>>, threshold |-> 2, reshared |-> 0, groupKey |-> vk]

(* setup_2of3 starts with a key of the first two, shared by both.          *)
KeyInitHolders == <<0, 1>>

(* Every share must be of one key, or setup_2of3 panics or returns an      *)
(* error.                                                                  *)
GenerationAccepted(run) == run.shared /\ run.auxGen

----------------------------------------------------------------------------
(* Re-sharing *)

(* do_rotation_via_resharing: a name that stands for a position of the old *)
(* list is the participant at that position, any other name is a fresh     *)
(* signer numbered, in a byte, by its position in the new list, even where *)
(* the old list has a participant with that number.                        *)
Resolve(old, names) ==
    [i \in 1 .. Len(names) |->
        IF Alias[names[i]] < Len(old) THEN old[Alias[names[i]] + 1] ELSE (100 + i - 1) % 256]

(* The entry point of one participant: whether it passes an old share on,  *)
(* and whether it is to receive a new one.                                 *)
EntryPoint(v, old, new) ==
    [signer |-> v, oldHolder |-> v \in Holders(old), newHolder |-> v \in Holders(new)]

(* Mutant: a fresh signer is added also when the old list has it. *)
EntryPointsTwice(old, new) ==
    LET everyone == old \o new
    IN  [p \in {q \in 1 .. Len(everyone) : q <= Len(old) \/ everyone[q] >= 100} |->
            EntryPoint(everyone[p], old, new)]

(* One for each old participant and one for each fresh one that is not     *)
(* among the old, by its place in the two lists.                           *)
EntryPoints(old, new) ==
    LET everyone == old \o new
    IN  [p \in {q \in 1 .. Len(everyone) : q <= Len(old) \/ everyone[q] \notin Holders(old)} |->
            EntryPoint(everyone[p], old, new)]

GenerationEntries == EntryPoints(KeyInitHolders, <<0, 1, 2>>)

RefreshEntries(material) == EntryPoints(material.participants, material.participants)

RotationEntries(material, names) ==
    EntryPoints(material.participants, Resolve(material.participants, names))

(* Mutant: the group key of the new shares is not compared. *)
RunAcceptedAnyKey(material, run) == run.shared /\ run.auxGen

(* The run is used only if every new holder has a share, of the old group  *)
(* key, and auxiliary information.                                         *)
RunAccepted(material, run) ==
    /\ run.shared
    /\ run.vk = material.groupKey
    /\ run.auxGen

RotationAccepted(material, names, t, run) ==
    /\ t <= Len(names)
    /\ Len(names) # 0
    /\ RunAccepted(material, run)

Refreshed(material, run) ==
    [material EXCEPT !.reshared = @ + 1, !.groupKey = run.vk]

Reshared(material, r, run) ==
    [participants |-> Resolve(material.participants, r.newSet),
     threshold |-> r.threshold,
     reshared |-> material.reshared + 1,
     groupKey |-> run.vk]

----------------------------------------------------------------------------
(* Properties *)

(* Every participant that is to pass a share on or to receive one takes    *)
(* part, in the right roles, and nobody takes part twice.                  *)
EachTakesPartOnce(entries, old, new) ==
    /\ {entries[p].signer : p \in DOMAIN entries} = Holders(old) \cup Holders(new)
    /\ \A p \in DOMAIN entries :
          /\ entries[p].oldHolder <=> entries[p].signer \in Holders(old)
          /\ entries[p].newHolder <=> entries[p].signer \in Holders(new)
    /\ \A p, q \in DOMAIN entries :
          entries[p].signer = entries[q].signer => p = q
=============================================================================
