-------------------------- MODULE ThresholdSigning --------------------------
(***************************************************************************)
(* Signing with a threshold key while the key is refreshed, rotated and    *)
(* retired (crates/keymesh-tss/src/provider.rs, signing.rs and             *)
(* check_signing_allowed of lifecycle.rs), on top of KeyLifecycle.         *)
(*                                                                         *)
(* A ThresholdEcdsaProvider owns a clone of the key's material and is not  *)
(* told when the key changes. Whether it may still sign is for the         *)
(* application to ask of the key, with the version it noted when it made   *)
(* the provider. Asking and signing change nothing, so they are operators  *)
(* of the state here and the properties speak of every provider at every   *)
(* moment.                                                                 *)
(*                                                                         *)
(* InteractiveSigning is external: with the shares of fewer holders than   *)
(* the threshold the signature it yields is not the group key's, which     *)
(* threshold_sign finds by recovering the key.                             *)
(***************************************************************************)
EXTENDS KeyLifecycle

CONSTANTS
    ProviderIds,
    Bindings,           \* bound: what is asked to be signed, with its chain
    Subsets,            \* bound: positions asked to sign
    MAINNET,            \* chain 1
    MainnetAllowed      \* KEYMESH_ENABLE_MAINNET_TSS

ASSUME ProviderAssumption ==
    /\ MainnetAllowed \in BOOLEAN
    /\ Subsets \subseteq Seq(Nat)

VARIABLE providers      \* providers[p]: a ThresholdEcdsaProvider

signing == <<lifecycle, providers>>

Chains == {b.chain : b \in Bindings}

Provider == [material : Material, chain : Chains, version : Nat]

NoProvider == [material |-> NoMaterial, chain |-> 0, version |-> 0]

(* ThresholdEcdsaProvider::new, given the key's present material; version  *)
(* is what the application notes.                                          *)
NewProvider(p, chain) ==
    /\ key.material # NoMaterial
    /\ chain = MAINNET => MainnetAllowed
    /\ providers' = [providers EXCEPT ![p] =
          [material |-> key.material, chain |-> chain, version |-> key.version]]
    /\ UNCHANGED lifecycle

(* Mutant: the version asked about is not compared. *)
SigningAllowedAnyVersion(version) ==
    /\ key.state = "Active"
    /\ key.material # NoMaterial

(* check_signing_allowed *)
SigningAllowed(version) ==
    /\ key.state = "Active"
    /\ key.version = version
    /\ key.material # NoMaterial

(* The verifiers threshold_sign collects in a set. *)
Selected(material, subset) ==
    {material.participants[subset[i] + 1] : i \in 1 .. Len(subset)}

(* The signature the selected holders' shares yield recovers to the group  *)
(* key.                                                                    *)
Recovers(material, holders) == Cardinality(holders) >= material.threshold

(* threshold_sign *)
ThresholdSigns(material, subset, binding, session) ==
    /\ Len(subset) >= material.threshold
    /\ session = binding
    /\ \A i \in 1 .. Len(subset) : subset[i] < Len(material.participants)
    /\ ~HasDuplicate(subset)
    /\ Recovers(material, Selected(material, subset))

(* ThresholdEcdsaProvider::sign. A session is known by the binding its id  *)
(* is derived from.                                                        *)
CanSign(provider, subset, binding, session) ==
    /\ provider # NoProvider
    /\ binding.chain = provider.chain
    /\ ThresholdSigns(provider.material, subset, binding, session)

----------------------------------------------------------------------------
SigningInit ==
    /\ KeyInit
    /\ providers = [p \in ProviderIds |-> NoProvider]

SigningNext ==
    \/ KeyNext /\ UNCHANGED providers
    \/ \E p \in ProviderIds, chain \in Chains : NewProvider(p, chain)

SigningSpec == SigningInit /\ [][SigningNext]_signing

----------------------------------------------------------------------------
(* Properties *)

(* What a provider signs after a check of its version has succeeded is     *)
(* signed by a quorum of the key's present participants, under the key's   *)
(* present threshold: of all the clones that survive refreshes and         *)
(* rotations, the version lets through only those of the present set.      *)
CheckedSignature ==
    \A p \in ProviderIds, subset \in Subsets, b \in Bindings :
        /\ SigningAllowed(providers[p].version)
        /\ CanSign(providers[p], subset, b, b)
        => LET holders == Selected(providers[p].material, subset)
           IN  /\ holders \subseteq Holders(key.material.participants)
               /\ Cardinality(holders) >= key.material.threshold

(* Every provider, of any age, signs for the wallet the key was generated  *)
(* for: no re-sharing ends with another group key.                         *)
OneWalletKey ==
    /\ key.material # NoMaterial => key.material.groupKey = key.groupKey
    /\ \A p \in ProviderIds :
          providers[p] # NoProvider => providers[p].material.groupKey = key.groupKey

(* In the re-sharings of generation, of a refresh and of every rotation    *)
(* asked for, each old and each new holder takes part exactly once and in  *)
(* its roles, as long as the present participants are distinct and no more *)
(* new ones are named than a byte has numbers for.                         *)
HoldersTakePart ==
    LET old == key.material.participants
    IN  /\ EachTakesPartOnce(GenerationEntries, KeyInitHolders, <<0, 1, 2>>)
        /\ ~HasDuplicate(old) =>
              /\ EachTakesPartOnce(RefreshEntries(key.material), old, old)
              /\ \A id \in RotationIds :
                    LET names == rotations[id].newSet
                    IN  Len(names) <= 256 =>
                            EachTakesPartOnce(RotationEntries(key.material, names),
                                              old, Resolve(old, names))
=============================================================================
