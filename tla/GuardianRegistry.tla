-------------------------- MODULE GuardianRegistry --------------------------
(***************************************************************************)
(* The guardian-set storage module the RecoveryManager owns. It keeps each *)
(* set three times: as a membership mapping, as a list for enumeration and *)
(* as a counter, and every quorum check of the protocol reads the counter. *)
(* Only the RecoveryManager may call the two operations.                   *)
(***************************************************************************)
EXTENDS Integers, Sequences, FiniteSets

CONSTANTS
    Wallets,
    GuardianKeys   \* nonzero addresses

ASSUME RegistryAssumption == IsFiniteSet(GuardianKeys)

VARIABLES
    active,         \* _active: the guardians of each wallet
    guardianList,   \* _guardianList
    guardianCount   \* _guardianCount

registryVars == <<active, guardianList, guardianCount>>

RegistryInit ==
    /\ active = [w \in Wallets |-> {}]
    /\ guardianList = [w \in Wallets |-> <<>>]
    /\ guardianCount = [w \in Wallets |-> 0]

(* The first position of g is overwritten by the last entry, which is      *)
(* popped; a list without g stays as it is.                                *)
SwapAndPop(list, i) ==
    [k \in 1 .. (Len(list) - 1) |-> IF k = i THEN list[Len(list)] ELSE list[k]]

FirstIndex(list, g) ==
    CHOOSE i \in 1 .. Len(list) :
        list[i] = g /\ \A j \in 1 .. (i - 1) : list[j] # g

(* Mutant: the last entry is popped, whoever it is. *)
PopLast(list, g) == SubSeq(list, 1, Len(list) - 1)

RemoveFromList(list, g) ==
    IF \E i \in 1 .. Len(list) : list[i] = g
    THEN SwapAndPop(list, FirstIndex(list, g))
    ELSE list

(* Mutant: an active guardian may be added again. *)
AddAgain(w, g) ==
    /\ Len(guardianList[w]) < 3
    /\ active' = [active EXCEPT ![w] = @ \cup {g}]
    /\ guardianList' = [guardianList EXCEPT ![w] = Append(@, g)]
    /\ guardianCount' = [guardianCount EXCEPT ![w] = @ + 1]

RegistryAdd(w, g) ==
    /\ g \notin active[w]
    /\ active' = [active EXCEPT ![w] = @ \cup {g}]
    /\ guardianList' = [guardianList EXCEPT ![w] = Append(@, g)]
    /\ guardianCount' = [guardianCount EXCEPT ![w] = @ + 1]

(* Mutant: a stranger may be removed. *)
RemoveStranger(w, g) ==
    /\ active' = [active EXCEPT ![w] = @ \ {g}]
    /\ guardianList' = [guardianList EXCEPT ![w] = RemoveFromList(@, g)]
    /\ guardianCount' = [guardianCount EXCEPT ![w] = @ - 1]

RegistryRemove(w, g) ==
    /\ g \in active[w]
    /\ active' = [active EXCEPT ![w] = @ \ {g}]
    /\ guardianList' = [guardianList EXCEPT ![w] = RemoveFromList(@, g)]
    /\ guardianCount' = [guardianCount EXCEPT ![w] = @ - 1]

RegistryNext ==
    \E w \in Wallets, g \in GuardianKeys : RegistryAdd(w, g) \/ RegistryRemove(w, g)

RegistrySpec == RegistryInit /\ [][RegistryNext]_registryVars

----------------------------------------------------------------------------
(* Properties *)

(* The three representations have their storage types. *)
RegistryTypeOK ==
    /\ active \in [Wallets -> SUBSET GuardianKeys]
    /\ guardianList \in [Wallets -> Seq(GuardianKeys)]
    /\ guardianCount \in [Wallets -> Nat]

(* The list enumerates exactly the active guardians, each once, however    *)
(* additions and swap-and-pop removals follow each other.                  *)
ListEnumeratesActive ==
    \A w \in Wallets :
        LET list == guardianList[w]
        IN  /\ \A i \in 1 .. Len(list) : list[i] \in active[w]
            /\ \A g \in active[w] : \E i \in 1 .. Len(list) : list[i] = g
            /\ \A i, j \in 1 .. Len(list) : list[i] = list[j] => i = j

(* The counter every quorum check reads is the number of active guardians. *)
CountIsCardinality ==
    \A w \in Wallets :
        /\ guardianCount[w] = Cardinality(active[w])
        /\ guardianCount[w] = Len(guardianList[w])
=============================================================================
