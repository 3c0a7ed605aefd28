----------------------- MODULE GuardianRegistry_proofs -----------------------
(***************************************************************************)
(* The three representations of a guardian set agree, for any wallets and  *)
(* any guardians: the swap-and-pop list never loses or repeats one.        *)
(***************************************************************************)
EXTENDS GuardianRegistry, FiniteSetTheorems, TLAPS

(* ListEnumeratesActive, for one wallet. *)
Enumerates(list, set) ==
    /\ \A i \in 1 .. Len(list) : list[i] \in set
    /\ \A g \in set : \E i \in 1 .. Len(list) : list[i] = g
    /\ \A i, j \in 1 .. Len(list) : list[i] = list[j] => i = j

RegistryInv == RegistryTypeOK /\ ListEnumeratesActive /\ CountIsCardinality

LEMMA PerWallet ==
    ListEnumeratesActive <=> \A w \in Wallets : Enumerates(guardianList[w], active[w])
  BY DEF ListEnumeratesActive, Enumerates

LEMMA AppendEnumerates ==
    ASSUME NEW set \in SUBSET GuardianKeys, NEW list \in Seq(GuardianKeys),
           NEW g \in GuardianKeys, g \notin set, Enumerates(list, set)
    PROVE  /\ Append(list, g) \in Seq(GuardianKeys)
           /\ Len(Append(list, g)) = Len(list) + 1
           /\ Enumerates(Append(list, g), set \cup {g})
<1> DEFINE longer == Append(list, g)
<1>1. /\ longer \in Seq(GuardianKeys)
      /\ Len(longer) = Len(list) + 1
      /\ Len(list) \in Nat
      /\ \A i \in 1 .. Len(list) : longer[i] = list[i]
      /\ longer[Len(list) + 1] = g
  OBVIOUS
<1> HIDE DEF longer
<1>2. \A i \in 1 .. Len(longer) : i \in 1 .. Len(list) \/ i = Len(list) + 1
  BY <1>1
<1>3. \A i \in 1 .. Len(list) : i \in 1 .. Len(longer) /\ longer[i] = list[i] /\ list[i] # g
  BY <1>1 DEF Enumerates
<1>4. Len(list) + 1 \in 1 .. Len(longer)
  BY <1>1
<1>5. \A i \in 1 .. Len(longer) : longer[i] \in set \cup {g}
  BY <1>1, <1>2 DEF Enumerates
<1>6. \A h \in set \cup {g} : \E i \in 1 .. Len(longer) : longer[i] = h
  BY <1>1, <1>3, <1>4 DEF Enumerates
<1>7. \A i, j \in 1 .. Len(longer) : longer[i] = longer[j] => i = j
  BY <1>1, <1>2, <1>3 DEF Enumerates
<1>8. Enumerates(longer, set \cup {g})
  BY <1>5, <1>6, <1>7 DEF Enumerates
<1> QED
  BY <1>1, <1>8 DEF longer

(* The list keeps every guardian but the removed one: the last entry moves *)
(* to the hole, unless it is the hole itself.                              *)
LEMMA RemoveEnumerates ==
    ASSUME NEW set \in SUBSET GuardianKeys, NEW list \in Seq(GuardianKeys),
           NEW g \in set, Enumerates(list, set)
    PROVE  /\ RemoveFromList(list, g) \in Seq(GuardianKeys)
           /\ Len(RemoveFromList(list, g)) = Len(list) - 1
           /\ Enumerates(RemoveFromList(list, g), set \ {g})
<1> DEFINE hole == FirstIndex(list, g)
           last == Len(list)
           shorter == RemoveFromList(list, g)
<1>1. PICK k \in 1 .. last : list[k] = g
  BY DEF Enumerates
<1>2. \A j \in 1 .. last : list[j] = g => j = k
  BY <1>1 DEF Enumerates
<1>3. hole = k
  <2>1. last \in Nat
    OBVIOUS
  <2>2. \A j \in 1 .. (k - 1) : list[j] # g
    BY <1>1, <1>2, <2>1
  <2>3. \E i \in 1 .. last : list[i] = g /\ \A j \in 1 .. (i - 1) : list[j] # g
    BY <1>1, <2>2
  <2>4. hole \in 1 .. last /\ list[hole] = g
    BY <2>3 DEF FirstIndex
  <2> QED
    BY <1>2, <2>4
<1>4. last \in Nat /\ last >= 1 /\ \A i \in 1 .. last : list[i] \in GuardianKeys
  BY <1>1
<1>5. shorter = [i \in 1 .. (last - 1) |-> IF i = k THEN list[last] ELSE list[i]]
  BY <1>1, <1>3 DEF RemoveFromList, SwapAndPop
<1>6. shorter \in Seq(GuardianKeys) /\ Len(shorter) = last - 1
  <2>1. last - 1 \in Nat /\ \A i \in 1 .. (last - 1) : i \in 1 .. last /\ last \in 1 .. last
    BY <1>4
  <2>2. shorter \in [1 .. (last - 1) -> GuardianKeys]
    BY <1>4, <1>5, <2>1
  <2> QED
    BY <2>1, <2>2, <1>5
<1>7. \A i \in 1 .. (last - 1) :
          shorter[i] = IF i = k THEN list[last] ELSE list[i]
  BY <1>5
<1> HIDE DEF hole, last, shorter
<1> USE <1>1, <1>4
<1>8. last \in 1 .. last /\ \A i \in 1 .. (last - 1) : i \in 1 .. last /\ i # last
  OBVIOUS
<1>9. \A i \in 1 .. last : list[i] \in set
  BY DEF Enumerates, last
<1>10. \A i, j \in 1 .. last : list[i] = list[j] => i = j
  BY DEF Enumerates, last
<1>11. \A i \in 1 .. (last - 1) : shorter[i] \in set \ {g}
  BY <1>2, <1>7, <1>8, <1>9
<1>12. \A h \in set \ {g} : \E i \in 1 .. (last - 1) : shorter[i] = h
  <2> SUFFICES ASSUME NEW h \in set \ {g}
               PROVE  \E i \in 1 .. (last - 1) : shorter[i] = h
    OBVIOUS
  <2>1. PICK i \in 1 .. last : list[i] = h
    BY DEF Enumerates, last
  <2>2. i # k
    BY <2>1
  <2>3. CASE i = last
    <3>1. k \in 1 .. (last - 1)
      BY <2>2, <2>3
    <3> QED
      BY <1>7, <2>1, <2>3, <3>1
  <2>4. CASE i # last
    <3>1. i \in 1 .. (last - 1)
      BY <2>4
    <3> QED
      BY <1>7, <2>1, <2>2, <3>1
  <2> QED
    BY <2>3, <2>4
<1>13. \A i, j \in 1 .. (last - 1) : shorter[i] = shorter[j] => i = j
  BY <1>7, <1>8, <1>10
<1>14. Enumerates(shorter, set \ {g})
  BY <1>6, <1>11, <1>12, <1>13 DEF Enumerates
<1> QED
  BY <1>6, <1>14 DEF shorter, last

LEMMA RegistryInit0 == RegistryInit => RegistryInv
<1> SUFFICES ASSUME RegistryInit PROVE RegistryInv
  OBVIOUS
<1>1. <<>> \in Seq(GuardianKeys) /\ Len(<<>>) = 0
  OBVIOUS
<1> QED
  BY <1>1, FS_EmptySet
     DEF RegistryInit, RegistryInv, RegistryTypeOK, ListEnumeratesActive, CountIsCardinality

(* An addition or a removal rewrites one wallet's three representations.   *)
LEMMA RegistryStep == RegistryInv /\ [RegistryNext]_registryVars => RegistryInv'
<1> SUFFICES ASSUME RegistryInv, [RegistryNext]_registryVars PROVE RegistryInv'
  OBVIOUS
<1>0. /\ RegistryTypeOK
      /\ \A w \in Wallets :
            /\ Enumerates(guardianList[w], active[w])
            /\ guardianCount[w] = Cardinality(active[w])
            /\ guardianCount[w] = Len(guardianList[w])
            /\ IsFiniteSet(active[w])
  BY PerWallet, RegistryAssumption, FS_Subset
     DEF RegistryInv, RegistryTypeOK, CountIsCardinality
<1>1. CASE UNCHANGED registryVars
  BY <1>1 DEF registryVars, RegistryInv, RegistryTypeOK, ListEnumeratesActive,
              CountIsCardinality
<1>2. ASSUME NEW w \in Wallets, NEW set \in SUBSET GuardianKeys,
             NEW list \in Seq(GuardianKeys), NEW count \in Nat,
             active' = [active EXCEPT ![w] = set],
             guardianList' = [guardianList EXCEPT ![w] = list],
             guardianCount' = [guardianCount EXCEPT ![w] = count],
             Enumerates(list, set), count = Cardinality(set), count = Len(list)
      PROVE  RegistryInv'
  <2>1. RegistryTypeOK'
    BY <1>0, <1>2 DEF RegistryTypeOK
  <2>2. \A v \in Wallets :
            /\ Enumerates(guardianList'[v], active'[v])
            /\ guardianCount'[v] = Cardinality(active'[v])
            /\ guardianCount'[v] = Len(guardianList'[v])
    BY <1>0, <1>2 DEF RegistryTypeOK
  <2>3. ListEnumeratesActive' /\ CountIsCardinality'
    BY <2>2 DEF ListEnumeratesActive, CountIsCardinality, Enumerates
  <2> QED
    BY <2>1, <2>3 DEF RegistryInv
<1>3. ASSUME NEW w \in Wallets, NEW g \in GuardianKeys, RegistryAdd(w, g)
      PROVE  RegistryInv'
  <2> DEFINE set == active[w] \cup {g}
             list == Append(guardianList[w], g)
             count == guardianCount[w] + 1
  <2>1. /\ active[w] \in SUBSET GuardianKeys
        /\ guardianList[w] \in Seq(GuardianKeys)
        /\ guardianCount[w] \in Nat
        /\ g \notin active[w]
    BY <1>0, <1>3 DEF RegistryTypeOK, RegistryAdd
  <2>2. /\ list \in Seq(GuardianKeys)
        /\ Len(list) = Len(guardianList[w]) + 1
        /\ Enumerates(list, set)
    BY <1>0, <2>1, AppendEnumerates
  <2>3. Cardinality(set) = Cardinality(active[w]) + 1
    BY <1>0, <2>1, FS_AddElement
  <2>4. /\ active' = [active EXCEPT ![w] = set]
        /\ guardianList' = [guardianList EXCEPT ![w] = list]
        /\ guardianCount' = [guardianCount EXCEPT ![w] = count]
    BY <1>3 DEF RegistryAdd
  <2>5. /\ set \in SUBSET GuardianKeys
        /\ count \in Nat
        /\ count = Cardinality(set)
        /\ count = Len(list)
    BY <1>0, <2>1, <2>2, <2>3
  <2> HIDE DEF set, list, count
  <2> QED
    BY <1>2, <2>2, <2>4, <2>5
<1>4. ASSUME NEW w \in Wallets, NEW g \in GuardianKeys, RegistryRemove(w, g)
      PROVE  RegistryInv'
  <2> DEFINE set == active[w] \ {g}
             list == RemoveFromList(guardianList[w], g)
             count == guardianCount[w] - 1
  <2>1. /\ active[w] \in SUBSET GuardianKeys
        /\ guardianList[w] \in Seq(GuardianKeys)
        /\ guardianCount[w] \in Nat
        /\ g \in active[w]
    BY <1>0, <1>4 DEF RegistryTypeOK, RegistryRemove
  <2>2. /\ list \in Seq(GuardianKeys)
        /\ Len(list) = Len(guardianList[w]) - 1
        /\ Enumerates(list, set)
    BY <1>0, <2>1, RemoveEnumerates
  <2>3. Cardinality(set) = Cardinality(active[w]) - 1
    BY <1>0, <2>1, FS_RemoveElement
  <2>4. /\ active' = [active EXCEPT ![w] = set]
        /\ guardianList' = [guardianList EXCEPT ![w] = list]
        /\ guardianCount' = [guardianCount EXCEPT ![w] = count]
    BY <1>4 DEF RegistryRemove
  <2>5. /\ set \in SUBSET GuardianKeys
        /\ count = Cardinality(set)
        /\ count = Len(list)
    BY <1>0, <2>1, <2>2, <2>3
  <2>6. count \in Nat
    BY <2>2, <2>5
  <2> HIDE DEF set, list, count
  <2> QED
    BY <1>2, <2>2, <2>4, <2>5, <2>6
<1> QED
  BY <1>1, <1>3, <1>4 DEF RegistryNext

LEMMA RegistryInvariance == RegistrySpec => []RegistryInv
  BY RegistryInit0, RegistryStep, PTL DEF RegistrySpec

(* The counter never underflows, the list stays a list of guardians.       *)
THEOREM RegistryTyped == RegistrySpec => []RegistryTypeOK
<1>1. RegistryInv => RegistryTypeOK
  BY DEF RegistryInv
<1> QED
  BY <1>1, RegistryInvariance, PTL

(* Enumeration after any sequence of additions and swap-and-pop removals   *)
(* yields each active guardian once.                                       *)
THEOREM ListCorrect == RegistrySpec => []ListEnumeratesActive
<1>1. RegistryInv => ListEnumeratesActive
  BY DEF RegistryInv
<1> QED
  BY <1>1, RegistryInvariance, PTL

(* Quorums are checked against the true number of active guardians.        *)
THEOREM CountCorrect == RegistrySpec => []CountIsCardinality
<1>1. RegistryInv => CountIsCardinality
  BY DEF RegistryInv
<1> QED
  BY <1>1, RegistryInvariance, PTL
=============================================================================
