---------------------- MODULE TransactionPolicy_proofs ----------------------
(***************************************************************************)
(* Theorems about the whole on-chain protocol.                             *)
(***************************************************************************)
EXTENDS PolicyPreview, RecoveryGovernance_proofs

(* A quorum a wallet may set is within the range recovery governance tries. *)
LEMMA QuorumRange ==
    ASSUME TypeOK, NEW w \in Wallets, NEW q \in 1 .. GuardianCount(w)
    PROVE  q \in 1 .. Cardinality(GuardianKeys)
<1>1. guardians[w] \subseteq GuardianKeys
  BY DEF TypeOK
<1>2. /\ Cardinality(guardians[w]) \in Nat /\ Cardinality(GuardianKeys) \in Nat
      /\ Cardinality(guardians[w]) <= Cardinality(GuardianKeys)
  BY <1>1, AddressAssumption, FS_Subset, FS_CardinalityType
<1> QED
  BY <1>2 DEF GuardianCount

LEMMA ExecuteStep ==
    ASSUME TypeOK, NEW w \in Wallets, NEW signer \in Keys, NEW t \in Transactions,
           Execute(w, signer, t)
    PROVE  GovernanceStep(w) \/ UNCHANGED vars
<1> DEFINE call == t.call
<1>1. CASE RecoveryCall(w, call)
  <2>1. CASE call.selector = "addGuardian" /\ AddGuardian(w, call.guardian)
    BY <2>1, PolicyAssumption DEF GovernanceStep
  <2>2. CASE call.selector = "removeGuardian" /\ RemoveGuardian(w, call.guardian)
    BY <2>2, PolicyAssumption DEF GovernanceStep
  <2>3. CASE SetQuorum(w, call.quorum)
    <3>1. call.quorum \in 1 .. GuardianCount(w)
      BY <2>3 DEF SetQuorum
    <3> QED
      BY <2>3, <3>1, QuorumRange DEF GovernanceStep
  <2>4. CASE call.selector = "setRecoveryTimelock" /\ SetRecoveryTimelock(w, call.seconds)
    BY <2>4, PolicyAssumption DEF GovernanceStep
  <2> QED
    BY <1>1, <2>1, <2>2, <2>3, <2>4 DEF RecoveryCall
<1>2. CASE PolicyCall(w, call) \/ ExternalCall(call)
  BY <1>2 DEF PolicyCall, ExternalCall
<1> QED
  BY <1>1, <1>2 DEF Execute

(* Every step of the protocol is a step of recovery governance or none.     *)
LEMMA PolicyStep ==
    ASSUME TypeOK, [PolicyNext]_allVars
    PROVE  [Next]_vars
<1>1. CASE UNCHANGED allVars
  BY <1>1 DEF allVars
<1>2. CASE Tick
  BY <1>2 DEF Next
<1>3. ASSUME NEW w \in Wallets, NEW caller \in Keys, DirectStep(w, caller)
      PROVE  Next
  BY <1>3 DEF DirectStep, Next, Callers
<1>4. ASSUME NEW w \in Wallets, NEW caller \in Keys, NEW t \in Transactions,
             AuthorizationStep(w, caller, t)
      PROVE  UNCHANGED vars
  BY <1>4 DEF AuthorizationStep, RequestAuthorization, ApproveTransaction, CancelAuthorization
<1>5. ASSUME NEW w \in Wallets, NEW caller \in Keys, NEW t \in Transactions,
             Execute(w, caller, t)
      PROVE  [Next]_vars
  BY <1>5, ExecuteStep DEF Next
<1> QED
  BY <1>1, <1>2, <1>3, <1>4, <1>5 DEF PolicyNext

(* Execution and policy add no way to move devices, guardians or requests,  *)
(* so every theorem of recovery governance holds of the whole protocol.     *)
THEOREM PolicyImplementsGovernance == PolicySpec => ImplementsGovernance
<1>1. PolicyInit => Init /\ TypeOK /\ CountPositive
  BY TypeInit DEF PolicyInit
<1>2. TypeOK /\ CountPositive /\ [PolicyNext]_allVars
          => [Next]_vars /\ TypeOK' /\ CountPositive'
  BY PolicyStep, TypeStep
<1> QED
  BY <1>1, <1>2, PTL DEF PolicySpec, ImplementsGovernance, Spec

(* In particular no transaction a device signs can take a recovery's        *)
(* warning window away.                                                     *)
THEOREM PolicyKeepsWarningWindow == PolicySpec => [](DeviceSetSound /\ WarningWindow)
<1>1. Spec => [](DeviceSetSound /\ WarningWindow)
  BY DeviceSetCorrect, WarningWindowKept, PTL
<1> QED
  BY <1>1, PolicyImplementsGovernance, PTL DEF ImplementsGovernance

----------------------------------------------------------------------------
(* The policy of a wallet                                                   *)

LEMMA ConfigFields ==
    ASSUME NEW c \in PolicyConfig
    PROVE  /\ c.defaultMode \in Modes
           /\ c.valueThreshold \in Nat
           /\ c.guardianApprovalsRequired \in Nat
           /\ c.version \in Nat
  BY DEF PolicyConfig

(* A wallet's policy as a step may leave it: as it was, or with the next    *)
(* version.                                                                 *)
PolicyMoves(w) ==
    /\ config'[w] \in PolicyConfig
    /\ config'[w].version = config[w].version + 1

LEMMA StoreMoves ==
    ASSUME PolicyTypeOK, NEW w \in Wallets, NEW mode, NEW threshold \in Nat, NEW required,
           Store(w, mode, threshold, required)
    PROVE  /\ config' = [config EXCEPT ![w] = config'[w]]
           /\ PolicyMoves(w)
           /\ UNCHANGED <<restrictedDestinations, restrictedSelectors>>
<1> DEFINE c == [defaultMode |-> mode, valueThreshold |-> threshold,
                 guardianApprovalsRequired |-> required, version |-> config[w].version + 1]
<1>1. config[w] \in PolicyConfig /\ DOMAIN config = Wallets
  BY DEF PolicyTypeOK
<1>2. config[w].version + 1 \in Nat
  BY <1>1, ConfigFields
<1>3. guardians[w] \subseteq GuardianKeys
  BY DEF PolicyTypeOK, TypeOK
<1>4. GuardianCount(w) \in Nat
  BY <1>3, AddressAssumption, FS_Subset, FS_CardinalityType DEF GuardianCount
<1>5. mode \in Modes /\ required \in Nat
  BY <1>4 DEF Store
<1>6. config' = [config EXCEPT ![w] = c]
  BY DEF Store
<1>7. config'[w] = c
  BY <1>1, <1>6
<1>8. c \in PolicyConfig
  BY <1>2, <1>5 DEF PolicyConfig
<1>9. c.version = config[w].version + 1
  OBVIOUS
<1> QED
  BY <1>6, <1>7, <1>8, <1>9 DEF PolicyMoves, Store

LEMMA BumpMoves ==
    ASSUME PolicyTypeOK, NEW w \in Wallets, BumpVersion(w)
    PROVE  config' = [config EXCEPT ![w] = config'[w]] /\ PolicyMoves(w)
<1>1. config[w] \in PolicyConfig /\ DOMAIN config = Wallets
  BY DEF PolicyTypeOK
<1>2. config[w].version + 1 \in Nat
  BY <1>1, ConfigFields
<1>3. config' = [config EXCEPT ![w] = [config[w] EXCEPT !.version = config[w].version + 1]]
  BY DEF BumpVersion
<1>4. config'[w] = [config[w] EXCEPT !.version = config[w].version + 1]
  BY <1>1, <1>3
<1>5. [config[w] EXCEPT !.version = config[w].version + 1] \in PolicyConfig
  BY <1>1, <1>2 DEF PolicyConfig
<1>6. config'[w].version = config[w].version + 1
  BY <1>1, <1>4 DEF PolicyConfig
<1> QED
  BY <1>3, <1>4, <1>5, <1>6 DEF PolicyMoves

(* An executed policy call moves the wallet's own policy and no other's.    *)
LEMMA PolicyCallMoves ==
    ASSUME PolicyTypeOK, NEW w \in Wallets, NEW t \in Transactions, PolicyCall(w, t.call)
    PROVE  /\ config' = [config EXCEPT ![w] = config'[w]]
           /\ PolicyMoves(w)
           /\ \A v \in Wallets \ {w} :
                 /\ restrictedDestinations'[v] = restrictedDestinations[v]
                 /\ restrictedSelectors'[v] = restrictedSelectors[v]
           /\ DOMAIN restrictedDestinations' = Wallets
           /\ DOMAIN restrictedSelectors' = Wallets
<1> DEFINE call == t.call
<1>1. /\ config[w].valueThreshold \in Nat
      /\ DOMAIN restrictedDestinations = Wallets
      /\ DOMAIN restrictedSelectors = Wallets
  BY ConfigFields DEF PolicyTypeOK
<1>2. CASE call.selector = "configurePolicy" /\ ConfigurePolicy(w, call)
  <2>1. call.threshold \in Nat
    BY <1>2, PolicyAssumption
  <2> QED
    BY <1>1, <1>2, <2>1, StoreMoves DEF ConfigurePolicy
<1>3. CASE call.selector = "setValueThreshold" /\ SetValueThreshold(w, call)
  <2>1. call.threshold \in Nat
    BY <1>3, PolicyAssumption
  <2> QED
    BY <1>1, <1>3, <2>1, StoreMoves DEF SetValueThreshold
<1>4. CASE SetDefaultMode(w, call)
  BY <1>1, <1>4, StoreMoves DEF SetDefaultMode
<1>5. CASE SetTransactionQuorum(w, call)
  BY <1>1, <1>5, StoreMoves DEF SetTransactionQuorum
<1>6. CASE SetDestinationRestriction(w, call)
  BY <1>1, <1>6, BumpMoves DEF SetDestinationRestriction
<1>7. CASE SetSelectorRestriction(w, call)
  BY <1>1, <1>7, BumpMoves DEF SetSelectorRestriction
<1> QED
  BY <1>2, <1>3, <1>4, <1>5, <1>6, <1>7 DEF PolicyCall

(* What a step is to nonces, settings and records.                          *)
RecordStep(w, t) ==
    \/ \E caller \in Keys : RequestAuthorization(w, caller, t)
    \/ \E caller \in Keys : ApproveTransaction(w, caller, t)
    \/ \E caller \in Keys : CancelAuthorization(w, caller, t)

LEMMA PolicyKinds ==
    ASSUME [PolicyNext]_allVars
    PROVE  \/ UNCHANGED policyVars
           \/ \E w \in Wallets, t \in Transactions : RecordStep(w, t)
           \/ \E w \in Wallets, t \in Transactions, signer \in Keys : Execute(w, signer, t)
<1>1. ASSUME NEW w \in Wallets, NEW caller \in Keys, NEW t \in Transactions,
             AuthorizationStep(w, caller, t)
      PROVE  RecordStep(w, t)
  BY <1>1 DEF AuthorizationStep, RecordStep
<1> QED
  BY <1>1 DEF PolicyNext, DirectStep, allVars

LEMMA ExecuteSettings ==
    ASSUME PolicyTypeOK, NEW w \in Wallets, NEW t \in Transactions, NEW signer \in Keys,
           Execute(w, signer, t)
    PROVE  /\ \/ UNCHANGED settingVars
              \/ PolicyCall(w, t.call)
           /\ nonce' = [nonce EXCEPT ![w] = nonce[w] + 1]
           /\ \/ UNCHANGED recordVars
              \/ t.wallet = w /\ t.nonce = nonce[w] /\ ConsumeAuthorization(w, t)
  BY DEF Execute, RecoveryCall, ExternalCall

(* A wallet's policy stays, or takes the next version; settings of a wallet *)
(* whose version stays, stay.                                               *)
LEMMA ConfigKinds ==
    ASSUME PolicyTypeOK, [PolicyNext]_allVars
    PROVE  /\ config' \in [Wallets -> PolicyConfig]
           /\ DOMAIN restrictedDestinations' = Wallets
           /\ DOMAIN restrictedSelectors' = Wallets
           /\ \A v \in Wallets :
                 \/ /\ config'[v] = config[v]
                    /\ restrictedDestinations'[v] = restrictedDestinations[v]
                    /\ restrictedSelectors'[v] = restrictedSelectors[v]
                 \/ PolicyMoves(v)
<1>1. CASE UNCHANGED settingVars
  BY <1>1 DEF settingVars, PolicyTypeOK
<1>2. ASSUME NEW w \in Wallets, NEW t \in Transactions, PolicyCall(w, t.call)
      PROVE  /\ config' \in [Wallets -> PolicyConfig]
             /\ DOMAIN restrictedDestinations' = Wallets
             /\ DOMAIN restrictedSelectors' = Wallets
             /\ \A v \in Wallets :
                   \/ /\ config'[v] = config[v]
                      /\ restrictedDestinations'[v] = restrictedDestinations[v]
                      /\ restrictedSelectors'[v] = restrictedSelectors[v]
                   \/ PolicyMoves(v)
  <2>1. config \in [Wallets -> PolicyConfig]
    BY DEF PolicyTypeOK
  <2>2. config' = [config EXCEPT ![w] = config'[w]] /\ PolicyMoves(w)
    BY <1>2, PolicyCallMoves
  <2>3. config'[w] \in PolicyConfig
    BY <2>2 DEF PolicyMoves
  <2>4. config' \in [Wallets -> PolicyConfig]
    BY <2>1, <2>2, <2>3
  <2>5. \A v \in Wallets \ {w} : config'[v] = config[v]
    BY <2>1, <2>2
  <2> QED
    BY <1>2, <2>2, <2>4, <2>5, PolicyCallMoves
<1>3. ASSUME NEW w \in Wallets, NEW t \in Transactions, RecordStep(w, t)
      PROVE  UNCHANGED settingVars
  BY <1>3 DEF RecordStep, RequestAuthorization, ApproveTransaction, CancelAuthorization
<1> QED
  BY <1>1, <1>2, <1>3, PolicyKinds, ExecuteSettings DEF policyVars

LEMMA NonceKinds ==
    ASSUME PolicyTypeOK, [PolicyNext]_allVars
    PROVE  /\ nonce' \in [Wallets -> Nat]
           /\ \A v \in Wallets : nonce'[v] >= nonce[v]
<1>1. nonce \in [Wallets -> Nat]
  BY DEF PolicyTypeOK
<1>2. CASE UNCHANGED nonce
  BY <1>1, <1>2
<1>3. ASSUME NEW w \in Wallets, nonce' = [nonce EXCEPT ![w] = nonce[w] + 1]
      PROVE  /\ nonce' \in [Wallets -> Nat]
             /\ \A v \in Wallets : nonce'[v] >= nonce[v]
  BY <1>1, <1>3
<1>4. ASSUME NEW w \in Wallets, NEW t \in Transactions, RecordStep(w, t)
      PROVE  UNCHANGED nonce
  BY <1>4 DEF RecordStep, RequestAuthorization, ApproveTransaction, CancelAuthorization
<1> QED
  BY <1>2, <1>3, <1>4, PolicyKinds, ExecuteSettings DEF policyVars

----------------------------------------------------------------------------
(* Authorization records                                                    *)

LEMMA RecordFields ==
    ASSUME NEW r \in TxnAuthorization
    PROVE  /\ r.wallet \in Wallets \cup {NoAddress}
           /\ r.policyVersion \in Nat
           /\ r.approvals \in Nat
           /\ r.approvalsRequired \in Nat
           /\ r.status \in AuthStatuses
  BY DEF TxnAuthorization

(* What may happen to the record r of a transaction, and to who approved it *)
Opens(t, w) ==
    /\ authorization[t].status = "None"
    /\ authorization'[t] =
          [wallet |-> w, policyVersion |-> config[w].version, approvals |-> 0,
           approvalsRequired |-> ApprovalsRequired(w), status |-> "Pending"]
    /\ txnApproved'[t] = txnApproved[t]

Approves(t, g) ==
    LET r == authorization[t]
    IN  /\ r.status = "Pending"
        /\ r.wallet \in Wallets
        /\ g \in guardians[r.wallet] \ txnApproved[t]
        /\ r.policyVersion = config[r.wallet].version
        /\ txnApproved'[t] = txnApproved[t] \cup {g}
        /\ authorization'[t] =
              [r EXCEPT !.approvals = r.approvals + 1,
                        !.status = IF r.approvals + 1 >= r.approvalsRequired
                                   THEN "Authorized" ELSE r.status]

Cancels(t) ==
    /\ authorization[t].status \in {"Pending", "Authorized"}
    /\ authorization'[t] = [authorization[t] EXCEPT !.status = "Cancelled"]
    /\ txnApproved'[t] = txnApproved[t]

Consumes(t) ==
    LET r == authorization[t]
    IN  /\ r.status = "Authorized"
        /\ r.wallet = t.wallet
        /\ r.policyVersion = config[t.wallet].version
        /\ t.nonce = nonce[t.wallet]
        /\ nonce'[t.wallet] = nonce[t.wallet] + 1
        /\ authorization'[t] = [r EXCEPT !.status = "Executed"]
        /\ txnApproved'[t] = txnApproved[t]

RecordKept(t) ==
    authorization'[t] = authorization[t] /\ txnApproved'[t] = txnApproved[t]

LEMMA RecordKinds ==
    ASSUME PolicyTypeOK, [PolicyNext]_allVars
    PROVE  /\ authorization' = [u \in Transactions |-> authorization'[u]]
           /\ txnApproved' = [u \in Transactions |-> txnApproved'[u]]
           /\ \/ \A t \in Transactions : RecordKept(t)
              \/ \E t \in Transactions :
                    /\ \A u \in Transactions \ {t} : RecordKept(u)
                    /\ \/ UNCHANGED <<config, nonce>> /\ \E w \in Wallets : Opens(t, w)
                       \/ UNCHANGED <<config, nonce>> /\ \E g \in Keys : Approves(t, g)
                       \/ UNCHANGED <<config, nonce>> /\ Cancels(t)
                       \/ Consumes(t)
<1> DEFINE Goal ==
      /\ authorization' = [u \in Transactions |-> authorization'[u]]
      /\ txnApproved' = [u \in Transactions |-> txnApproved'[u]]
      /\ \/ \A t \in Transactions : RecordKept(t)
         \/ \E t \in Transactions :
               /\ \A u \in Transactions \ {t} : RecordKept(u)
               /\ \/ UNCHANGED <<config, nonce>> /\ \E w \in Wallets : Opens(t, w)
                  \/ UNCHANGED <<config, nonce>> /\ \E g \in Keys : Approves(t, g)
                  \/ UNCHANGED <<config, nonce>> /\ Cancels(t)
                  \/ Consumes(t)
<1>1. /\ authorization \in [Transactions -> TxnAuthorization]
      /\ txnApproved \in [Transactions -> SUBSET GuardianKeys]
  BY DEF PolicyTypeOK
<1>2. CASE UNCHANGED recordVars
  BY <1>1, <1>2 DEF recordVars, RecordKept
<1>3. ASSUME NEW w \in Wallets, NEW t \in Transactions, NEW caller \in Keys,
             RequestAuthorization(w, caller, t)
      PROVE  Goal
  <2>1. Opens(t, w)
    BY <1>1, <1>3 DEF RequestAuthorization, Opens
  <2>2. \A u \in Transactions \ {t} : RecordKept(u)
    BY <1>1, <1>3 DEF RequestAuthorization, RecordKept
  <2> QED
    BY <1>1, <1>3, <2>1, <2>2 DEF RequestAuthorization, settingVars
<1>4. ASSUME NEW w \in Wallets, NEW t \in Transactions, NEW caller \in Keys,
             ApproveTransaction(w, caller, t)
      PROVE  Goal
  <2>1. Approves(t, caller)
    BY <1>1, <1>4 DEF ApproveTransaction, CanApproveTransaction, Approves
  <2>2. \A u \in Transactions \ {t} : RecordKept(u)
    BY <1>1, <1>4 DEF ApproveTransaction, RecordKept
  <2> QED
    BY <1>1, <1>4, <2>1, <2>2 DEF ApproveTransaction, settingVars
<1>5. ASSUME NEW w \in Wallets, NEW t \in Transactions, NEW caller \in Keys,
             CancelAuthorization(w, caller, t)
      PROVE  Goal
  <2>1. Cancels(t)
    BY <1>1, <1>5 DEF CancelAuthorization, CanCancelAuthorization, Cancels
  <2>2. \A u \in Transactions \ {t} : RecordKept(u)
    BY <1>1, <1>5 DEF CancelAuthorization, RecordKept
  <2> QED
    BY <1>1, <1>5, <2>1, <2>2 DEF CancelAuthorization, settingVars
<1>6. ASSUME NEW w \in Wallets, NEW t \in Transactions,
             t.wallet = w, t.nonce = nonce[w], ConsumeAuthorization(w, t),
             nonce' = [nonce EXCEPT ![w] = nonce[w] + 1]
      PROVE  Goal
  <2>1. Consumes(t)
    <3>1. nonce'[w] = nonce[w] + 1
      BY <1>6 DEF PolicyTypeOK
    <3> QED
      BY <1>1, <1>6, <3>1 DEF ConsumeAuthorization, Consumes
  <2>2. \A u \in Transactions \ {t} : RecordKept(u)
    BY <1>1, <1>6 DEF ConsumeAuthorization, RecordKept
  <2> QED
    BY <1>1, <1>6, <2>1, <2>2 DEF ConsumeAuthorization
<1> QED
  BY <1>2, <1>3, <1>4, <1>5, <1>6, PolicyKinds, ExecuteSettings DEF RecordStep, policyVars

----------------------------------------------------------------------------
(* The inductive invariant: PolicyTypeOK, with what types TypeOK; a record  *)
(* not opened has no approvals and an opened one is some wallet's; a wallet *)
(* without a policy asks for a device only; and the two properties          *)
(* themselves.                                                              *)

Recorded(t) ==
    /\ authorization[t].status = "None" => txnApproved[t] = {}
    /\ authorization[t].status # "None" => authorization[t].wallet \in Wallets

Recordings == \A t \in Transactions : Recorded(t)

UnconfiguredPlain ==
    \A w \in Wallets : config[w].version = 0 => config[w].defaultMode = "DEVICE_ONLY"

(* The count of one record, and what binds it to the settings it was opened  *)
(* under.                                                                   *)
Current(t) ==
    LET record == authorization[t]
    IN  /\ record.policyVersion <= config[record.wallet].version
        /\ record.policyVersion = config[record.wallet].version =>
               record.approvalsRequired = ApprovalsRequired(record.wallet)

RecordCounted(t) ==
    authorization[t].status # "None" =>
        LET record == authorization[t]
        IN  /\ record.approvals = Cardinality(txnApproved[t])
            /\ record.approvalsRequired >= 1
            /\ record.status = "Pending" => record.approvals < record.approvalsRequired
            /\ record.status \in {"Authorized", "Executed"} =>
                   record.approvals >= record.approvalsRequired
            /\ Current(t)

AllCounted == \A t \in Transactions : RecordCounted(t)

PolicyInv ==
    /\ PolicyTypeOK
    /\ CountPositive
    /\ UnconfiguredPlain
    /\ Recordings
    /\ AllCounted
    /\ SingleConsumption

LEMMA RequiredPositive ==
    ASSUME PolicyTypeOK, NEW w \in Wallets
    PROVE  ApprovalsRequired(w) \in Nat /\ ApprovalsRequired(w) >= 1
<1>1. config[w].guardianApprovalsRequired \in Nat
  BY ConfigFields DEF PolicyTypeOK
<1> QED
  BY <1>1 DEF ApprovalsRequired

LEMMA ApprovedFinite ==
    ASSUME PolicyTypeOK, NEW t \in Transactions
    PROVE  IsFiniteSet(txnApproved[t]) /\ Cardinality(txnApproved[t]) \in Nat
<1>1. txnApproved[t] \subseteq GuardianKeys
  BY DEF PolicyTypeOK
<1> QED
  BY <1>1, AddressAssumption, FS_Subset, FS_CardinalityType

(* A record is a record again, whatever happens to it.                      *)
LEMMA RecordTyped ==
    ASSUME PolicyTypeOK, [PolicyNext]_allVars, NEW t \in Transactions
    PROVE  authorization'[t] \in TxnAuthorization /\ txnApproved'[t] \in SUBSET GuardianKeys
<1>1. authorization[t] \in TxnAuthorization /\ txnApproved[t] \in SUBSET GuardianKeys
  BY DEF PolicyTypeOK
<1>2. ASSUME NEW w \in Wallets, Opens(t, w)
      PROVE  authorization'[t] \in TxnAuthorization
  <2>1. config[w].version \in Nat
    BY ConfigFields DEF PolicyTypeOK
  <2> QED
    BY <1>2, <2>1, RequiredPositive DEF Opens, TxnAuthorization, AuthStatuses
<1>3. ASSUME NEW g \in Keys, Approves(t, g)
      PROVE  authorization'[t] \in TxnAuthorization /\ txnApproved'[t] \in SUBSET GuardianKeys
  <2>1. authorization[t].approvals + 1 \in Nat
    BY <1>1, RecordFields
  <2>2. g \in GuardianKeys
    BY <1>3 DEF Approves, PolicyTypeOK, TypeOK
  <2>3. PICK status \in AuthStatuses :
           authorization'[t] = [authorization[t] EXCEPT !.approvals = authorization[t].approvals + 1,
                                                        !.status = status]
    BY <1>1, <1>3, RecordFields DEF Approves, AuthStatuses
  <2>4. authorization'[t] \in TxnAuthorization
    BY <1>1, <2>1, <2>3 DEF TxnAuthorization
  <2> QED
    BY <1>1, <1>3, <2>2, <2>4 DEF Approves
<1>4. CASE Cancels(t)
  BY <1>1, <1>4 DEF Cancels, TxnAuthorization, AuthStatuses
<1>5. CASE Consumes(t)
  BY <1>1, <1>5 DEF Consumes, TxnAuthorization, AuthStatuses
<1>6. CASE RecordKept(t)
  BY <1>1, <1>6 DEF RecordKept
<1>7. txnApproved'[t] = txnApproved[t] \/ (\E g \in Keys : Approves(t, g))
  BY RecordKinds DEF RecordKept, Opens, Cancels, Consumes
<1> QED
  BY <1>1, <1>2, <1>3, <1>4, <1>5, <1>6, <1>7, RecordKinds

LEMMA PolicyTypeStep ==
    ASSUME PolicyTypeOK, CountPositive, [PolicyNext]_allVars
    PROVE  PolicyTypeOK' /\ CountPositive'
<1>1. TypeOK' /\ CountPositive'
  BY PolicyStep, TypeStep DEF PolicyTypeOK
<1>2. authorization' \in [Transactions -> TxnAuthorization]
  <2>1. authorization' = [u \in Transactions |-> authorization'[u]]
    BY RecordKinds
  <2> QED
    BY <2>1, RecordTyped
<1>3. txnApproved' \in [Transactions -> SUBSET GuardianKeys]
  <2>1. txnApproved' = [u \in Transactions |-> txnApproved'[u]]
    BY RecordKinds
  <2> QED
    BY <2>1, RecordTyped
<1> QED
  BY <1>1, <1>2, <1>3, ConfigKinds, NonceKinds DEF PolicyTypeOK

(* Counting                                                                 *)

LEMMA CountedAll == AllCounted => AuthorizationCounted
  BY DEF AuthorizationCounted, AllCounted, RecordCounted, Current, Opened

LEMMA RecordedStep ==
    ASSUME PolicyTypeOK, Recordings, [PolicyNext]_allVars
    PROVE  Recordings'
<1> SUFFICES ASSUME NEW t \in Transactions
             PROVE  Recorded(t)'
  BY DEF Recordings
<1>1. authorization[t] \in TxnAuthorization /\ Recorded(t)
  BY DEF PolicyTypeOK, Recordings
<1>2. ASSUME NEW w \in Wallets, Opens(t, w)
      PROVE  Recorded(t)'
  BY <1>2 DEF Opens, Recorded
<1>3. ASSUME NEW g \in Keys, Approves(t, g)
      PROVE  Recorded(t)'
  <2>1. authorization'[t].wallet = authorization[t].wallet
    BY <1>1, <1>3 DEF Approves, TxnAuthorization
  <2>2. authorization'[t].status \in {"Authorized", "Pending"}
    BY <1>1, <1>3 DEF Approves, TxnAuthorization
  <2> QED
    BY <1>1, <1>3, <2>1, <2>2 DEF Approves, Recorded
<1>4. CASE Cancels(t)
  BY <1>1, <1>4 DEF Cancels, Recorded, TxnAuthorization
<1>5. CASE Consumes(t)
  BY <1>1, <1>5 DEF Consumes, Recorded, TxnAuthorization
<1>6. CASE RecordKept(t)
  BY <1>1, <1>6 DEF RecordKept, Recorded
<1> QED
  BY <1>2, <1>3, <1>4, <1>5, <1>6, RecordKinds

(* A wallet's required approvals move with its version only.                *)
LEMMA RequiredKept ==
    ASSUME PolicyTypeOK, [PolicyNext]_allVars, NEW w \in Wallets
    PROVE  /\ config[w].version \in Nat
           /\ config'[w].version \in Nat
           /\ \/ /\ config'[w].version = config[w].version
                 /\ ApprovalsRequired(w)' = ApprovalsRequired(w)
              \/ config'[w].version = config[w].version + 1
  BY ConfigKinds, ConfigFields DEF PolicyTypeOK, PolicyMoves, ApprovalsRequired

LEMMA CountedOne ==
    ASSUME PolicyTypeOK, Recordings, AllCounted, [PolicyNext]_allVars,
           NEW t \in Transactions
    PROVE  RecordCounted(t)'
<1> DEFINE r == authorization[t]
           s == authorization'[t]
<1>1. r \in TxnAuthorization /\ Recorded(t) /\ RecordCounted(t)
  BY DEF PolicyTypeOK, Recordings, AllCounted
<1>2. /\ r.policyVersion \in Nat /\ r.approvals \in Nat /\ r.approvalsRequired \in Nat
  BY <1>1, RecordFields
(* Who keeps wallet and terms keeps what binds them to the policy.          *)
<1>3. ASSUME r.status # "None", s.wallet = r.wallet, s.policyVersion = r.policyVersion,
             s.approvalsRequired = r.approvalsRequired
      PROVE  Current(t)'
  <2>1. PICK w \in Wallets : w = r.wallet
    BY <1>1, <1>3 DEF Recorded
  <2>2. /\ r.policyVersion <= config[w].version
        /\ r.policyVersion = config[w].version => r.approvalsRequired = ApprovalsRequired(w)
    BY <1>1, <1>3, <2>1 DEF RecordCounted, Current
  <2>3. /\ s.policyVersion <= config'[w].version
        /\ s.policyVersion = config'[w].version =>
               s.approvalsRequired = ApprovalsRequired(w)'
    BY <1>2, <1>3, <2>2, RequiredKept
  <2>4. s.wallet = w
    BY <1>3, <2>1
  <2> QED
    BY <2>3, <2>4 DEF Current, ApprovalsRequired
<1>4. ASSUME NEW w \in Wallets, Opens(t, w), UNCHANGED config
      PROVE  RecordCounted(t)'
  <2>1. txnApproved'[t] = {}
    BY <1>1, <1>4 DEF Opens, Recorded
  <2>2. Cardinality(txnApproved'[t]) = 0
    BY <2>1, FS_EmptySet
  <2>3. ApprovalsRequired(w)' = ApprovalsRequired(w) /\ config'[w] = config[w]
    BY <1>4 DEF ApprovalsRequired
  <2>4. config[w].version \in Nat
    BY ConfigFields DEF PolicyTypeOK
  <2> QED
    BY <1>4, <2>2, <2>3, <2>4, RequiredPositive DEF Opens, RecordCounted, Current, ApprovalsRequired
<1>5. ASSUME NEW g \in Keys, Approves(t, g)
      PROVE  RecordCounted(t)'
  <2>1. /\ s.wallet = r.wallet /\ s.policyVersion = r.policyVersion
        /\ s.approvalsRequired = r.approvalsRequired
        /\ s.approvals = r.approvals + 1
        /\ s.status = IF r.approvals + 1 >= r.approvalsRequired THEN "Authorized" ELSE "Pending"
    BY <1>1, <1>5 DEF Approves, TxnAuthorization
  <2>2. r.approvals = Cardinality(txnApproved[t]) /\ r.approvalsRequired >= 1
    BY <1>1, <1>5 DEF Approves, RecordCounted
  <2>3. Cardinality(txnApproved'[t]) = Cardinality(txnApproved[t]) + 1
    BY <1>5, ApprovedFinite, FS_AddElement DEF Approves
  <2>4. r.status # "None"
    BY <1>5 DEF Approves
  <2> QED
    BY <1>2, <1>3, <2>1, <2>2, <2>3, <2>4 DEF RecordCounted
<1>6. CASE Cancels(t)
  <2>1. /\ s.wallet = r.wallet /\ s.policyVersion = r.policyVersion
        /\ s.approvalsRequired = r.approvalsRequired
        /\ s.approvals = r.approvals /\ s.status = "Cancelled"
        /\ r.status # "None" /\ txnApproved'[t] = txnApproved[t]
    BY <1>1, <1>6 DEF Cancels, TxnAuthorization
  <2> QED
    BY <1>1, <1>3, <2>1 DEF RecordCounted
<1>7. CASE Consumes(t)
  <2>1. /\ s.wallet = r.wallet /\ s.policyVersion = r.policyVersion
        /\ s.approvalsRequired = r.approvalsRequired
        /\ s.approvals = r.approvals /\ s.status = "Executed"
        /\ r.status = "Authorized" /\ txnApproved'[t] = txnApproved[t]
    BY <1>1, <1>7 DEF Consumes, TxnAuthorization
  <2> QED
    BY <1>1, <1>3, <2>1 DEF RecordCounted
<1>8. CASE RecordKept(t)
  BY <1>1, <1>3, <1>8 DEF RecordKept, RecordCounted
<1> QED
  BY <1>4, <1>5, <1>6, <1>7, <1>8, RecordKinds

LEMMA CountsStep ==
    ASSUME PolicyTypeOK, Recordings, AllCounted, [PolicyNext]_allVars
    PROVE  AllCounted'
<1>1. ASSUME NEW t \in Transactions
      PROVE  RecordCounted(t)'
  BY CountedOne
<1> QED
  BY <1>1 DEF AllCounted

(* Consumption                                                              *)

LEMMA SingleStep ==
    ASSUME PolicyTypeOK, SingleConsumption, [PolicyNext]_allVars
    PROVE  SingleConsumption'
<1>1. \A t \in Transactions : t.wallet \in Wallets /\ t.nonce \in Nat
  BY PolicyAssumption
<1>2. \A w \in Wallets : nonce[w] \in Nat /\ nonce'[w] \in Nat /\ nonce'[w] >= nonce[w]
  BY NonceKinds DEF PolicyTypeOK
<1>3. \A t \in Transactions : authorization[t] \in TxnAuthorization
  BY DEF PolicyTypeOK
(* A record executed now was so before, or is being consumed.               *)
<1>4. ASSUME NEW t \in Transactions, authorization'[t].status = "Executed"
      PROVE  \/ RecordKept(t)
             \/ Consumes(t) /\ \A u \in Transactions \ {t} : RecordKept(u)
  <2>1. ASSUME NEW w \in Wallets, Opens(t, w)
        PROVE  FALSE
    BY <1>4, <2>1 DEF Opens
  <2>2. ASSUME NEW g \in Keys, Approves(t, g)
        PROVE  FALSE
    BY <1>3, <1>4, <2>2 DEF Approves, TxnAuthorization
  <2>3. ~Cancels(t)
    BY <1>3, <1>4 DEF Cancels, TxnAuthorization
  <2> QED
    BY <2>1, <2>2, <2>3, RecordKinds
<1>5. ASSUME NEW t \in Transactions, authorization'[t].status = "Executed"
      PROVE  authorization'[t].wallet = t.wallet /\ t.nonce < nonce'[t.wallet]
  <2>1. CASE RecordKept(t)
    BY <1>1, <1>2, <1>5, <2>1 DEF RecordKept, SingleConsumption
  <2>2. CASE Consumes(t)
    <3>1. authorization'[t].wallet = authorization[t].wallet
      BY <1>3, <2>2 DEF Consumes, TxnAuthorization
    <3> QED
      BY <1>1, <1>2, <2>2, <3>1 DEF Consumes
  <2> QED
    BY <1>4, <1>5, <2>1, <2>2
<1>6. ASSUME NEW t \in Transactions, NEW u \in Transactions, Consumes(t), RecordKept(u),
             authorization'[u].status = "Executed", t.wallet = u.wallet, t.nonce = u.nonce
      PROVE  FALSE
  <2>1. u.nonce < nonce[u.wallet]
    BY <1>6 DEF RecordKept, SingleConsumption
  <2>2. t.nonce = nonce[t.wallet]
    BY <1>6 DEF Consumes
  <2> QED
    BY <1>1, <1>2, <1>6, <2>1, <2>2
<1>7. ASSUME NEW t \in Transactions, NEW u \in Transactions,
             authorization'[t].status = "Executed", authorization'[u].status = "Executed",
             t.wallet = u.wallet, t.nonce = u.nonce
      PROVE  t = u
  <2>1. CASE RecordKept(t) /\ RecordKept(u)
    BY <1>7, <2>1 DEF RecordKept, SingleConsumption
  <2>2. CASE Consumes(t) /\ t # u
    BY <1>4, <1>6, <1>7, <2>2
  <2>3. CASE Consumes(u) /\ t # u
    BY <1>4, <1>6, <1>7, <2>3
  <2> QED
    BY <1>4, <1>7, <2>1, <2>2, <2>3
<1> QED
  BY <1>5, <1>7 DEF SingleConsumption

LEMMA PolicyInitially == PolicyInit => PolicyInv
<1> SUFFICES ASSUME PolicyInit
             PROVE  PolicyInv
  OBVIOUS
<1>1. TypeOK /\ CountPositive
  BY TypeInit DEF PolicyInit
<1>2. Unconfigured \in PolicyConfig
  BY DEF Unconfigured, PolicyConfig, Modes
<1>3. NoAuthorization \in TxnAuthorization
  BY DEF NoAuthorization, TxnAuthorization, AuthStatuses
<1>4. PolicyTypeOK
  BY <1>1, <1>2, <1>3 DEF PolicyInit, PolicyTypeOK
<1>5. \A t \in Transactions : authorization[t].status = "None" /\ txnApproved[t] = {}
  BY DEF PolicyInit, NoAuthorization
<1> QED
  BY <1>1, <1>4, <1>5
     DEF PolicyInit, PolicyInv, UnconfiguredPlain, Unconfigured, Recordings, Recorded,
         AllCounted, RecordCounted, SingleConsumption

LEMMA PlainStep ==
    ASSUME PolicyTypeOK, UnconfiguredPlain, [PolicyNext]_allVars
    PROVE  UnconfiguredPlain'
<1> SUFFICES ASSUME NEW w \in Wallets, config'[w].version = 0
             PROVE  config'[w].defaultMode = "DEVICE_ONLY"
  BY DEF UnconfiguredPlain
<1>1. config[w].version \in Nat
  BY ConfigFields DEF PolicyTypeOK
<1>2. ~PolicyMoves(w)
  BY <1>1 DEF PolicyMoves
<1> QED
  BY <1>2, ConfigKinds DEF UnconfiguredPlain

LEMMA PolicyInvStep == PolicyInv /\ [PolicyNext]_allVars => PolicyInv'
<1> SUFFICES ASSUME PolicyInv, [PolicyNext]_allVars
             PROVE  PolicyInv'
  OBVIOUS
<1>1. /\ PolicyTypeOK /\ CountPositive /\ UnconfiguredPlain /\ Recordings
      /\ AllCounted /\ SingleConsumption
  BY DEF PolicyInv
<1>2. PolicyTypeOK' /\ CountPositive'
  BY <1>1, PolicyTypeStep
<1>3. UnconfiguredPlain' /\ Recordings'
  BY <1>1, PlainStep, RecordedStep
<1>4. AllCounted' /\ SingleConsumption'
  BY <1>1, CountsStep, SingleStep
<1> QED
  BY <1>2, <1>3, <1>4 DEF PolicyInv

LEMMA PolicyInvariance == PolicySpec => []PolicyInv
  BY PolicyInitially, PolicyInvStep, PTL DEF PolicySpec

(* The state of the whole protocol is well typed: the nonces and the        *)
(* settings among it, whatever the guardians let devices execute.           *)
THEOREM PolicyTypeCorrect == PolicySpec => []PolicyTypeOK
<1>1. PolicyInv => PolicyTypeOK
  BY DEF PolicyInv
<1> QED
  BY <1>1, PolicyInvariance, PTL

(* Approvals are counted exactly, and a record of the current version asks  *)
(* for what the current configuration asks.                                 *)
THEOREM AuthorizationsCounted == PolicySpec => []AuthorizationCounted
<1>1. PolicyInv => AuthorizationCounted
  BY CountedAll DEF PolicyInv
<1> QED
  BY <1>1, PolicyInvariance, PTL

(* No authorization is consumed for another wallet or another nonce, nor    *)
(* two for one nonce.                                                       *)
THEOREM ConsumedOnce == PolicySpec => []SingleConsumption
<1>1. PolicyInv => SingleConsumption
  BY DEF PolicyInv
<1> QED
  BY <1>1, PolicyInvariance, PTL

----------------------------------------------------------------------------
(* What a step may never do                                                 *)

LEMMA OutdatedStep ==
    ASSUME PolicyInv, [PolicyNext]_allVars, NEW t \in Opened
    PROVE  LET r == authorization[t]
               s == authorization'[t]
           IN  /\ r.policyVersion # config[r.wallet].version =>
                     s = r \/ s = [r EXCEPT !.status = "Cancelled"]
               /\ r.status \in {"Executed", "Cancelled"} => s = r
               /\ r.status # "Pending" => txnApproved'[t] = txnApproved[t]
<1>1. t \in Transactions /\ authorization[t].status # "None"
  BY DEF Opened
<1>2. PolicyTypeOK
  BY DEF PolicyInv
<1>3. \/ RecordKept(t) \/ (\E w \in Wallets : Opens(t, w)) \/ (\E g \in Keys : Approves(t, g))
      \/ Cancels(t) \/ Consumes(t)
  BY <1>1, <1>2, RecordKinds
<1> QED
  BY <1>1, <1>3 DEF RecordKept, Opens, Approves, Cancels, Consumes

(* A record of an older policy version can only be cancelled, and a settled *)
(* one never changes.                                                       *)
THEOREM OutdatedInert == PolicySpec => OutdatedRecordInert
<1>1. PolicyInv /\ [PolicyNext]_allVars =>
        [\A t \in Opened :
           LET r == authorization[t]
               s == authorization'[t]
           IN  /\ r.policyVersion # config[r.wallet].version =>
                     s = r \/ s = [r EXCEPT !.status = "Cancelled"]
               /\ r.status \in {"Executed", "Cancelled"} => s = r
               /\ r.status # "Pending" => txnApproved'[t] = txnApproved[t]]_allVars
  BY OutdatedStep
<1> QED
  BY <1>1, PolicyInvariance, PTL DEF PolicySpec, OutdatedRecordInert

(* An execution that the guardians have to authorize.                       *)
LEMMA GuardedExecution ==
    ASSUME PolicyInv, [PolicyNext]_allVars, NEW w \in PolicyWired, NEW signer \in Keys,
           NEW t \in Transactions, Execute(w, signer, t), RequiresGuardians(w, t.call)
    PROVE  ConsentConsumed(w)
<1>1. w \in Wallets
  BY PolicyAssumption
<1>2. ConsumeAuthorization(w, t) /\ t.wallet = w /\ t.nonce = nonce[w]
  BY DEF Execute
<1>3. authorization[t] \in TxnAuthorization /\ RecordCounted(t)
  BY DEF PolicyInv, PolicyTypeOK, AllCounted
<1>4. authorization'[t].status = "Executed"
  BY <1>2, <1>3 DEF ConsumeAuthorization, PolicyInv, PolicyTypeOK, TxnAuthorization
<1>5. Cardinality(txnApproved[t]) >= ApprovalsRequired(w)
  BY <1>2, <1>3 DEF ConsumeAuthorization, RecordCounted, Current
<1> QED
  BY <1>2, <1>4, <1>5 DEF ConsumeAuthorization, ConsentConsumed

LEMMA ConsentStep ==
    ASSUME PolicyInv, [PolicyNext]_allVars, NEW w \in PolicyWired
    PROVE  /\ \/ config'[w] # config[w]
              \/ restrictedDestinations'[w] # restrictedDestinations[w]
              \/ restrictedSelectors'[w] # restrictedSelectors[w]
              => /\ ConsentConsumed(w)
                 /\ config'[w].version = config[w].version + 1
           /\ /\ nonce'[w] # nonce[w]
              /\ config[w].defaultMode = "DEVICE_PLUS_GUARDIANS"
              => ConsentConsumed(w)
<1>1. w \in Wallets /\ PolicyTypeOK
  BY PolicyAssumption DEF PolicyInv
<1>2. CASE UNCHANGED policyVars
  BY <1>2 DEF policyVars, settingVars
<1>3. ASSUME NEW v \in Wallets, NEW t \in Transactions, RecordStep(v, t)
      PROVE  UNCHANGED <<nonce, settingVars>>
  BY <1>3 DEF RecordStep, RequestAuthorization, ApproveTransaction, CancelAuthorization
<1>4. ASSUME NEW v \in Wallets, NEW t \in Transactions, NEW signer \in Keys,
             Execute(v, signer, t), v # w
      PROVE  /\ config'[w] = config[w] /\ nonce'[w] = nonce[w]
             /\ restrictedDestinations'[w] = restrictedDestinations[w]
             /\ restrictedSelectors'[w] = restrictedSelectors[w]
  <2>1. nonce'[w] = nonce[w]
    BY <1>1, <1>4, ExecuteSettings DEF PolicyTypeOK
  <2>2. CASE UNCHANGED settingVars
    BY <2>1, <2>2 DEF settingVars
  <2>3. CASE PolicyCall(v, t.call)
    <3>1. config'[w] = config[w]
      BY <1>1, <1>4, <2>3, PolicyCallMoves DEF PolicyTypeOK
    <3> QED
      BY <1>1, <1>4, <2>1, <2>3, <3>1, PolicyCallMoves
  <2> QED
    BY <1>1, <1>4, <2>2, <2>3, ExecuteSettings
<1>5. ASSUME NEW t \in Transactions, NEW signer \in Keys, Execute(w, signer, t),
             config[w].defaultMode = "DEVICE_PLUS_GUARDIANS"
      PROVE  ConsentConsumed(w)
  <2>1. RequiresGuardians(w, t.call)
    BY <1>1, <1>5 DEF RequiresGuardians, PolicyInv, UnconfiguredPlain
  <2> QED
    BY <1>5, <2>1, GuardedExecution
<1>6. ASSUME NEW t \in Transactions, NEW signer \in Keys, Execute(w, signer, t),
             PolicyCall(w, t.call)
      PROVE  ConsentConsumed(w) /\ config'[w].version = config[w].version + 1
  <2>1. IsAdminCall(t.call)
    BY <1>6 DEF PolicyCall, IsAdminCall, AdminSelectors
  <2> QED
    BY <1>1, <1>6, <2>1, GuardedExecution, PolicyCallMoves DEF RequiresGuardians, PolicyMoves
<1> QED
  BY <1>1, <1>2, <1>3, <1>4, <1>5, <1>6, PolicyKinds, ExecuteSettings DEF settingVars

(* No setting of a wired wallet changes, and nothing executes under a       *)
(* guarded default, without the consent of enough guardians to that very    *)
(* transaction.                                                             *)
THEOREM ConsentRequired == PolicySpec => GuardiansConsent
<1>1. PolicyInv /\ [PolicyNext]_allVars =>
        [\A w \in PolicyWired :
           /\ \/ config'[w] # config[w]
              \/ restrictedDestinations'[w] # restrictedDestinations[w]
              \/ restrictedSelectors'[w] # restrictedSelectors[w]
              => /\ ConsentConsumed(w)
                 /\ config'[w].version = config[w].version + 1
           /\ /\ nonce'[w] # nonce[w]
              /\ config[w].defaultMode = "DEVICE_PLUS_GUARDIANS"
              => ConsentConsumed(w)]_allVars
  BY ConsentStep
<1> QED
  BY <1>1, PolicyInvariance, PTL DEF PolicySpec, GuardiansConsent

----------------------------------------------------------------------------
(* The evaluation off chain                                                 *)

(* What is restricted is a selector, so a call without one is never on the  *)
(* list; and only a configured wallet restricts any, so the first rule of   *)
(* classify asks nothing of another.                                        *)
SelectorsRestricted ==
    \A w \in Wallets :
        /\ "none" \notin restrictedSelectors[w]
        /\ config[w].version = 0 => restrictedSelectors[w] = {}

LEMMA SelectorsStep ==
    ASSUME PolicyTypeOK, SelectorsRestricted, [PolicyNext]_allVars
    PROVE  SelectorsRestricted'
<1>1. ASSUME NEW w \in Wallets, NEW t \in Transactions, PolicyCall(w, t.call)
      PROVE  \A v \in Wallets : "none" \notin restrictedSelectors'[v]
  <2>1. CASE UNCHANGED restrictedSelectors
    BY <2>1 DEF SelectorsRestricted
  <2>2. CASE t.call.selector = "setSelectorRestriction" /\ SetSelectorRestriction(w, t.call)
    <3>1. t.call.restrictedSelector # "none"
      BY <2>2, PolicyAssumption
    <3> QED
      BY <2>2, <3>1 DEF SetSelectorRestriction, SelectorsRestricted, PolicyTypeOK
  <2> QED
    BY <1>1, <2>1, <2>2
       DEF PolicyCall, ConfigurePolicy, SetDefaultMode, SetValueThreshold,
           SetTransactionQuorum, SetDestinationRestriction, Store
<1>2. ASSUME NEW w \in Wallets, NEW t \in Transactions, RecordStep(w, t)
      PROVE  UNCHANGED settingVars
  BY <1>2 DEF RecordStep, RequestAuthorization, ApproveTransaction, CancelAuthorization
<1>3. \A v \in Wallets : "none" \notin restrictedSelectors'[v]
  BY <1>1, <1>2, PolicyKinds, ExecuteSettings DEF policyVars, settingVars, SelectorsRestricted
<1>4. ASSUME NEW v \in Wallets, config'[v].version = 0
      PROVE  restrictedSelectors'[v] = {}
  <2>1. config[v].version \in Nat
    BY ConfigFields DEF PolicyTypeOK
  <2>2. ~PolicyMoves(v)
    BY <1>4, <2>1 DEF PolicyMoves
  <2> QED
    BY <1>4, <2>2, ConfigKinds DEF SelectorsRestricted
<1> QED
  BY <1>3, <1>4 DEF SelectorsRestricted

LEMMA SelectorsInvariance == PolicySpec => [](PolicyInv /\ SelectorsRestricted)
<1>1. PolicyInit => SelectorsRestricted
  BY DEF PolicyInit, SelectorsRestricted
<1>2. PolicyInv /\ SelectorsRestricted /\ [PolicyNext]_allVars => SelectorsRestricted'
  BY SelectorsStep DEF PolicyInv
<1> QED
  BY <1>1, <1>2, PolicyInvariance, PTL DEF PolicySpec

(* On one state, keymesh-core and the contract classify alike.              *)
LEMMA ClassifiedAlike ==
    ASSUME PolicyTypeOK, SelectorsRestricted, NEW w \in Wallets, NEW t \in Transactions
    PROVE  Preview(w, t.call) = "DEVICE_PLUS_GUARDIANS" <=> RequiresGuardians(w, t.call)
<1>1. t.call.selector \in restrictedSelectors[w] => HasSelector(t.call)
  BY DEF HasSelector, SelectorsRestricted
<1>2. IsAdminCall(t.call) => HasSelector(t.call) /\ t.call.to = PolicyManager
  BY DEF IsAdminCall, AdminSelectors, HasSelector
<1>3. t.call.selector \in restrictedSelectors[w] => config[w].version # 0
  BY DEF SelectorsRestricted
<1> QED
  BY <1>1, <1>2, <1>3 DEF Preview, Classify, IsConfigured, RequiresGuardians

(* Where the version stays, so do the decision and what a new record asks.  *)
LEMMA PreviewStep ==
    ASSUME PolicyInv, SelectorsRestricted, [PolicyNext]_allVars, NEW w \in Wallets,
           config[w].version = config'[w].version
    PROVE  /\ \A t \in Transactions :
                 Preview(w, t.call) = "DEVICE_PLUS_GUARDIANS"
                 <=> RequiresGuardians(w, t.call)'
           /\ \A t \in Opened' \ Opened :
                 authorization'[t].wallet = w =>
                     authorization'[t].approvalsRequired = EffectiveRequestQuorum(config[w])
<1>1. PolicyTypeOK
  BY DEF PolicyInv
<1>2. /\ config'[w] = config[w]
      /\ restrictedDestinations'[w] = restrictedDestinations[w]
      /\ restrictedSelectors'[w] = restrictedSelectors[w]
  <2>1. config[w].version \in Nat
    BY <1>1, ConfigFields DEF PolicyTypeOK
  <2>2. ~PolicyMoves(w)
    BY <2>1 DEF PolicyMoves
  <2> QED
    BY <1>1, <2>2, ConfigKinds
<1>3. ASSUME NEW t \in Transactions
      PROVE  Preview(w, t.call) = "DEVICE_PLUS_GUARDIANS" <=> RequiresGuardians(w, t.call)'
  <2>1. RequiresGuardians(w, t.call)' <=> RequiresGuardians(w, t.call)
    BY <1>2 DEF RequiresGuardians
  <2> QED
    BY <1>1, <2>1, ClassifiedAlike
<1>4. ASSUME NEW t \in Transactions, t \in Opened' \ Opened, authorization'[t].wallet = w
      PROVE  authorization'[t].approvalsRequired = EffectiveRequestQuorum(config[w])
  <2>1. authorization[t].status = "None" /\ authorization'[t].status # "None"
    BY <1>4 DEF Opened
  <2>2. PICK v \in Wallets : Opens(t, v)
    BY <1>1, <2>1, RecordKinds DEF RecordKept, Approves, Cancels, Consumes
  <2>3. v = w /\ authorization'[t].approvalsRequired = ApprovalsRequired(w)
    BY <1>4, <2>2 DEF Opens
  <2> QED
    BY <2>3 DEF ApprovalsRequired, EffectiveRequestQuorum
<1> QED
  BY <1>3, <1>4 DEF Opened

(* What keymesh-core foresees from the settings it has read is what the     *)
(* contract decides, and asks for, as long as the version is that one.      *)
THEOREM PreviewsHold == PolicySpec => PreviewHolds
<1>1. PolicyInv /\ SelectorsRestricted /\ [PolicyNext]_allVars =>
        [\A w \in Wallets :
           IsAuthorizationVersionValid(config[w].version, config'[w].version) =>
              /\ \A t \in Transactions :
                    Preview(w, t.call) = "DEVICE_PLUS_GUARDIANS"
                    <=> RequiresGuardians(w, t.call)'
              /\ \A t \in Opened' \ Opened :
                    authorization'[t].wallet = w =>
                        authorization'[t].approvalsRequired
                            = EffectiveRequestQuorum(config[w])]_allVars
  BY PreviewStep DEF IsAuthorizationVersionValid
<1> QED
  BY <1>1, SelectorsInvariance, PTL DEF PolicySpec, PreviewHolds
=============================================================================
