------------------------- MODULE TransactionPolicy -------------------------
(***************************************************************************)
(* The whole on-chain protocol: RecoveryGovernance together with the       *)
(* execution path of KeymeshWallet and the PolicyManager, which decides    *)
(* whether a device's signature suffices or guardians must have authorized *)
(* that very transaction. Guardian and policy governance take no other     *)
(* way than an executed transaction, so here they happen inside Execute.   *)
(*                                                                         *)
(* A transaction record is its own digest: the canonical encoding binds    *)
(* the wallet, the nonce, the call and the expiry, and no two differ in a  *)
(* field and agree in the digest. One chain is modelled, so the chainId    *)
(* field is left out. A device signs what it likes, once and for all;      *)
(* anyone may submit what it signed. A target that fails reverts all of    *)
(* execute, so a step is a successful execution, and a target that calls   *)
(* back cannot re-enter execute: what else it calls is a later step.       *)
(***************************************************************************)
EXTENDS RecoveryGovernance

CONSTANTS
    RecoveryManager,   \* address of the RecoveryManager contract
    PolicyManager,     \* address of the PolicyManager contract
    PolicyWired,       \* wallets deployed with policyManager # address(0)
    Transactions,      \* bound: the transactions devices sign
    MAX_RESTRICTED_DESTINATIONS,
    MAX_RESTRICTED_SELECTORS,
    MaxAuthorizations  \* bound: authorization records ever opened

AdminSelectors ==
    {"configurePolicy", "setDefaultMode", "setValueThreshold",
     "setTransactionQuorum", "setDestinationRestriction", "setSelectorRestriction"}

Modes == {"DEVICE_ONLY", "DEVICE_PLUS_GUARDIANS"}

ASSUME PolicyAssumption ==
    /\ PolicyWired \subseteq Wallets
    /\ MaxAuthorizations \in Nat
    /\ \A t \in Transactions :
          /\ t.wallet \in Wallets
          /\ t.nonce \in Nat
          /\ t.expiry \in Nat
          /\ t.call.value \in Nat
          /\ t.call.selector \in {"addGuardian", "removeGuardian"} =>
                 t.call.guardian \in GuardianKeys
          /\ t.call.selector = "setRecoveryTimelock" => t.call.seconds \in Timelocks
          /\ t.call.selector \in {"configurePolicy", "setValueThreshold"} =>
                 t.call.threshold \in Nat
          /\ t.call.selector = "setSelectorRestriction" =>
                 t.call.restrictedSelector # "none"

VARIABLES
    nonce,                   \* KeymeshWallet._nonce
    config,                  \* PolicyManager._config
    restrictedDestinations,  \* PolicyManager._restrictedDestination
    restrictedSelectors,     \* PolicyManager._restrictedSelector
    authorization,           \* PolicyManager._authorization
    txnApproved              \* PolicyManager._txnApproved

settingVars == <<config, restrictedDestinations, restrictedSelectors>>
recordVars == <<authorization, txnApproved>>
policyVars == <<nonce, settingVars, recordVars>>
allVars == <<vars, policyVars>>

----------------------------------------------------------------------------
AuthStatuses == {"None", "Pending", "Authorized", "Executed", "Cancelled"}

PolicyConfig ==
    [defaultMode : Modes, valueThreshold : Nat, guardianApprovalsRequired : Nat, version : Nat]

Unconfigured ==
    [defaultMode |-> "DEVICE_ONLY", valueThreshold |-> 0,
     guardianApprovalsRequired |-> 0, version |-> 0]

TxnAuthorization ==
    [wallet : Wallets \cup {NoAddress}, policyVersion : Nat, approvals : Nat,
     approvalsRequired : Nat, status : AuthStatuses]

NoAuthorization ==
    [wallet |-> NoAddress, policyVersion |-> 0, approvals |-> 0,
     approvalsRequired |-> 0, status |-> "None"]

PolicyInit ==
    /\ Init
    /\ nonce = [w \in Wallets |-> 0]
    /\ config = [w \in Wallets |-> Unconfigured]
    /\ restrictedDestinations = [w \in Wallets |-> {}]
    /\ restrictedSelectors = [w \in Wallets |-> {}]
    /\ authorization = [t \in Transactions |-> NoAuthorization]
    /\ txnApproved = [t \in Transactions |-> {}]

----------------------------------------------------------------------------
(* Classification *)

IsAdminCall(call) == call.to = PolicyManager /\ call.selector \in AdminSelectors

(* Mutant: an unconfigured wallet is exempt from the structural rule.      *)
RequiresOnceConfigured(w, call) ==
    /\ config[w].version # 0
    /\ \/ IsAdminCall(call)
       \/ call.selector \in restrictedSelectors[w]
       \/ call.to \in restrictedDestinations[w]
       \/ call.value > config[w].valueThreshold
       \/ config[w].defaultMode = "DEVICE_PLUS_GUARDIANS"

(* evaluateAuthorization = DEVICE_PLUS_GUARDIANS. Each rule of the ordered *)
(* list escalates, so their order does not matter to the outcome.          *)
RequiresGuardians(w, call) ==
    \/ IsAdminCall(call)
    \/ /\ config[w].version # 0
       /\ \/ call.selector \in restrictedSelectors[w]
          \/ call.to \in restrictedDestinations[w]
          \/ call.value > config[w].valueThreshold
          \/ config[w].defaultMode = "DEVICE_PLUS_GUARDIANS"

----------------------------------------------------------------------------
(* Configuration: msg.sender = wallet *)

(* _validateAndStore *)
Store(w, mode, threshold, required) ==
    /\ mode \in Modes
    /\ required \in 1 .. GuardianCount(w)
    /\ config' =
           [config EXCEPT ![w] =
               [defaultMode |-> mode, valueThreshold |-> threshold,
                guardianApprovalsRequired |-> required, version |-> @.version + 1]]
    /\ UNCHANGED <<restrictedDestinations, restrictedSelectors>>

BumpVersion(w) == config' = [config EXCEPT ![w].version = @ + 1]

ConfigurePolicy(w, call) ==
    /\ config[w].version = 0
    /\ Store(w, call.mode, call.threshold, call.required)

SetDefaultMode(w, call) ==
    /\ config[w].version # 0
    /\ Store(w, call.mode, config[w].valueThreshold, config[w].guardianApprovalsRequired)

SetValueThreshold(w, call) ==
    /\ config[w].version # 0
    /\ Store(w, config[w].defaultMode, call.threshold, config[w].guardianApprovalsRequired)

SetTransactionQuorum(w, call) ==
    /\ config[w].version # 0
    /\ Store(w, config[w].defaultMode, config[w].valueThreshold, call.required)

(* Restricting what is restricted, or releasing what is not, still bumps   *)
(* the version. The counters of the sets are their cardinalities.          *)
SetDestinationRestriction(w, call) ==
    /\ config[w].version # 0
    /\ call.destination # NoAddress
    /\ call.restricted /\ call.destination \notin restrictedDestinations[w] =>
           Cardinality(restrictedDestinations[w]) < MAX_RESTRICTED_DESTINATIONS
    /\ restrictedDestinations' =
           [restrictedDestinations EXCEPT ![w] =
               IF call.restricted THEN @ \cup {call.destination} ELSE @ \ {call.destination}]
    /\ BumpVersion(w)
    /\ UNCHANGED restrictedSelectors

SetSelectorRestriction(w, call) ==
    /\ config[w].version # 0
    /\ call.restrictedSelector \notin AdminSelectors
    /\ call.restricted /\ call.restrictedSelector \notin restrictedSelectors[w] =>
           Cardinality(restrictedSelectors[w]) < MAX_RESTRICTED_SELECTORS
    /\ restrictedSelectors' =
           [restrictedSelectors EXCEPT ![w] =
               IF call.restricted
               THEN @ \cup {call.restrictedSelector}
               ELSE @ \ {call.restrictedSelector}]
    /\ BumpVersion(w)
    /\ UNCHANGED restrictedDestinations

----------------------------------------------------------------------------
(* Authorization lifecycle *)

Opened == {t \in Transactions : authorization[t].status # "None"}

(* Mutant: an unconfigured wallet asks for no approval.                    *)
ApprovalsConfigured(w) == config[w].guardianApprovalsRequired

ApprovalsRequired(w) ==
    IF config[w].guardianApprovalsRequired = 0
    THEN 1
    ELSE config[w].guardianApprovalsRequired

RequestAuthorization(w, caller, t) ==
    /\ recoveryInitialized[w]
    /\ caller \in devices[w]
    /\ authorization[t].status = "None"
    /\ Cardinality(Opened) < MaxAuthorizations
    /\ authorization' =
           [authorization EXCEPT ![t] =
               [wallet |-> w, policyVersion |-> config[w].version, approvals |-> 0,
                approvalsRequired |-> ApprovalsRequired(w), status |-> "Pending"]]
    /\ UNCHANGED <<vars, nonce, settingVars, txnApproved>>

(* Mutants: anyone may approve; a record of any policy version is approved. *)
AnyoneApproves(w, caller, t) ==
    /\ authorization[t].status = "Pending"
    /\ authorization[t].wallet = w
    /\ caller \notin txnApproved[t]
    /\ authorization[t].policyVersion = config[w].version
OutdatedApproves(w, caller, t) ==
    /\ authorization[t].status = "Pending"
    /\ authorization[t].wallet = w
    /\ caller \in guardians[w]
    /\ caller \notin txnApproved[t]

CanApproveTransaction(w, caller, t) ==
    /\ authorization[t].status = "Pending"
    /\ authorization[t].wallet = w
    /\ caller \in guardians[w]
    /\ caller \notin txnApproved[t]
    /\ authorization[t].policyVersion = config[w].version

ApproveTransaction(w, caller, t) ==
    LET record == authorization[t]
    IN  /\ CanApproveTransaction(w, caller, t)
        /\ txnApproved' = [txnApproved EXCEPT ![t] = @ \cup {caller}]
        /\ authorization' =
               [authorization EXCEPT ![t] =
                   [record EXCEPT !.approvals = @ + 1,
                                  !.status = IF record.approvals + 1 >= record.approvalsRequired
                                             THEN "Authorized"
                                             ELSE @]]
        /\ UNCHANGED <<vars, nonce, settingVars>>

CanCancelAuthorization(w, caller, t) ==
    /\ caller \in devices[w]
    /\ authorization[t].status \in {"Pending", "Authorized"}

CancelAuthorization(w, caller, t) ==
    /\ CanCancelAuthorization(w, caller, t)
    /\ authorization' = [authorization EXCEPT ![t].status = "Cancelled"]
    /\ UNCHANGED <<vars, nonce, settingVars, txnApproved>>

(* Mutant: the record's wallet is not compared.                            *)
ConsumeAnyWallet(w, t) ==
    /\ authorization[t].policyVersion = config[w].version
    /\ authorization[t].status = "Authorized"
    /\ authorization' = [authorization EXCEPT ![t].status = "Executed"]
    /\ UNCHANGED txnApproved

(* Called by the wallet only, inside Execute. *)
ConsumeAuthorization(w, t) ==
    LET record == authorization[t]
    IN  /\ record.wallet = w
        /\ record.policyVersion = config[w].version
        /\ record.status = "Authorized"
        /\ authorization' = [authorization EXCEPT ![t].status = "Executed"]
        /\ UNCHANGED txnApproved

----------------------------------------------------------------------------
(* Execution *)

(* Mutant: a removed guardian takes its share of the quorum along.         *)
RecoveryCallLowering(w, call) ==
    /\ call.to = RecoveryManager
    /\ call.selector = "removeGuardian"
    /\ recoveryInitialized[w]
    /\ call.guardian \in guardians[w]
    /\ guardians' = [guardians EXCEPT ![w] = @ \ {call.guardian}]
    /\ quorum' = [quorum EXCEPT ![w] = @ - 1]
    /\ UNCHANGED <<now, walletVars, timelockSeconds, requestVars, settingVars>>

(* What the executed call does: to the RecoveryManager, to the             *)
(* PolicyManager, or to an account of which nothing is kept here.          *)
RecoveryCall(w, call) ==
    /\ call.to = RecoveryManager
    /\ \/ call.selector = "addGuardian" /\ AddGuardian(w, call.guardian)
       \/ call.selector = "removeGuardian" /\ RemoveGuardian(w, call.guardian)
       \/ call.selector = "setQuorum" /\ SetQuorum(w, call.quorum)
       \/ call.selector = "setRecoveryTimelock" /\ SetRecoveryTimelock(w, call.seconds)
    /\ UNCHANGED settingVars

PolicyCall(w, call) ==
    /\ call.to = PolicyManager
    /\ \/ call.selector = "configurePolicy" /\ ConfigurePolicy(w, call)
       \/ call.selector = "setDefaultMode" /\ SetDefaultMode(w, call)
       \/ call.selector = "setValueThreshold" /\ SetValueThreshold(w, call)
       \/ call.selector = "setTransactionQuorum" /\ SetTransactionQuorum(w, call)
       \/ call.selector = "setDestinationRestriction" /\ SetDestinationRestriction(w, call)
       \/ call.selector = "setSelectorRestriction" /\ SetSelectorRestriction(w, call)
    /\ UNCHANGED vars

ExternalCall(call) ==
    /\ call.to \notin {RecoveryManager, PolicyManager}
    /\ UNCHANGED <<vars, settingVars>>

Execute(w, signer, t) ==
    /\ t.wallet = w
    /\ now <= t.expiry
    /\ t.nonce = nonce[w]
    /\ t.call.to # NoAddress
    /\ signer \in devices[w]
    /\ IF w \in PolicyWired /\ RequiresGuardians(w, t.call)
       THEN ConsumeAuthorization(w, t)
       ELSE UNCHANGED recordVars
    /\ nonce' = [nonce EXCEPT ![w] = @ + 1]
    /\ RecoveryCall(w, t.call) \/ PolicyCall(w, t.call) \/ ExternalCall(t.call)

----------------------------------------------------------------------------
AuthorizationStep(w, caller, t) ==
    \/ RequestAuthorization(w, caller, t)
    \/ ApproveTransaction(w, caller, t)
    \/ CancelAuthorization(w, caller, t)

DirectStep(w, caller) ==
    /\ ManagerStep(w, caller) \/ DeviceStep(w, caller) \/ RecoveryStep(w, caller)
    /\ UNCHANGED policyVars

PolicyNext ==
    \/ Tick /\ UNCHANGED policyVars
    \/ \E w \in Wallets, caller \in Keys :
           \/ DirectStep(w, caller)
           \/ \E t \in Transactions :
                  AuthorizationStep(w, caller, t) \/ Execute(w, caller, t)

PolicySpec == PolicyInit /\ [][PolicyNext]_allVars
----------------------------------------------------------------------------
(* Properties *)

(* The execution and policy state holds values of its storage types.       *)
PolicyTypeOK ==
    /\ TypeOK
    /\ nonce \in [Wallets -> Nat]
    /\ config \in [Wallets -> PolicyConfig]
    /\ DOMAIN restrictedDestinations = Wallets
    /\ DOMAIN restrictedSelectors = Wallets
    /\ authorization \in [Transactions -> TxnAuthorization]
    /\ txnApproved \in [Transactions -> SUBSET GuardianKeys]

(* The approvals of a record are distinct guardians, it waits exactly      *)
(* while they are fewer than it requires, and a record of the current      *)
(* policy version requires what the current configuration requires, so a   *)
(* quorum raised later is never met by an authorization opened before.     *)
AuthorizationCounted ==
    \A t \in Opened :
        LET record == authorization[t]
            w == record.wallet
        IN  /\ record.approvals = Cardinality(txnApproved[t])
            /\ record.approvalsRequired >= 1
            /\ record.status = "Pending" => record.approvals < record.approvalsRequired
            /\ record.status \in {"Authorized", "Executed"} =>
                   record.approvals >= record.approvalsRequired
            /\ record.policyVersion <= config[w].version
            /\ record.policyVersion = config[w].version =>
                   record.approvalsRequired = ApprovalsRequired(w)

(* A consumed authorization belongs to the wallet its digest names, whose  *)
(* nonce has moved past the digest's; so no nonce of a wallet consumes two *)
(* authorizations and none is consumed by another wallet.                  *)
SingleConsumption ==
    /\ \A t \in Transactions :
          authorization[t].status = "Executed" =>
              authorization[t].wallet = t.wallet /\ t.nonce < nonce[t.wallet]
    /\ \A t, u \in Transactions :
          /\ authorization[t].status = "Executed"
          /\ authorization[u].status = "Executed"
          /\ t.wallet = u.wallet
          /\ t.nonce = u.nonce
          => t = u

(* A record for wallet w at its current nonce and policy version, approved *)
(* by enough of its guardians, is consumed in this step.                   *)
ConsentConsumed(w) ==
    \E t \in Transactions :
        /\ t.wallet = w
        /\ t.nonce = nonce[w]
        /\ authorization[t].wallet = w
        /\ authorization[t].policyVersion = config[w].version
        /\ authorization[t].status = "Authorized"
        /\ Cardinality(txnApproved[t]) >= ApprovalsRequired(w)
        /\ authorization'[t].status = "Executed"

(* Anti-downgrade: no policy setting of a wired wallet changes, and under  *)
(* a guarded default mode nothing executes, unless the guardians' consent  *)
(* to that very transaction is consumed; the version moves by one then.    *)
GuardiansConsent ==
    [][\A w \in PolicyWired :
          /\ \/ config'[w] # config[w]
             \/ restrictedDestinations'[w] # restrictedDestinations[w]
             \/ restrictedSelectors'[w] # restrictedSelectors[w]
             => /\ ConsentConsumed(w)
                /\ config'[w].version = config[w].version + 1
          /\ /\ nonce'[w] # nonce[w]
             /\ config[w].defaultMode = "DEVICE_PLUS_GUARDIANS"
             => ConsentConsumed(w)
      ]_allVars

(* Once the policy version has moved on, a record can only be cancelled;   *)
(* and a record executed or cancelled never changes again.                 *)
OutdatedRecordInert ==
    [][\A t \in Opened :
          LET r == authorization[t]
              s == authorization'[t]
          IN  /\ r.policyVersion # config[r.wallet].version =>
                    s = r \/ s = [r EXCEPT !.status = "Cancelled"]
              /\ r.status \in {"Executed", "Cancelled"} => s = r
              /\ r.status # "Pending" => txnApproved'[t] = txnApproved[t]
      ]_allVars

(* A device's transactions reach the guardian governance, and move the     *)
(* devices and the recovery requests, in no other way than recovery        *)
(* governance allows: what holds of it alone holds of the whole protocol.  *)
ImplementsGovernance == Spec

----------------------------------------------------------------------------
(* A statement of the contract comments that the code does not keep *)

(* PolicyManager.sol: the stored wallet field "is still verified           *)
(* defensively on every use". So only a device of the wallet a record is   *)
(* bound to can cancel it.                                                 *)
CancelByOwnDevice ==
    \A w \in Wallets, caller \in Keys, t \in Transactions :
        CanCancelAuthorization(w, caller, t) => caller \in devices[authorization[t].wallet]
=============================================================================
