------------------------- MODULE RecoveryGovernance -------------------------
(***************************************************************************)
(* The recovery layer of the on-chain protocol: the device set of every    *)
(* KeymeshWallet, its guardian set, and the RecoveryManager that replaces  *)
(* a device on the word of a guardian quorum after a timelock.             *)
(*                                                                         *)
(* A transaction is atomic on the EVM: a call that reverts leaves no       *)
(* trace, so a step is a whole successful transaction, and a guard is the  *)
(* conjunction of the checks the call must pass. A contract calls another  *)
(* one synchronously inside its transaction, so those calls are part of    *)
(* the step. Transactions of different senders interleave in any order,    *)
(* several within one block (now unchanged) or blocks apart (Tick).        *)
(*                                                                         *)
(* A guardian set is a set here: GuardianRegistry models the list and the  *)
(* counter the registry keeps of it.                                       *)
(***************************************************************************)
EXTENDS Integers, FiniteSets

CONSTANTS
    Wallets,        \* wallet contract addresses
    Keys,           \* externally owned accounts: every other msg.sender
    DeviceKeys,     \* addresses offered as devices
    GuardianKeys,   \* addresses offered as guardians
    NoAddress,      \* address(0)
    Manager,        \* the manager each wallet was deployed with
    MIN_TIMELOCK,   \* RecoveryManager.MIN_TIMELOCK
    Timelocks,      \* timelocks a caller may ask for (uint64 arguments)
    UINT64_MAX,     \* type(uint64).max, the width of executeAfter
    MaxTime,        \* bound: last block timestamp
    MaxRequests     \* bound: number of recovery requests ever opened

Callers == Keys \cup Wallets

ASSUME AddressAssumption ==
    /\ DeviceKeys \subseteq Callers
    /\ GuardianKeys \subseteq Callers
    /\ NoAddress \notin Callers
    /\ Manager \in [Wallets -> Callers]
    /\ IsFiniteSet(DeviceKeys)
    /\ IsFiniteSet(GuardianKeys)

ASSUME NumberAssumption ==
    /\ MIN_TIMELOCK \in Nat \ {0}
    /\ Timelocks \subseteq Nat
    /\ UINT64_MAX \in Nat
    /\ MaxTime \in Nat
    /\ MaxRequests \in Nat

VARIABLES
    now,                  \* block.timestamp
    recoveryInitialized,  \* KeymeshWallet._recoveryInitialized
    devices,              \* KeymeshWallet._devices
    deviceCount,          \* KeymeshWallet._deviceCount
    guardians,            \* GuardianRegistry._active
    quorum,               \* RecoveryManager._quorum
    timelockSeconds,      \* RecoveryManager._timelockSeconds
    nextRecoveryId,       \* RecoveryManager._nextRecoveryId
    latestRecoveryId,     \* RecoveryManager._latestRecoveryId
    requests,             \* RecoveryManager._requests
    approved              \* RecoveryManager._approved

walletVars == <<recoveryInitialized, devices, deviceCount>>
configVars == <<guardians, quorum, timelockSeconds>>
requestVars == <<nextRecoveryId, latestRecoveryId, requests, approved>>
vars == <<now, walletVars, configVars, requestVars>>

----------------------------------------------------------------------------
(* Requests *)

RequestIds == 0 .. MaxRequests

LiveStatuses == {"Pending", "QuorumReached", "Executable"}
TerminalStatuses == {"Executed", "Cancelled"}
Statuses == {"None"} \cup LiveStatuses \cup TerminalStatuses

Request ==
    [wallet : Wallets \cup {NoAddress},
     replacedDevice : DeviceKeys \cup {NoAddress},
     newDevice : DeviceKeys \cup {NoAddress},
     initiatedAt : Nat,
     executeAfter : Nat,
     timelockSnapshot : Nat,
     approvals : Nat,
     quorumSnapshot : Nat,
     status : Statuses]

(* A storage slot nothing was written to; id 0 is never written. *)
NoRequest ==
    [wallet |-> NoAddress, replacedDevice |-> NoAddress,
     newDevice |-> NoAddress, initiatedAt |-> 0, executeAfter |-> 0,
     timelockSnapshot |-> 0, approvals |-> 0, quorumSnapshot |-> 0,
     status |-> "None"]

(* Mutants: the deadline is not read; it is read as exclusive. *)
EffectiveStatusAnytime(r) == IF r.status = "QuorumReached" THEN "Executable" ELSE r.status
EffectiveStatusExclusive(r) ==
    IF r.status = "QuorumReached" /\ now > r.executeAfter THEN "Executable" ELSE r.status

(* QuorumReached reads as Executable from executeAfter on, inclusive. *)
EffectiveStatus(r) ==
    IF r.status = "QuorumReached" /\ now >= r.executeAfter
    THEN "Executable"
    ELSE r.status

Latest(w) == requests[latestRecoveryId[w]]

(* Mutant: an approved request no longer counts as live. *)
HasPendingRequest(w) == EffectiveStatus(Latest(w)) = "Pending"

HasLiveRequest(w) == EffectiveStatus(Latest(w)) \in LiveStatuses

GuardianCount(w) == Cardinality(guardians[w])

----------------------------------------------------------------------------
(* A wallet starts with the one device its constructor was given. *)
Init ==
    /\ now = 0
    /\ recoveryInitialized = [w \in Wallets |-> FALSE]
    /\ devices \in [Wallets -> {{d} : d \in DeviceKeys}]
    /\ deviceCount = [w \in Wallets |-> 1]
    /\ guardians = [w \in Wallets |-> {}]
    /\ quorum = [w \in Wallets |-> 0]
    /\ timelockSeconds = [w \in Wallets |-> 0]
    /\ nextRecoveryId = 1
    /\ latestRecoveryId = [w \in Wallets |-> 0]
    /\ requests = [id \in RequestIds |-> NoRequest]
    /\ approved = [id \in RequestIds |-> {}]

(* The next block carries a later timestamp. *)
Tick ==
    /\ now < MaxTime
    /\ now' = now + 1
    /\ UNCHANGED <<walletVars, configVars, requestVars>>

----------------------------------------------------------------------------
(* KeymeshWallet: the device set *)

(* Mutant: the manager keeps its power after bootstrap. *)
RegisterDeviceAlways(w, caller, d) ==
    /\ caller = Manager[w]
    /\ d \notin devices[w]
    /\ devices' = [devices EXCEPT ![w] = @ \cup {d}]
    /\ deviceCount' = [deviceCount EXCEPT ![w] = @ + 1]
    /\ UNCHANGED <<now, recoveryInitialized, configVars, requestVars>>

RegisterDevice(w, caller, d) ==
    /\ ~recoveryInitialized[w]
    /\ caller = Manager[w]
    /\ d \notin devices[w]
    /\ devices' = [devices EXCEPT ![w] = @ \cup {d}]
    /\ deviceCount' = [deviceCount EXCEPT ![w] = @ + 1]
    /\ UNCHANGED <<now, recoveryInitialized, configVars, requestVars>>

RevokeDevice(w, caller, d) ==
    /\ \/ ~recoveryInitialized[w] /\ caller = Manager[w]
       \/ caller = d
    /\ d \in devices[w]
    /\ deviceCount[w] # 1
    /\ devices' = [devices EXCEPT ![w] = @ \ {d}]
    /\ deviceCount' = [deviceCount EXCEPT ![w] = @ - 1]
    /\ UNCHANGED <<now, recoveryInitialized, configVars, requestVars>>

(* Mutant: a replacement counts as an addition. *)
ApplyCountingAlways(w, replaced, new) ==
    /\ new \notin devices[w]
    /\ replaced # NoAddress => replaced \in devices[w]
    /\ devices' = [devices EXCEPT ![w] = (@ \cup {new}) \ {replaced}]
    /\ deviceCount' = [deviceCount EXCEPT ![w] = @ + 1]

(* Called by the RecoveryManager only, inside FinalizeRecovery. *)
ApplyRecoveredDevice(w, replaced, new) ==
    /\ new # NoAddress
    /\ new \notin devices[w]
    /\ replaced # NoAddress => replaced \in devices[w]
    /\ devices' = [devices EXCEPT ![w] = (@ \cup {new}) \ {replaced}]
    /\ deviceCount' =
           [deviceCount EXCEPT ![w] = IF replaced = NoAddress THEN @ + 1 ELSE @]

----------------------------------------------------------------------------
(* RecoveryManager: guardian governance *)

(* The manager's one configuration call; it retires the manager. *)
BootstrapRecoveryGovernance(w, caller, initialGuardians, q, seconds) ==
    /\ caller = Manager[w]
    /\ ~recoveryInitialized[w]
    /\ q \in 1 .. Cardinality(initialGuardians)
    /\ seconds >= MIN_TIMELOCK
    /\ initialGuardians \cap guardians[w] = {}
    /\ quorum' = [quorum EXCEPT ![w] = q]
    /\ timelockSeconds' = [timelockSeconds EXCEPT ![w] = seconds]
    /\ guardians' = [guardians EXCEPT ![w] = @ \cup initialGuardians]
    /\ recoveryInitialized' = [recoveryInitialized EXCEPT ![w] = TRUE]
    /\ UNCHANGED <<now, devices, deviceCount, requestVars>>

(* The next four are sent by the wallet contract itself, from a            *)
(* transaction one of its devices signed (KeymeshWallet.execute).          *)
AddGuardian(w, g) ==
    /\ recoveryInitialized[w]
    /\ g \notin guardians[w]
    /\ guardians' = [guardians EXCEPT ![w] = @ \cup {g}]
    /\ UNCHANGED <<now, walletVars, quorum, timelockSeconds, requestVars>>

RemoveGuardian(w, g) ==
    /\ recoveryInitialized[w]
    /\ g \in guardians[w]
    /\ guardians' = [guardians EXCEPT ![w] = @ \ {g}]
    /\ UNCHANGED <<now, walletVars, quorum, timelockSeconds, requestVars>>

SetQuorum(w, q) ==
    /\ recoveryInitialized[w]
    /\ q \in 1 .. GuardianCount(w)
    /\ quorum' = [quorum EXCEPT ![w] = q]
    /\ UNCHANGED <<now, walletVars, guardians, timelockSeconds, requestVars>>

(* Mutant: the minimum is only checked at bootstrap. *)
SetAnyTimelock(w, seconds) ==
    /\ recoveryInitialized[w]
    /\ timelockSeconds' = [timelockSeconds EXCEPT ![w] = seconds]
    /\ UNCHANGED <<now, walletVars, guardians, quorum, requestVars>>

SetRecoveryTimelock(w, seconds) ==
    /\ recoveryInitialized[w]
    /\ seconds >= MIN_TIMELOCK
    /\ timelockSeconds' = [timelockSeconds EXCEPT ![w] = seconds]
    /\ UNCHANGED <<now, walletVars, guardians, quorum, requestVars>>

----------------------------------------------------------------------------
(* RecoveryManager: the recovery lifecycle *)

(* Mutant: the new device may already be authorized. *)
ReplacementKnown(w, replaced, new) ==
    new # replaced /\ (replaced # NoAddress => replaced \in devices[w])

ReplacementValid(w, replaced, new) ==
    /\ new # NoAddress
    /\ new # replaced
    /\ new \notin devices[w]
    /\ replaced # NoAddress => replaced \in devices[w]

NewRequest(w, replaced, new) ==
    [wallet |-> w, replacedDevice |-> replaced, newDevice |-> new,
     initiatedAt |-> now, executeAfter |-> 0,
     timelockSnapshot |-> timelockSeconds[w], approvals |-> 0,
     quorumSnapshot |-> quorum[w], status |-> "Pending"]

(* Mutants: the id is not consumed; it is incremented before it is returned. *)
OpenKeepingId(w, replaced, new) ==
    /\ requests' = [requests EXCEPT ![nextRecoveryId] = NewRequest(w, replaced, new)]
    /\ latestRecoveryId' = [latestRecoveryId EXCEPT ![w] = nextRecoveryId]
    /\ UNCHANGED nextRecoveryId
OpenPreIncrement(w, replaced, new) ==
    /\ nextRecoveryId' = nextRecoveryId + 1
    /\ requests' = [requests EXCEPT ![nextRecoveryId] = NewRequest(w, replaced, new)]
    /\ latestRecoveryId' = [latestRecoveryId EXCEPT ![w] = nextRecoveryId + 1]

(* The request takes the next id of the one counter all wallets share. *)
OpenRequest(w, replaced, new) ==
    /\ nextRecoveryId' = nextRecoveryId + 1
    /\ requests' = [requests EXCEPT ![nextRecoveryId] = NewRequest(w, replaced, new)]
    /\ latestRecoveryId' = [latestRecoveryId EXCEPT ![w] = nextRecoveryId]

InitiateRecovery(w, caller, replaced, new) ==
    /\ recoveryInitialized[w]
    /\ caller \in guardians[w] \cup devices[w]
    /\ ~HasLiveRequest(w)
    /\ ReplacementValid(w, replaced, new)
    /\ quorum[w] <= GuardianCount(w)
    /\ nextRecoveryId <= MaxRequests
    /\ OpenRequest(w, replaced, new)
    /\ UNCHANGED <<now, walletVars, configVars, approved>>

(* Mutants: a guardian may approve twice; a device may approve. *)
ApproverTwice(w, caller) == Latest(w).status = "Pending" /\ caller \in guardians[w]
ApproverDevice(w, caller) ==
    /\ Latest(w).status = "Pending"
    /\ caller \in guardians[w] \cup devices[w]
    /\ caller \notin approved[latestRecoveryId[w]]

CanApprove(w, caller) ==
    /\ Latest(w).status = "Pending"
    /\ caller \in guardians[w]
    /\ caller \notin approved[latestRecoveryId[w]]

(* Mutant: one approval too many is asked for. *)
CompletesLate(r) == r.approvals >= r.quorumSnapshot

Completes(r) == r.approvals + 1 >= r.quorumSnapshot

(* The approval that completes the quorum arms the timelock; if the        *)
(* deadline does not fit executeAfter, that approval reverts.              *)
ApproveRecovery(w, caller) ==
    LET id == latestRecoveryId[w]
        r == requests[id]
        complete == Completes(r)
    IN  /\ CanApprove(w, caller)
        /\ complete => now + r.timelockSnapshot <= UINT64_MAX
        /\ approved' = [approved EXCEPT ![id] = @ \cup {caller}]
        /\ requests' =
               [requests EXCEPT ![id] =
                   [r EXCEPT !.approvals = @ + 1,
                             !.status = IF complete THEN "QuorumReached" ELSE @,
                             !.executeAfter =
                                 IF complete THEN now + r.timelockSnapshot ELSE @]]
        /\ UNCHANGED <<now, walletVars, configVars, nextRecoveryId, latestRecoveryId>>

(* Mutant: only a cancelled request refuses to be cancelled. *)
CanCancelSettled(w, caller) ==
    caller \in devices[w] /\ Latest(w).status \notin {"None", "Cancelled"}

CanCancel(w, caller) ==
    /\ caller \in devices[w]
    /\ EffectiveStatus(Latest(w)) \in LiveStatuses

CancelRecovery(w, caller) ==
    /\ CanCancel(w, caller)
    /\ requests' = [requests EXCEPT ![latestRecoveryId[w]].status = "Cancelled"]
    /\ UNCHANGED <<now, walletVars, configVars, nextRecoveryId, latestRecoveryId, approved>>

(* Anyone may send it. *)
FinalizeRecovery(w) ==
    LET id == latestRecoveryId[w]
        r == requests[id]
    IN  /\ EffectiveStatus(r) = "Executable"
        /\ requests' = [requests EXCEPT ![id].status = "Executed"]
        /\ ApplyRecoveredDevice(w, r.replacedDevice, r.newDevice)
        /\ UNCHANGED <<now, recoveryInitialized, configVars,
                       nextRecoveryId, latestRecoveryId, approved>>

----------------------------------------------------------------------------
(* What the accounts do of their own accord ... *)
ManagerStep(w, caller) ==
    \/ \E d \in DeviceKeys : RegisterDevice(w, caller, d)
    \/ \E gs \in SUBSET GuardianKeys : \E q \in 1 .. Cardinality(gs), s \in Timelocks :
           BootstrapRecoveryGovernance(w, caller, gs, q, s)

DeviceStep(w, caller) == \E d \in DeviceKeys : RevokeDevice(w, caller, d)

RecoveryStep(w, caller) ==
    \/ \E new \in DeviceKeys, replaced \in DeviceKeys \cup {NoAddress} :
           InitiateRecovery(w, caller, replaced, new)
    \/ ApproveRecovery(w, caller)
    \/ CancelRecovery(w, caller)
    \/ FinalizeRecovery(w)

(* ... and what they do through the wallet. *)
GovernanceStep(w) ==
    \/ \E g \in GuardianKeys : AddGuardian(w, g) \/ RemoveGuardian(w, g)
    \/ \E q \in 1 .. Cardinality(GuardianKeys) : SetQuorum(w, q)
    \/ \E s \in Timelocks : SetRecoveryTimelock(w, s)

Next ==
    \/ Tick
    \/ \E w \in Wallets :
           \/ \E caller \in Callers :
                  ManagerStep(w, caller) \/ DeviceStep(w, caller) \/ RecoveryStep(w, caller)
           \/ GovernanceStep(w)

Spec == Init /\ [][Next]_vars

(* Blocks keep coming, and finalizeRecovery is permissionless: some relayer *)
(* sends it for as long as it would succeed. Nobody is obliged to approve, *)
(* cancel or initiate.                                                     *)
Fairness ==
    /\ WF_vars(Tick)
    /\ \A w \in Wallets : WF_vars(FinalizeRecovery(w))

FairSpec == Spec /\ Fairness

----------------------------------------------------------------------------
(* Properties *)

(* Every variable holds values of its storage type. *)
TypeOK ==
    /\ now \in Nat
    /\ recoveryInitialized \in [Wallets -> BOOLEAN]
    /\ devices \in [Wallets -> SUBSET DeviceKeys]
    /\ deviceCount \in [Wallets -> Nat]
    /\ guardians \in [Wallets -> SUBSET GuardianKeys]
    /\ quorum \in [Wallets -> Nat]
    /\ timelockSeconds \in [Wallets -> Nat]
    /\ nextRecoveryId \in 1 .. (MaxRequests + 1)
    /\ latestRecoveryId \in [Wallets -> RequestIds]
    /\ requests \in [RequestIds -> Request]
    /\ approved \in [RequestIds -> SUBSET GuardianKeys]

(* A wallet never loses its last device, whatever mix of registration,     *)
(* revocation and recovery it goes through, and _deviceCount, on which the *)
(* last-device check relies, never drifts from the set it counts.          *)
DeviceSetSound ==
    \A w \in Wallets :
        /\ devices[w] # {}
        /\ deviceCount[w] = Cardinality(devices[w])

(* A wallet whose governance was not bootstrapped has no guardian and no   *)
(* request; a bootstrapped one always has a positive quorum and at least   *)
(* the minimum timelock configured, however its devices reconfigure it.    *)
GovernanceConfigured ==
    \A w \in Wallets :
        IF recoveryInitialized[w]
        THEN quorum[w] >= 1 /\ timelockSeconds[w] >= MIN_TIMELOCK
        ELSE guardians[w] = {} /\ latestRecoveryId[w] = 0

(* The approvals counter is the number of distinct guardians that          *)
(* approved, it is below the snapshotted quorum exactly while the request  *)
(* waits, and a deadline is armed exactly when the quorum was reached.     *)
QuorumCounted ==
    \A id \in RequestIds :
        LET r == requests[id]
        IN  /\ r.approvals = Cardinality(approved[id])
            /\ r.status # "None" => r.quorumSnapshot >= 1
            /\ r.status = "Pending" => r.approvals < r.quorumSnapshot
            /\ r.status \in {"QuorumReached", "Executable", "Executed"} =>
                   r.approvals >= r.quorumSnapshot
            /\ r.executeAfter # 0 <=>
                   r.status # "None" /\ r.approvals >= r.quorumSnapshot

(* Every approved recovery leaves the public warning window: its deadline  *)
(* is at least the minimum timelock after it was opened, fits a uint64,    *)
(* and has passed once the request is Executed.                            *)
WarningWindow ==
    \A id \in RequestIds :
        LET r == requests[id]
        IN  /\ r.executeAfter # 0 =>
                   /\ r.executeAfter >= r.initiatedAt + MIN_TIMELOCK
                   /\ r.executeAfter <= UINT64_MAX
            /\ r.status = "Executed" => r.executeAfter # 0 /\ now >= r.executeAfter

(* A wallet has at most one live request, and it is the one the wallet's   *)
(* latest id points at: no older request can come back to life.            *)
OneLiveRequest ==
    \A id \in RequestIds :
        requests[id].status \in LiveStatuses =>
            /\ id = latestRecoveryId[requests[id].wallet]
            /\ recoveryInitialized[requests[id].wallet]

(* While a request is live nothing else can authorize its new device, so   *)
(* finalization can only be refused because the replaced device left.      *)
NewDeviceStillNew ==
    \A w \in Wallets :
        HasLiveRequest(w) => Latest(w).newDevice \notin devices[w]

(* A wallet's latest id always names a request of that wallet, whatever    *)
(* the order in which wallets draw ids from the one global counter.        *)
LatestIsOwn ==
    \A w \in Wallets :
        latestRecoveryId[w] # 0 => Latest(w).wallet = w

(* OwnGuardiansApprove, for one step.                                      *)
ApprovalOwned ==
    \A id \in RequestIds :
       approved'[id] # approved[id] =>
           /\ requests[id].status = "Pending"
           /\ \E g \in guardians[requests[id].wallet] \ approved[id] :
                  approved'[id] = approved[id] \cup {g}

(* An approval is only ever recorded for a guardian that is active in the  *)
(* request's own wallet, on a request that is still collecting approvals.  *)
OwnGuardiansApprove == [][ApprovalOwned]_vars

(* DeviceSetProvenance, for one step.                                      *)
DeviceChangeEarned ==
    \A w \in Wallets : recoveryInitialized[w] =>
       /\ recoveryInitialized'[w]
       /\ devices'[w] # devices[w] =>
             LET id == latestRecoveryId[w]
                 r == requests[id]
             IN  \/ /\ \E d \in devices[w] : devices'[w] = devices[w] \ {d}
                    /\ UNCHANGED requests
                 \/ /\ Cardinality(approved[id]) >= r.quorumSnapshot
                    /\ now >= r.executeAfter
                    /\ now >= r.initiatedAt + MIN_TIMELOCK
                    /\ r.status \in LiveStatuses
                    /\ requests'[id].status = "Executed"
                    /\ devices'[w] = (devices[w] \ {r.replacedDevice}) \cup {r.newDevice}

(* After bootstrap the device set changes in two ways only: one device     *)
(* leaves by revoking itself, or a request with a full quorum of approvals *)
(* whose window has passed is executed, its new device entering in the     *)
(* same step as its replaced one leaves. The manager's power never returns.*)
DeviceSetProvenance == [][DeviceChangeEarned]_vars

(* HistoryFixed, for one step.                                             *)
HistoryKept ==
    \A id \in RequestIds :
       LET r == requests[id]
           s == requests'[id]
       IN  r.status # "None" =>
             /\ s = [r EXCEPT !.status = s.status, !.approvals = s.approvals,
                              !.executeAfter = s.executeAfter]
             /\ r.executeAfter # 0 => s.executeAfter = r.executeAfter
             /\ r.status \in TerminalStatuses =>
                   s = r /\ approved'[id] = approved[id]

(* A request's terms never change once opened, its deadline never moves    *)
(* once armed, and a settled request is settled forever, approvals too.    *)
HistoryFixed == [][HistoryKept]_vars

(* A recovery whose quorum was reached is settled once its window passes,  *)
(* unless the device it replaces has revoked itself meanwhile: nothing     *)
(* else can block the permissionless finalization. Deadlines beyond the    *)
(* modelled time are left out.                                             *)
ApprovedRecoverySettles ==
    \A id \in RequestIds :
        (requests[id].status = "QuorumReached" /\ requests[id].executeAfter <= MaxTime)
            ~> \/ requests[id].status \in TerminalStatuses
               \/ \E w \in Wallets :
                      /\ requests[id].wallet = w
                      /\ requests[id].replacedDevice \notin devices[w] \cup {NoAddress}
=============================================================================
