---------------------- MODULE RecoveryGovernance_proofs ----------------------
(***************************************************************************)
(* Theorems about RecoveryGovernance, for any wallets, keys and bounds,    *)
(* and that it implements the reference state machine, for any number of   *)
(* wallets, guardians, devices and requests.                               *)
(***************************************************************************)
EXTENDS RecoveryRefinement, FiniteSetTheorems, TLAPS

----------------------------------------------------------------------------
(* Types *)

(* Opening a request keeps every request slot well formed. *)
LEMMA OpenRequestType ==
    ASSUME TypeOK, NEW w \in Wallets, NEW replaced \in DeviceKeys \cup {NoAddress},
           NEW new \in DeviceKeys, nextRecoveryId <= MaxRequests,
           OpenRequest(w, replaced, new)
    PROVE  /\ requests' \in [RequestIds -> Request]
           /\ latestRecoveryId' \in [Wallets -> RequestIds]
           /\ nextRecoveryId' \in 1 .. (MaxRequests + 1)
<1>1. NewRequest(w, replaced, new) \in Request
  BY DEF TypeOK, NewRequest, Request, Statuses, LiveStatuses
<1>2. nextRecoveryId \in RequestIds
  BY NumberAssumption DEF TypeOK, RequestIds
<1> QED
  BY <1>1, <1>2, NumberAssumption DEF TypeOK, OpenRequest, RequestIds

(* Approving keeps every request slot well formed. *)
LEMMA ApproveType ==
    ASSUME TypeOK, NEW w \in Wallets, NEW caller \in Callers, ApproveRecovery(w, caller)
    PROVE  /\ requests' \in [RequestIds -> Request]
           /\ approved' \in [RequestIds -> SUBSET GuardianKeys]
<1> DEFINE id == latestRecoveryId[w]
           r == requests[id]
<1>1. id \in RequestIds /\ r \in Request
  BY DEF TypeOK
<1>2. caller \in GuardianKeys
  BY DEF TypeOK, ApproveRecovery, CanApprove
<1>3. now + r.timelockSnapshot \in Nat /\ r.approvals + 1 \in Nat
  BY <1>1 DEF TypeOK, Request
<1>4. requests'[id] \in Request
  BY <1>1, <1>3 DEF TypeOK, ApproveRecovery, Request, Statuses, LiveStatuses
<1> QED
  BY <1>1, <1>2, <1>4 DEF TypeOK, ApproveRecovery

(* Settling a request keeps every request slot well formed.                 *)
LEMMA SettleType ==
    ASSUME TypeOK, NEW w \in Wallets, NEW status \in Statuses,
           requests' = [requests EXCEPT ![latestRecoveryId[w]].status = status]
    PROVE  requests' \in [RequestIds -> Request]
<1>1. latestRecoveryId[w] \in RequestIds /\ requests[latestRecoveryId[w]] \in Request
  BY DEF TypeOK
<1>2. [requests[latestRecoveryId[w]] EXCEPT !.status = status] \in Request
  BY <1>1 DEF Request
<1> QED
  BY <1>1, <1>2 DEF TypeOK

(* Applying a recovered device keeps the device set of the wallet's type,   *)
(* and never lowers the count.                                                      *)
LEMMA ApplyType ==
    ASSUME TypeOK, NEW w \in Wallets, NEW replaced, NEW new \in DeviceKeys \cup {NoAddress},
           ApplyRecoveredDevice(w, replaced, new)
    PROVE  /\ devices' \in [Wallets -> SUBSET DeviceKeys]
           /\ deviceCount' \in [Wallets -> Nat]
           /\ \A v \in Wallets : deviceCount'[v] >= deviceCount[v]
  BY DEF TypeOK, ApplyRecoveredDevice

(* The last-device check keeps the counter positive, so it never underflows. *)
CountPositive == \A w \in Wallets : deviceCount[w] >= 1

(* Together they are inductive.                                             *)
LEMMA TypeStep == TypeOK /\ CountPositive /\ [Next]_vars => TypeOK' /\ CountPositive'
<1> SUFFICES ASSUME TypeOK, CountPositive, [Next]_vars PROVE TypeOK' /\ CountPositive'
  OBVIOUS
<1> USE NumberAssumption
<1>1. CASE UNCHANGED vars
  BY <1>1 DEF TypeOK, CountPositive, vars, walletVars, configVars, requestVars
<1>2. CASE Tick
  BY <1>2 DEF TypeOK, CountPositive, Tick, walletVars, configVars, requestVars
<1>3. ASSUME NEW w \in Wallets, NEW caller \in Callers, NEW d \in DeviceKeys,
             RegisterDevice(w, caller, d)
      PROVE  TypeOK' /\ CountPositive'
  BY <1>3 DEF TypeOK, CountPositive, RegisterDevice, configVars, requestVars
<1>4. ASSUME NEW w \in Wallets, NEW caller \in Callers, NEW gs \in SUBSET GuardianKeys,
             NEW q \in 1 .. Cardinality(gs), NEW s \in Timelocks,
             BootstrapRecoveryGovernance(w, caller, gs, q, s)
      PROVE  TypeOK' /\ CountPositive'
  <2>1. q \in Nat /\ s \in Nat
    BY <1>4
  <2> QED
    BY <1>4, <2>1 DEF TypeOK, CountPositive, BootstrapRecoveryGovernance, requestVars
<1>5. ASSUME NEW w \in Wallets, NEW caller \in Callers, NEW d \in DeviceKeys,
             RevokeDevice(w, caller, d)
      PROVE  TypeOK' /\ CountPositive'
  BY <1>5 DEF TypeOK, CountPositive, RevokeDevice, configVars, requestVars
<1>6. ASSUME NEW w \in Wallets, NEW caller \in Callers, NEW new \in DeviceKeys,
             NEW replaced \in DeviceKeys \cup {NoAddress},
             InitiateRecovery(w, caller, replaced, new)
      PROVE  TypeOK' /\ CountPositive'
  BY <1>6, OpenRequestType
     DEF TypeOK, CountPositive, InitiateRecovery, walletVars, configVars
<1>7. ASSUME NEW w \in Wallets, NEW caller \in Callers, ApproveRecovery(w, caller)
      PROVE  TypeOK' /\ CountPositive'
  <2>1. UNCHANGED <<now, walletVars, configVars, nextRecoveryId, latestRecoveryId>>
    BY <1>7 DEF ApproveRecovery
  <2> QED
    BY <1>7, <2>1, ApproveType DEF TypeOK, CountPositive, walletVars, configVars
<1>8. ASSUME NEW w \in Wallets, NEW caller \in Callers, CancelRecovery(w, caller)
      PROVE  TypeOK' /\ CountPositive'
  BY <1>8, SettleType DEF Statuses, TerminalStatuses, TypeOK, CountPositive, CancelRecovery, walletVars, configVars
<1>9. ASSUME NEW w \in Wallets, FinalizeRecovery(w)
      PROVE  TypeOK' /\ CountPositive'
  <2> DEFINE r == requests[latestRecoveryId[w]]
  <2>1. r \in Request
    BY DEF TypeOK
  <2>2. requests' \in [RequestIds -> Request]
    BY <1>9, SettleType DEF Statuses, TerminalStatuses, FinalizeRecovery
  <2>3. /\ devices' \in [Wallets -> SUBSET DeviceKeys]
        /\ deviceCount' \in [Wallets -> Nat]
        /\ CountPositive'
    BY <1>9, <2>1, ApplyType DEF TypeOK, CountPositive, FinalizeRecovery, Request
  <2> QED
    BY <1>9, <2>2, <2>3 DEF TypeOK, FinalizeRecovery, configVars
<1>10. ASSUME NEW w \in Wallets, GovernanceStep(w)
       PROVE  TypeOK' /\ CountPositive'
  <2>1. ASSUME NEW g \in GuardianKeys, AddGuardian(w, g) \/ RemoveGuardian(w, g)
        PROVE  TypeOK' /\ CountPositive'
    BY <2>1 DEF TypeOK, CountPositive, AddGuardian, RemoveGuardian, walletVars, requestVars
  <2>2. ASSUME NEW q \in 1 .. Cardinality(GuardianKeys), SetQuorum(w, q)
        PROVE  TypeOK' /\ CountPositive'
    <3>1. q \in Nat
      OBVIOUS
    <3> QED
      BY <2>2, <3>1 DEF TypeOK, CountPositive, SetQuorum, walletVars, requestVars
  <2>3. ASSUME NEW s \in Timelocks, SetRecoveryTimelock(w, s)
        PROVE  TypeOK' /\ CountPositive'
    BY <2>3 DEF TypeOK, CountPositive, SetRecoveryTimelock, walletVars, requestVars
  <2> QED
    BY <1>10, <2>1, <2>2, <2>3 DEF GovernanceStep
<1> QED
  BY <1>1, <1>2, <1>3, <1>4, <1>5, <1>6, <1>7, <1>8, <1>9, <1>10
     DEF Next, ManagerStep, DeviceStep, RecoveryStep

LEMMA TypeInit == Init => TypeOK /\ CountPositive
<1> SUFFICES ASSUME Init PROVE TypeOK /\ CountPositive
  OBVIOUS
<1>1. devices \in [Wallets -> SUBSET DeviceKeys]
  BY DEF Init
<1>2. NoRequest \in Request
  BY DEF NoRequest, Request, Statuses
<1> QED
  BY <1>1, <1>2, NumberAssumption DEF Init, TypeOK, CountPositive, RequestIds

(* Every reachable state is well typed: no counter underflows, no id leaves *)
(* the range handed out, no request is written to half.                     *)
THEOREM TypeCorrect == Spec => []TypeOK
<1>1. Spec => [](TypeOK /\ CountPositive)
  BY TypeInit, TypeStep, PTL DEF Spec
<1> QED
  BY <1>1, PTL

----------------------------------------------------------------------------
(* What a step does to the requests *)

(* A step leaves all requests alone, opens one, approves one or settles one. *)
(* The first kind adds no device to a bootstrapped wallet, the second and   *)
(* third change no device set, the last only the settling wallet's.         *)
QuietStep ==
    /\ UNCHANGED requestVars
    /\ now' >= now
    /\ \A v \in Wallets :
          /\ recoveryInitialized[v] => recoveryInitialized'[v]
          /\ recoveryInitialized[v] => devices'[v] \subseteq devices[v]

OpenStep(w, replaced, new) ==
    /\ recoveryInitialized[w]
    /\ ~HasLiveRequest(w)
    /\ ReplacementValid(w, replaced, new)
    /\ quorum[w] <= GuardianCount(w)
    /\ nextRecoveryId <= MaxRequests
    /\ OpenRequest(w, replaced, new)
    /\ UNCHANGED <<now, walletVars, configVars, approved>>

SettleStep(w, status) ==
    /\ EffectiveStatus(Latest(w)) \in LiveStatuses
    /\ status = "Executed" => EffectiveStatus(Latest(w)) = "Executable"
    /\ \A v \in Wallets : v # w => devices'[v] = devices[v]
    /\ requests' = [requests EXCEPT ![latestRecoveryId[w]].status = status]
    /\ UNCHANGED <<now, recoveryInitialized, configVars,
                   nextRecoveryId, latestRecoveryId, approved>>

LEMMA StepKinds ==
    ASSUME TypeOK, [Next]_vars
    PROVE  \/ QuietStep
           \/ \E w \in Wallets, replaced \in DeviceKeys \cup {NoAddress}, new \in DeviceKeys :
                  OpenStep(w, replaced, new)
           \/ \E w \in Wallets, caller \in Callers : ApproveRecovery(w, caller)
           \/ \E w \in Wallets, status \in TerminalStatuses : SettleStep(w, status)
<1>1. CASE UNCHANGED vars
  BY <1>1 DEF QuietStep, vars, walletVars, TypeOK
<1>2. CASE Tick
  BY <1>2 DEF QuietStep, Tick, walletVars, TypeOK
<1>3. ASSUME NEW w \in Wallets, NEW caller \in Callers,
             ManagerStep(w, caller) \/ DeviceStep(w, caller)
      PROVE  QuietStep
  <2>1. ASSUME NEW d \in DeviceKeys, RegisterDevice(w, caller, d) \/ RevokeDevice(w, caller, d)
        PROVE  QuietStep
    BY <2>1 DEF QuietStep, TypeOK, RegisterDevice, RevokeDevice
  <2>2. ASSUME NEW gs \in SUBSET GuardianKeys, NEW q \in 1 .. Cardinality(gs),
               NEW s \in Timelocks, BootstrapRecoveryGovernance(w, caller, gs, q, s)
        PROVE  QuietStep
    BY <2>2 DEF QuietStep, TypeOK, BootstrapRecoveryGovernance
  <2> QED
    BY <1>3, <2>1, <2>2 DEF ManagerStep, DeviceStep
<1>4. ASSUME NEW w \in Wallets, NEW caller \in Callers, RecoveryStep(w, caller)
      PROVE  \/ \E replaced \in DeviceKeys \cup {NoAddress}, new \in DeviceKeys :
                    OpenStep(w, replaced, new)
             \/ ApproveRecovery(w, caller)
             \/ \E status \in TerminalStatuses : SettleStep(w, status)
  <2>1. ASSUME NEW replaced \in DeviceKeys \cup {NoAddress}, NEW new \in DeviceKeys,
               InitiateRecovery(w, caller, replaced, new)
        PROVE  OpenStep(w, replaced, new)
    BY <2>1 DEF InitiateRecovery, OpenStep
  <2>2. CancelRecovery(w, caller) => SettleStep(w, "Cancelled")
    BY DEF CancelRecovery, CanCancel, SettleStep, walletVars
  <2>3. FinalizeRecovery(w) => SettleStep(w, "Executed")
    BY DEF FinalizeRecovery, ApplyRecoveredDevice, SettleStep, Latest, LiveStatuses, TypeOK
  <2> QED
    BY <1>4, <2>1, <2>2, <2>3 DEF RecoveryStep, TerminalStatuses
<1>5. ASSUME NEW w \in Wallets, GovernanceStep(w) PROVE QuietStep
  BY <1>5 DEF QuietStep, TypeOK, GovernanceStep, AddGuardian, RemoveGuardian,
              SetQuorum, SetRecoveryTimelock, walletVars
<1> QED
  BY <1>1, <1>2, <1>3, <1>4, <1>5 DEF Next

(* Field by field, what each kind of step does to the request it touches.   *)
LEMMA OpenEffect ==
    ASSUME TypeOK, NEW w \in Wallets, NEW replaced, NEW new, OpenStep(w, replaced, new)
    PROVE  /\ nextRecoveryId \in RequestIds
           /\ nextRecoveryId' = nextRecoveryId + 1
           /\ requests'[nextRecoveryId] = NewRequest(w, replaced, new)
           /\ latestRecoveryId'[w] = nextRecoveryId
           /\ \A id \in RequestIds : id # nextRecoveryId => requests'[id] = requests[id]
           /\ \A v \in Wallets : v # w => latestRecoveryId'[v] = latestRecoveryId[v]
  BY NumberAssumption DEF TypeOK, RequestIds, OpenStep, OpenRequest

LEMMA ApproveFrame ==
    ASSUME TypeOK, NEW w \in Wallets, NEW caller \in Callers, ApproveRecovery(w, caller)
    PROVE  /\ latestRecoveryId[w] \in RequestIds
           /\ \A j \in RequestIds :
                 j # latestRecoveryId[w] =>
                     requests'[j] = requests[j] /\ approved'[j] = approved[j]
           /\ now' = now
           /\ nextRecoveryId' = nextRecoveryId
           /\ latestRecoveryId' = latestRecoveryId
  BY DEF ApproveRecovery, TypeOK

LEMMA ApproveEffect ==
    ASSUME TypeOK, NEW w \in Wallets, NEW caller \in Callers, ApproveRecovery(w, caller)
    PROVE  LET id == latestRecoveryId[w]
               r == requests[id]
               s == requests'[id]
           IN  /\ id \in RequestIds /\ r \in Request /\ s \in Request
               /\ r.status = "Pending"
               /\ caller \in guardians[w] \ approved[id]
               /\ s = [r EXCEPT !.status = s.status, !.approvals = s.approvals,
                                !.executeAfter = s.executeAfter]
               /\ s.approvals = r.approvals + 1
               /\ IF s.approvals >= r.quorumSnapshot
                  THEN /\ s.status = "QuorumReached"
                       /\ s.executeAfter = now + r.timelockSnapshot
                       /\ s.executeAfter <= UINT64_MAX
                  ELSE s.status = "Pending" /\ s.executeAfter = r.executeAfter
               /\ approved'[id] = approved[id] \cup {caller}
<1> DEFINE id == latestRecoveryId[w]
           r == requests[id]
           s == requests'[id]
<1>1. id \in RequestIds /\ r \in Request
  BY DEF TypeOK
<1>2. s \in Request
  BY <1>1, ApproveType
<1>3. /\ r.status = "Pending" /\ caller \in guardians[w] \ approved[id]
      /\ Completes(r) => now + r.timelockSnapshot <= UINT64_MAX
  BY DEF ApproveRecovery, CanApprove, Latest
<1>4. s = [r EXCEPT !.approvals = r.approvals + 1,
                    !.status = IF Completes(r) THEN "QuorumReached" ELSE r.status,
                    !.executeAfter =
                        IF Completes(r) THEN now + r.timelockSnapshot ELSE r.executeAfter]
  BY <1>1 DEF ApproveRecovery, TypeOK
<1>5. approved'[id] = approved[id] \cup {caller}
  BY <1>1 DEF ApproveRecovery, TypeOK
<1>6. s.approvals = r.approvals + 1
  BY <1>1, <1>4 DEF Request
<1>7. IF s.approvals >= r.quorumSnapshot
      THEN /\ s.status = "QuorumReached"
           /\ s.executeAfter = now + r.timelockSnapshot
           /\ s.executeAfter <= UINT64_MAX
      ELSE s.status = "Pending" /\ s.executeAfter = r.executeAfter
  BY <1>1, <1>3, <1>4, <1>6 DEF Request, Completes
<1>8. s = [r EXCEPT !.status = s.status, !.approvals = s.approvals,
                    !.executeAfter = s.executeAfter]
  BY <1>1, <1>2, <1>4 DEF Request
<1> QED
  BY <1>1, <1>2, <1>3, <1>5, <1>6, <1>7, <1>8

LEMMA SettleEffect ==
    ASSUME TypeOK, NEW w \in Wallets, NEW status \in TerminalStatuses, SettleStep(w, status)
    PROVE  LET id == latestRecoveryId[w]
               r == requests[id]
               s == requests'[id]
           IN  /\ id \in RequestIds /\ r \in Request /\ s \in Request
               /\ r.status \in LiveStatuses
               /\ s = [r EXCEPT !.status = status]
               /\ s.status = status
               /\ \A j \in RequestIds : j # id => requests'[j] = requests[j]
<1> DEFINE id == latestRecoveryId[w]
           r == requests[id]
           s == requests'[id]
<1>1. id \in RequestIds /\ r \in Request
  BY DEF TypeOK
<1>2. s = [r EXCEPT !.status = status] /\ s.status = status
  BY <1>1 DEF SettleStep, TypeOK, Request
<1>3. r.status \in LiveStatuses
  BY DEF SettleStep, Latest, EffectiveStatus, LiveStatuses
<1>4. s \in Request
  BY <1>1, <1>2 DEF Request, TerminalStatuses, Statuses
<1> QED
  BY <1>1, <1>2, <1>3, <1>4 DEF SettleStep, TypeOK

----------------------------------------------------------------------------
(* The inductive invariant *)

(* Ids at or above the counter, and id 0, were never written.               *)
Fresh ==
    \A id \in RequestIds : id = 0 \/ id >= nextRecoveryId => requests[id] = NoRequest

Issued == \A w \in Wallets : latestRecoveryId[w] < nextRecoveryId

(* What a request copied when it was opened; Executable is never stored.    *)
Snapshots ==
    \A id \in RequestIds :
        LET r == requests[id]
        IN  r.status # "None" =>
                /\ r.wallet \in Wallets
                /\ r.quorumSnapshot >= 1
                /\ r.timelockSnapshot >= MIN_TIMELOCK
                /\ r.initiatedAt <= now
                /\ r.status # "Executable"

IInv ==
    /\ TypeOK
    /\ CountPositive
    /\ DeviceSetSound
    /\ GovernanceConfigured
    /\ Fresh
    /\ Issued
    /\ Snapshots
    /\ QuorumCounted
    /\ WarningWindow
    /\ LatestIsOwn
    /\ OneLiveRequest
    /\ NewDeviceStillNew

(* A step that touches one issued request, and no counter, leaves every     *)
(* unissued request as it was.                                              *)
LEMMA IssuedFrame ==
  ASSUME Fresh, Issued, nextRecoveryId \in Nat, RequestIds \subseteq Nat,
         NEW id \in RequestIds, id # 0, id < nextRecoveryId,
         \A j \in RequestIds : j # id => requests'[j] = requests[j],
         UNCHANGED nextRecoveryId, UNCHANGED latestRecoveryId
  PROVE  Fresh' /\ Issued'
<1>1. Fresh'
  <2> SUFFICES ASSUME NEW j \in RequestIds, j = 0 \/ j >= nextRecoveryId
               PROVE  requests'[j] = NoRequest
    BY DEF Fresh
  <2>1. j # id
    <3>1. j \in Nat /\ id \in Nat
      OBVIOUS
    <3>2. CASE j = 0
      BY <3>2
    <3>3. CASE j >= nextRecoveryId
      <4>1. id < nextRecoveryId
        OBVIOUS
      <4> QED
        BY <3>1, <3>3, <4>1
    <3> QED
      BY <3>2, <3>3
  <2>2. requests[j] = NoRequest
    BY DEF Fresh
  <2> QED
    BY <2>1, <2>2
<1>2. Issued'
  BY DEF Issued
<1> QED
  BY <1>1, <1>2

(* An invariant of all requests survives a step if the request the step     *)
(* touches satisfies it afterwards; the lemmas below say so one by one.     *)
LEMMA FreshStep == IInv /\ [Next]_vars => Fresh' /\ Issued'
<1> SUFFICES ASSUME IInv, [Next]_vars PROVE Fresh' /\ Issued'
  OBVIOUS
<1> USE NumberAssumption DEF IInv
<1>1. CASE QuietStep
  BY <1>1 DEF QuietStep, requestVars, Fresh, Issued
<1>2. ASSUME NEW w \in Wallets, NEW replaced \in DeviceKeys \cup {NoAddress},
             NEW new \in DeviceKeys, OpenStep(w, replaced, new)
      PROVE  Fresh' /\ Issued'
  <2>1. /\ nextRecoveryId \in RequestIds /\ nextRecoveryId >= 1
        /\ nextRecoveryId' = nextRecoveryId + 1
        /\ latestRecoveryId'[w] = nextRecoveryId
        /\ \A id \in RequestIds : id # nextRecoveryId => requests'[id] = requests[id]
        /\ \A v \in Wallets : v # w => latestRecoveryId'[v] = latestRecoveryId[v]
    BY <1>2, OpenEffect DEF TypeOK
  <2>2. Fresh'
    BY <2>1 DEF Fresh, RequestIds
  <2>3. Issued'
    <3> SUFFICES ASSUME NEW v \in Wallets PROVE latestRecoveryId'[v] < nextRecoveryId'
      BY DEF Issued
    <3>1. /\ nextRecoveryId \in Int /\ latestRecoveryId[v] \in Int
          /\ latestRecoveryId[v] < nextRecoveryId
      BY <2>1 DEF Issued, RequestIds, TypeOK
    <3> QED
      BY <2>1, <3>1
  <2> QED
    BY <2>2, <2>3
<1>3. ASSUME NEW w \in Wallets, NEW caller \in Callers, ApproveRecovery(w, caller)
      PROVE  Fresh' /\ Issued'
  <2> DEFINE id == latestRecoveryId[w]
  <2>1. /\ id \in RequestIds
        /\ requests[id].status = "Pending"
        /\ \A j \in RequestIds : j # id => requests'[j] = requests[j]
        /\ UNCHANGED <<nextRecoveryId, latestRecoveryId>>
    BY <1>3, ApproveFrame DEF ApproveRecovery, CanApprove, Latest
  <2>2. id # 0 /\ id < nextRecoveryId
    BY <2>1 DEF Fresh, Issued, NoRequest
  <2>3. nextRecoveryId \in Nat /\ RequestIds \subseteq Nat
    BY DEF TypeOK, RequestIds
  <2> HIDE DEF id, IInv
  <2> QED
    BY <2>1, <2>2, <2>3, IssuedFrame DEF IInv
<1>4. ASSUME NEW w \in Wallets, NEW status \in TerminalStatuses, SettleStep(w, status)
      PROVE  Fresh' /\ Issued'
  <2> DEFINE id == latestRecoveryId[w]
  <2>1. /\ id \in RequestIds
        /\ requests[id].status \in LiveStatuses
        /\ \A j \in RequestIds : j # id => requests'[j] = requests[j]
    BY <1>4, SettleEffect
  <2>2. UNCHANGED <<nextRecoveryId, latestRecoveryId>>
    BY <1>4 DEF SettleStep
  <2>3. id # 0 /\ id < nextRecoveryId
    BY <2>1 DEF Fresh, Issued, NoRequest, LiveStatuses
  <2>4. nextRecoveryId \in Nat /\ RequestIds \subseteq Nat
    BY DEF TypeOK, RequestIds
  <2> HIDE DEF id, IInv
  <2> QED
    BY <2>1, <2>2, <2>3, <2>4, IssuedFrame DEF IInv
<1> QED
  BY <1>1, <1>2, <1>3, <1>4, StepKinds

LEMMA SnapshotsStep == IInv /\ [Next]_vars => Snapshots'
<1> SUFFICES ASSUME IInv, [Next]_vars, NEW id \in RequestIds, requests'[id].status # "None"
             PROVE  /\ requests'[id].wallet \in Wallets
                    /\ requests'[id].quorumSnapshot >= 1
                    /\ requests'[id].timelockSnapshot >= MIN_TIMELOCK
                    /\ requests'[id].initiatedAt <= now'
                    /\ requests'[id].status # "Executable"
  BY DEF Snapshots
<1> DEFINE r == requests[id]
           s == requests'[id]
<1>0. r \in Request /\ now \in Nat
  BY DEF IInv, TypeOK
<1>1. CASE QuietStep
  <2>1. s = r /\ now' >= now
    BY <1>1 DEF QuietStep, requestVars
  <2>2. now' \in Nat
    BY TypeStep DEF IInv, TypeOK
  <2> QED
    BY <1>0, <2>1, <2>2 DEF IInv, Snapshots, Request
<1>2. ASSUME NEW w \in Wallets, NEW replaced \in DeviceKeys \cup {NoAddress},
             NEW new \in DeviceKeys, OpenStep(w, replaced, new)
      PROVE  /\ s.wallet \in Wallets /\ s.quorumSnapshot >= 1
             /\ s.timelockSnapshot >= MIN_TIMELOCK /\ s.initiatedAt <= now'
             /\ s.status # "Executable"
  <2>1. now' = now /\ recoveryInitialized[w]
    BY <1>2 DEF OpenStep
  <2>2. CASE id = nextRecoveryId
    <3>1. s = NewRequest(w, replaced, new)
      BY <1>2, <2>2, OpenEffect DEF IInv
    <3>2. quorum[w] >= 1 /\ timelockSeconds[w] >= MIN_TIMELOCK
      BY <2>1 DEF IInv, GovernanceConfigured
    <3> QED
      BY <1>0, <2>1, <3>1, <3>2 DEF NewRequest
  <2>3. CASE id # nextRecoveryId
    BY <1>2, <2>1, <2>3, OpenEffect DEF IInv, Snapshots
  <2> QED
    BY <2>2, <2>3
<1>3. ASSUME NEW w \in Wallets, NEW caller \in Callers, ApproveRecovery(w, caller)
      PROVE  /\ s.wallet \in Wallets /\ s.quorumSnapshot >= 1
             /\ s.timelockSnapshot >= MIN_TIMELOCK /\ s.initiatedAt <= now'
             /\ s.status # "Executable"
  <2>1. now' = now
    BY <1>3 DEF ApproveRecovery
  <2>2. CASE id = latestRecoveryId[w]
    <3>1. /\ r.status = "Pending"
          /\ s = [r EXCEPT !.status = s.status, !.approvals = s.approvals,
                           !.executeAfter = s.executeAfter]
          /\ s.status \in {"Pending", "QuorumReached"}
      BY <1>3, <2>2, ApproveEffect DEF IInv
    <3>2. /\ s.wallet = r.wallet /\ s.quorumSnapshot = r.quorumSnapshot
          /\ s.timelockSnapshot = r.timelockSnapshot /\ s.initiatedAt = r.initiatedAt
      BY <1>0, <3>1 DEF Request
    <3> QED
      BY <2>1, <3>1, <3>2 DEF IInv, Snapshots
  <2>3. CASE id # latestRecoveryId[w]
    BY <1>3, <2>1, <2>3, ApproveFrame DEF IInv, Snapshots
  <2> QED
    BY <2>2, <2>3
<1>4. ASSUME NEW w \in Wallets, NEW status \in TerminalStatuses, SettleStep(w, status)
      PROVE  /\ s.wallet \in Wallets /\ s.quorumSnapshot >= 1
             /\ s.timelockSnapshot >= MIN_TIMELOCK /\ s.initiatedAt <= now'
             /\ s.status # "Executable"
  <2>1. now' = now
    BY <1>4 DEF SettleStep
  <2>2. CASE id = latestRecoveryId[w]
    <3>1. /\ r.status \in LiveStatuses /\ s = [r EXCEPT !.status = status]
          /\ s.status \in TerminalStatuses
      BY <1>4, <2>2, SettleEffect DEF IInv
    <3>2. /\ s.wallet = r.wallet /\ s.quorumSnapshot = r.quorumSnapshot
          /\ s.timelockSnapshot = r.timelockSnapshot /\ s.initiatedAt = r.initiatedAt
      BY <1>0, <3>1 DEF Request
    <3> QED
      BY <2>1, <3>1, <3>2 DEF IInv, Snapshots, LiveStatuses, TerminalStatuses
  <2>3. CASE id # latestRecoveryId[w]
    BY <1>4, <2>1, <2>3, SettleEffect DEF IInv, Snapshots
  <2> QED
    BY <2>2, <2>3
<1> QED
  BY <1>1, <1>2, <1>3, <1>4, StepKinds DEF IInv

(* QuorumCounted and WarningWindow, for one request.                        *)
Counted(r, votes) ==
    /\ r.approvals = Cardinality(votes)
    /\ r.status # "None" => r.quorumSnapshot >= 1
    /\ r.status = "Pending" => r.approvals < r.quorumSnapshot
    /\ r.status \in {"QuorumReached", "Executable", "Executed"} =>
           r.approvals >= r.quorumSnapshot
    /\ r.executeAfter # 0 <=> r.status # "None" /\ r.approvals >= r.quorumSnapshot

Warned(r, time) ==
    /\ r.executeAfter # 0 =>
           /\ r.executeAfter >= r.initiatedAt + MIN_TIMELOCK
           /\ r.executeAfter <= UINT64_MAX
    /\ r.status = "Executed" => r.executeAfter # 0 /\ time >= r.executeAfter

LEMMA PerRequest ==
    /\ QuorumCounted <=> \A id \in RequestIds : Counted(requests[id], approved[id])
    /\ WarningWindow <=> \A id \in RequestIds : Warned(requests[id], now)
  BY DEF QuorumCounted, WarningWindow, Counted, Warned

LEMMA CountedStep == IInv /\ [Next]_vars => QuorumCounted' /\ WarningWindow'
<1> SUFFICES ASSUME IInv, [Next]_vars, NEW id \in RequestIds
             PROVE  Counted(requests'[id], approved'[id]) /\ Warned(requests'[id], now')
  BY DEF QuorumCounted, WarningWindow, Counted, Warned
<1> DEFINE r == requests[id]
           s == requests'[id]
<1> USE NumberAssumption
<1>0. /\ TypeOK /\ now \in Nat /\ r \in Request
      /\ Counted(r, approved[id]) /\ Warned(r, now)
  BY PerRequest DEF IInv, TypeOK
<1>1. CASE QuietStep
  <2>1. s = r /\ approved' = approved /\ now' >= now
    BY <1>1 DEF QuietStep, requestVars
  <2>2. now' \in Nat
    BY TypeStep DEF IInv, TypeOK
  <2> QED
    BY <1>0, <2>1, <2>2 DEF Warned, Request
<1>2. ASSUME NEW w \in Wallets, NEW replaced \in DeviceKeys \cup {NoAddress},
             NEW new \in DeviceKeys, OpenStep(w, replaced, new)
      PROVE  Counted(s, approved'[id]) /\ Warned(s, now')
  <2>1. now' = now /\ approved' = approved /\ recoveryInitialized[w]
    BY <1>2 DEF OpenStep
  <2>2. CASE id = nextRecoveryId
    <3>1. s = NewRequest(w, replaced, new)
      BY <1>0, <1>2, <2>2, OpenEffect
    <3>2. quorum[w] >= 1 /\ quorum[w] \in Nat
      BY <1>0, <2>1 DEF IInv, GovernanceConfigured, TypeOK
    <3>3. r = NoRequest
      BY <2>2, <1>0 DEF IInv, Fresh, TypeOK
    <3>4. Cardinality(approved[id]) = 0
      BY <1>0, <3>3 DEF Counted, NoRequest
    <3> QED
      BY <2>1, <3>1, <3>2, <3>4 DEF Counted, Warned, NewRequest
  <2>3. CASE id # nextRecoveryId
    BY <1>0, <1>2, <2>1, <2>3, OpenEffect
  <2> QED
    BY <2>2, <2>3
<1>3. ASSUME NEW w \in Wallets, NEW caller \in Callers, ApproveRecovery(w, caller)
      PROVE  Counted(s, approved'[id]) /\ Warned(s, now')
  <2>1. CASE id = latestRecoveryId[w]
    <3>1. /\ s \in Request
          /\ r.status = "Pending"
          /\ caller \notin approved[id]
          /\ s = [r EXCEPT !.status = s.status, !.approvals = s.approvals,
                           !.executeAfter = s.executeAfter]
          /\ s.approvals = r.approvals + 1
          /\ IF s.approvals >= r.quorumSnapshot
             THEN /\ s.status = "QuorumReached"
                  /\ s.executeAfter = now + r.timelockSnapshot
                  /\ s.executeAfter <= UINT64_MAX
             ELSE s.status = "Pending" /\ s.executeAfter = r.executeAfter
          /\ approved'[id] = approved[id] \cup {caller}
      BY <1>0, <1>3, <2>1, ApproveEffect
    <3>2. s.quorumSnapshot = r.quorumSnapshot /\ s.initiatedAt = r.initiatedAt
      BY <1>0, <3>1 DEF Request
    <3>3. IsFiniteSet(approved[id])
      BY <1>0, AddressAssumption, FS_Subset DEF TypeOK
    <3>4. s.approvals = Cardinality(approved'[id])
      BY <1>0, <3>1, <3>3, FS_AddElement DEF Counted
    <3>5. /\ r.timelockSnapshot \in Nat /\ r.initiatedAt \in Nat /\ r.approvals \in Nat
          /\ r.quorumSnapshot \in Nat /\ r.executeAfter \in Nat
          /\ r.timelockSnapshot >= MIN_TIMELOCK /\ r.initiatedAt <= now
          /\ r.quorumSnapshot >= 1
      BY <1>0, <3>1 DEF Request, IInv, Snapshots
    <3>6. r.approvals < r.quorumSnapshot /\ r.executeAfter = 0
      BY <1>0, <3>1, <3>5 DEF Counted
    <3>7. CASE s.approvals >= r.quorumSnapshot
      <4>1. /\ s.status = "QuorumReached"
            /\ s.executeAfter = now + r.timelockSnapshot
            /\ s.executeAfter <= UINT64_MAX
        BY <3>1, <3>7
      <4>2. s.executeAfter # 0 /\ s.executeAfter >= s.initiatedAt + MIN_TIMELOCK
        BY <1>0, <3>2, <3>5, <4>1
      <4> QED
        BY <3>2, <3>4, <3>5, <3>7, <4>1, <4>2 DEF Counted, Warned
    <3>8. CASE ~(s.approvals >= r.quorumSnapshot)
      <4>1. s.status = "Pending" /\ s.executeAfter = 0
        BY <3>1, <3>6, <3>8
      <4>2. s.approvals < s.quorumSnapshot
        BY <3>1, <3>2, <3>5, <3>8
      <4> QED
        BY <3>2, <3>4, <3>5, <3>8, <4>1, <4>2 DEF Counted, Warned
    <3> QED
      BY <3>7, <3>8
  <2>2. CASE id # latestRecoveryId[w]
    BY <1>0, <1>3, <2>2, ApproveFrame
  <2> QED
    BY <2>1, <2>2
<1>4. ASSUME NEW w \in Wallets, NEW status \in TerminalStatuses, SettleStep(w, status)
      PROVE  Counted(s, approved'[id]) /\ Warned(s, now')
  <2>1. now' = now /\ approved' = approved
    BY <1>4 DEF SettleStep
  <2>2. CASE id = latestRecoveryId[w]
    <3>1. r.status \in LiveStatuses /\ s = [r EXCEPT !.status = status] /\ s.status = status
      BY <1>0, <1>4, <2>2, SettleEffect
    <3>2. /\ s.approvals = r.approvals /\ s.quorumSnapshot = r.quorumSnapshot
          /\ s.executeAfter = r.executeAfter /\ s.initiatedAt = r.initiatedAt
      BY <1>0, <3>1 DEF Request
    <3>3. status = "Executed" => /\ r.executeAfter # 0 /\ now >= r.executeAfter
                                 /\ r.approvals >= r.quorumSnapshot
      <4> SUFFICES ASSUME status = "Executed"
                   PROVE  /\ r.executeAfter # 0 /\ now >= r.executeAfter
                          /\ r.approvals >= r.quorumSnapshot
        OBVIOUS
      <4>1. EffectiveStatus(r) = "Executable"
        BY <1>4, <2>2 DEF SettleStep, Latest
      <4>2. r.status # "Executable"
        BY <3>1 DEF IInv, Snapshots, LiveStatuses
      <4> QED
        BY <1>0, <4>1, <4>2 DEF EffectiveStatus, Counted
    <3> QED
      BY <1>0, <2>1, <3>1, <3>2, <3>3 DEF Counted, Warned, TerminalStatuses, LiveStatuses
  <2>3. CASE id # latestRecoveryId[w]
    BY <1>0, <1>4, <2>1, <2>3, SettleEffect
  <2> QED
    BY <2>2, <2>3
<1> QED
  BY <1>0, <1>1, <1>2, <1>3, <1>4, StepKinds

(* Requests of different wallets never share an id, so the wallet whose     *)
(* request a step touches is the only one whose latest request it changes.  *)
LEMMA LatestDiffer ==
    ASSUME IInv, NEW v \in Wallets, NEW w \in Wallets, v # w, latestRecoveryId[w] # 0
    PROVE  latestRecoveryId[v] # latestRecoveryId[w]
  BY DEF IInv, LatestIsOwn, Latest

(* Only id 0 is a latest id without a live or settled request.              *)
LEMMA LiveNonzero ==
    ASSUME IInv, NEW w \in Wallets, Latest(w).status # "None"
    PROVE  latestRecoveryId[w] # 0
  BY NumberAssumption DEF IInv, Fresh, Latest, NoRequest, RequestIds

LEMMA LatestOwnStep == IInv /\ [Next]_vars => LatestIsOwn'
<1> SUFFICES ASSUME IInv, [Next]_vars, NEW v \in Wallets, latestRecoveryId'[v] # 0
             PROVE  requests'[latestRecoveryId'[v]].wallet = v
  BY DEF LatestIsOwn, Latest
<1>0. /\ TypeOK /\ latestRecoveryId[v] \in RequestIds
      /\ requests[latestRecoveryId[v]] \in Request
      /\ latestRecoveryId[v] # 0 => requests[latestRecoveryId[v]].wallet = v
  BY DEF IInv, TypeOK, LatestIsOwn, Latest
<1>1. CASE QuietStep
  BY <1>0, <1>1 DEF QuietStep, requestVars
<1>2. ASSUME NEW w \in Wallets, NEW replaced \in DeviceKeys \cup {NoAddress},
             NEW new \in DeviceKeys, OpenStep(w, replaced, new)
      PROVE  requests'[latestRecoveryId'[v]].wallet = v
  <2>1. CASE v = w
    <3>1. /\ latestRecoveryId'[v] = nextRecoveryId
          /\ requests'[nextRecoveryId] = NewRequest(w, replaced, new)
      BY <1>0, <1>2, <2>1, OpenEffect
    <3> QED
      BY <2>1, <3>1 DEF NewRequest
  <2>2. CASE v # w
    <3>1. latestRecoveryId'[v] = latestRecoveryId[v]
      BY <1>0, <1>2, <2>2, OpenEffect
    <3>2. latestRecoveryId[v] # nextRecoveryId
      BY <1>0 DEF IInv, Issued, TypeOK, RequestIds
    <3> QED
      BY <1>0, <1>2, <3>1, <3>2, OpenEffect
  <2> QED
    BY <2>1, <2>2
<1>3. ASSUME NEW w \in Wallets, NEW caller \in Callers, ApproveRecovery(w, caller)
      PROVE  requests'[latestRecoveryId'[v]].wallet = v
  <2>1. latestRecoveryId' = latestRecoveryId
    BY <1>0, <1>3, ApproveFrame
  <2>2. CASE latestRecoveryId[v] = latestRecoveryId[w]
    <3> DEFINE r == requests[latestRecoveryId[w]]
               s == requests'[latestRecoveryId[w]]
    <3>1. s = [r EXCEPT !.status = s.status, !.approvals = s.approvals,
                        !.executeAfter = s.executeAfter]
      BY <1>0, <1>3, ApproveEffect
    <3>2. s.wallet = r.wallet
      BY <1>0, <2>2, <3>1 DEF Request
    <3> QED
      BY <1>0, <2>1, <2>2, <3>2
  <2>3. CASE latestRecoveryId[v] # latestRecoveryId[w]
    BY <1>0, <1>3, <2>1, <2>3, ApproveFrame
  <2> QED
    BY <2>2, <2>3
<1>4. ASSUME NEW w \in Wallets, NEW status \in TerminalStatuses, SettleStep(w, status)
      PROVE  requests'[latestRecoveryId'[v]].wallet = v
  <2>1. latestRecoveryId' = latestRecoveryId
    BY <1>4 DEF SettleStep
  <2>2. CASE latestRecoveryId[v] = latestRecoveryId[w]
    <3> DEFINE r == requests[latestRecoveryId[w]]
               s == requests'[latestRecoveryId[w]]
    <3>1. s = [r EXCEPT !.status = status]
      BY <1>0, <1>4, SettleEffect
    <3>2. s.wallet = r.wallet
      BY <1>0, <2>2, <3>1 DEF Request
    <3> QED
      BY <1>0, <2>1, <2>2, <3>2
  <2>3. CASE latestRecoveryId[v] # latestRecoveryId[w]
    BY <1>0, <1>4, <2>1, <2>3, SettleEffect
  <2> QED
    BY <2>2, <2>3
<1> QED
  BY <1>0, <1>1, <1>2, <1>3, <1>4, StepKinds

(* GovernanceConfigured, for one wallet.                                    *)
Configured(v) ==
    IF recoveryInitialized[v]
    THEN quorum[v] >= 1 /\ timelockSeconds[v] >= MIN_TIMELOCK
    ELSE guardians[v] = {} /\ latestRecoveryId[v] = 0

LEMMA ConfiguredStep == IInv /\ [Next]_vars => GovernanceConfigured'
<1> SUFFICES ASSUME IInv, [Next]_vars, NEW v \in Wallets PROVE Configured(v)'
  BY DEF GovernanceConfigured, Configured
<1>0. TypeOK /\ Configured(v)
  BY DEF IInv, GovernanceConfigured, Configured
<1> USE <1>0, NumberAssumption DEF Configured
<1>1. CASE UNCHANGED <<recoveryInitialized, configVars, latestRecoveryId>>
  BY <1>1 DEF configVars
<1>2. CASE Tick
  BY <1>1, <1>2 DEF Tick, walletVars, requestVars
<1>3. ASSUME NEW w \in Wallets, NEW caller \in Callers, NEW d \in DeviceKeys,
             RegisterDevice(w, caller, d) \/ RevokeDevice(w, caller, d)
      PROVE  Configured(v)'
  BY <1>1, <1>3 DEF RegisterDevice, RevokeDevice, requestVars
<1>4. ASSUME NEW w \in Wallets, NEW caller \in Callers, NEW gs \in SUBSET GuardianKeys,
             NEW q \in 1 .. Cardinality(gs), NEW s \in Timelocks,
             BootstrapRecoveryGovernance(w, caller, gs, q, s)
      PROVE  Configured(v)'
  BY <1>4 DEF BootstrapRecoveryGovernance, requestVars, TypeOK
<1>5. ASSUME NEW w \in Wallets, NEW replaced \in DeviceKeys \cup {NoAddress},
             NEW new \in DeviceKeys, OpenStep(w, replaced, new)
      PROVE  Configured(v)'
  <2>1. /\ recoveryInitialized[w]
        /\ UNCHANGED <<recoveryInitialized, configVars>>
    BY <1>5 DEF OpenStep, walletVars
  <2> QED
    BY <1>5, <2>1, OpenEffect DEF configVars
<1>6. ASSUME NEW w \in Wallets, NEW caller \in Callers, ApproveRecovery(w, caller)
      PROVE  Configured(v)'
  BY <1>1, <1>6 DEF ApproveRecovery, walletVars
<1>7. ASSUME NEW w \in Wallets, NEW caller \in Callers,
             CancelRecovery(w, caller) \/ FinalizeRecovery(w)
      PROVE  Configured(v)'
  BY <1>1, <1>7 DEF CancelRecovery, FinalizeRecovery, walletVars
<1>8. ASSUME NEW w \in Wallets, GovernanceStep(w)
      PROVE  Configured(v)'
  <2>1. ASSUME NEW g \in GuardianKeys, AddGuardian(w, g) \/ RemoveGuardian(w, g)
        PROVE  Configured(v)'
    BY <2>1 DEF AddGuardian, RemoveGuardian, walletVars, requestVars, TypeOK
  <2>2. ASSUME NEW q \in 1 .. Cardinality(GuardianKeys), SetQuorum(w, q)
        PROVE  Configured(v)'
    BY <2>2 DEF SetQuorum, walletVars, requestVars, TypeOK
  <2>3. ASSUME NEW s \in Timelocks, SetRecoveryTimelock(w, s)
        PROVE  Configured(v)'
    BY <2>3 DEF SetRecoveryTimelock, walletVars, requestVars, TypeOK
  <2> QED
    BY <1>8, <2>1, <2>2, <2>3 DEF GovernanceStep
<1>9. ASSUME NEW w \in Wallets, NEW caller \in Callers, RecoveryStep(w, caller)
      PROVE  Configured(v)'
  BY <1>5, <1>6, <1>7, <1>9 DEF RecoveryStep, InitiateRecovery, OpenStep
<1>10. CASE UNCHANGED vars
  BY <1>1, <1>10 DEF vars, walletVars, requestVars
<1>11. ASSUME NEW w \in Wallets, NEW caller \in Callers,
              ManagerStep(w, caller) \/ DeviceStep(w, caller)
       PROVE  Configured(v)'
  BY <1>3, <1>4, <1>11 DEF ManagerStep, DeviceStep
<1> QED
  BY <1>2, <1>8, <1>9, <1>10, <1>11 DEF Next

(* The lazy promotion decides when a request can be finalized, never        *)
(* whether it is live.                                                      *)
LEMMA EffectiveLive ==
    \A r : EffectiveStatus(r) \in LiveStatuses <=> r.status \in LiveStatuses
  BY DEF EffectiveStatus, LiveStatuses

LEMMA OneLiveStep == IInv /\ [Next]_vars => OneLiveRequest'
<1> SUFFICES ASSUME IInv, [Next]_vars, NEW id \in RequestIds,
                    requests'[id].status \in LiveStatuses
             PROVE  /\ id = latestRecoveryId'[requests'[id].wallet]
                    /\ recoveryInitialized'[requests'[id].wallet]
  BY DEF OneLiveRequest
<1> DEFINE r == requests[id]
           s == requests'[id]
<1>0. TypeOK /\ r \in Request
  BY DEF IInv, TypeOK
<1>1. r.status \in LiveStatuses =>
          /\ r.wallet \in Wallets
          /\ id = latestRecoveryId[r.wallet]
          /\ recoveryInitialized[r.wallet]
  BY DEF IInv, OneLiveRequest, Snapshots, LiveStatuses
<1>2. CASE QuietStep
  BY <1>1, <1>2 DEF QuietStep, requestVars
<1>3. ASSUME NEW w \in Wallets, NEW replaced \in DeviceKeys \cup {NoAddress},
             NEW new \in DeviceKeys, OpenStep(w, replaced, new)
      PROVE  id = latestRecoveryId'[s.wallet] /\ recoveryInitialized'[s.wallet]
  <2>1. recoveryInitialized[w] /\ recoveryInitialized' = recoveryInitialized
    BY <1>3 DEF OpenStep, walletVars
  <2>2. CASE id = nextRecoveryId
    <3>1. s = NewRequest(w, replaced, new) /\ latestRecoveryId'[w] = nextRecoveryId
      BY <1>0, <1>3, <2>2, OpenEffect
    <3> QED
      BY <2>1, <2>2, <3>1 DEF NewRequest
  <2>3. CASE id # nextRecoveryId
    <3>1. s = r
      BY <1>0, <1>3, <2>3, OpenEffect
    <3>2. Latest(w).status \notin LiveStatuses
      BY <1>3, EffectiveLive DEF OpenStep, HasLiveRequest
    <3>3. r.wallet # w
      BY <1>1, <3>1, <3>2 DEF Latest
    <3> QED
      BY <1>0, <1>1, <1>3, <2>1, <3>1, <3>3, OpenEffect
  <2> QED
    BY <2>2, <2>3
<1>4. ASSUME NEW w \in Wallets, NEW caller \in Callers, ApproveRecovery(w, caller)
      PROVE  id = latestRecoveryId'[s.wallet] /\ recoveryInitialized'[s.wallet]
  <2>1. /\ latestRecoveryId' = latestRecoveryId
        /\ recoveryInitialized' = recoveryInitialized
    BY <1>4 DEF ApproveRecovery, walletVars
  <2>2. s.wallet = r.wallet /\ r.status \in LiveStatuses
    <3>1. CASE id = latestRecoveryId[w]
      <4>1. /\ r.status = "Pending"
            /\ s = [r EXCEPT !.status = s.status, !.approvals = s.approvals,
                             !.executeAfter = s.executeAfter]
        BY <1>0, <1>4, <3>1, ApproveEffect
      <4> QED
        BY <1>0, <4>1 DEF Request, LiveStatuses
    <3>2. CASE id # latestRecoveryId[w]
      BY <1>0, <1>4, <3>2, ApproveFrame
    <3> QED
      BY <3>1, <3>2
  <2> QED
    BY <1>1, <2>1, <2>2
<1>5. ASSUME NEW w \in Wallets, NEW status \in TerminalStatuses, SettleStep(w, status)
      PROVE  id = latestRecoveryId'[s.wallet] /\ recoveryInitialized'[s.wallet]
  <2>1. id # latestRecoveryId[w]
    BY <1>0, <1>5, SettleEffect DEF LiveStatuses, TerminalStatuses
  <2>2. s = r
    BY <1>0, <1>5, <2>1, SettleEffect
  <2> QED
    BY <1>1, <1>5, <2>2 DEF SettleStep
<1> QED
  BY <1>0, <1>2, <1>3, <1>4, <1>5, StepKinds

LEMMA NewDeviceStep == IInv /\ [Next]_vars => NewDeviceStillNew'
<1> SUFFICES ASSUME IInv, [Next]_vars, NEW v \in Wallets,
                    requests'[latestRecoveryId'[v]].status \in LiveStatuses
             PROVE  requests'[latestRecoveryId'[v]].newDevice \notin devices'[v]
  BY DEF NewDeviceStillNew, HasLiveRequest, EffectiveStatus, Latest, LiveStatuses
<1> DEFINE id == latestRecoveryId[v]
           r == requests[id]
<1>0. TypeOK /\ id \in RequestIds /\ r \in Request
  BY DEF IInv, TypeOK
<1>1. r.status \in LiveStatuses => id # 0 /\ r.newDevice \notin devices[v]
  BY EffectiveLive, LiveNonzero
     DEF IInv, NewDeviceStillNew, HasLiveRequest, Latest, LiveStatuses
<1>2. CASE QuietStep
  <2>1. latestRecoveryId' = latestRecoveryId /\ requests' = requests
    BY <1>2 DEF QuietStep, requestVars
  <2>2. recoveryInitialized[v]
    BY <1>1, <2>1 DEF IInv, GovernanceConfigured
  <2> QED
    BY <1>1, <1>2, <2>1, <2>2 DEF QuietStep
<1>3. ASSUME NEW w \in Wallets, NEW replaced \in DeviceKeys \cup {NoAddress},
             NEW new \in DeviceKeys, OpenStep(w, replaced, new)
      PROVE  requests'[latestRecoveryId'[v]].newDevice \notin devices'[v]
  <2>1. devices' = devices /\ new \notin devices[w]
    BY <1>3 DEF OpenStep, ReplacementValid, walletVars
  <2>2. CASE v = w
    <3>1. /\ latestRecoveryId'[v] = nextRecoveryId
          /\ requests'[nextRecoveryId] = NewRequest(w, replaced, new)
      BY <1>0, <1>3, <2>2, OpenEffect
    <3> QED
      BY <2>1, <2>2, <3>1 DEF NewRequest
  <2>3. CASE v # w
    <3>1. latestRecoveryId'[v] = id
      BY <1>0, <1>3, <2>3, OpenEffect
    <3>2. id # nextRecoveryId
      BY <1>0 DEF IInv, Issued, TypeOK, RequestIds
    <3>3. requests'[id] = r
      BY <1>0, <1>3, <3>2, OpenEffect
    <3> QED
      BY <1>1, <2>1, <3>1, <3>3
  <2> QED
    BY <2>2, <2>3
<1>4. ASSUME NEW w \in Wallets, NEW caller \in Callers, ApproveRecovery(w, caller)
      PROVE  requests'[latestRecoveryId'[v]].newDevice \notin devices'[v]
  <2>1. latestRecoveryId' = latestRecoveryId /\ devices' = devices
    BY <1>4 DEF ApproveRecovery, walletVars
  <2>2. r.status \in LiveStatuses /\ requests'[id].newDevice = r.newDevice
    <3>1. CASE id = latestRecoveryId[w]
      <4> DEFINE s == requests'[id]
      <4>1. /\ r.status = "Pending"
            /\ s = [r EXCEPT !.status = s.status, !.approvals = s.approvals,
                             !.executeAfter = s.executeAfter]
        BY <1>0, <1>4, <3>1, ApproveEffect
      <4> QED
        BY <1>0, <4>1 DEF Request, LiveStatuses
    <3>2. CASE id # latestRecoveryId[w]
      BY <1>0, <1>4, <2>1, <3>2, ApproveFrame
    <3> QED
      BY <3>1, <3>2
  <2> QED
    BY <1>1, <2>1, <2>2
<1>5. ASSUME NEW w \in Wallets, NEW status \in TerminalStatuses, SettleStep(w, status)
      PROVE  requests'[latestRecoveryId'[v]].newDevice \notin devices'[v]
  <2>1. latestRecoveryId' = latestRecoveryId
    BY <1>5 DEF SettleStep
  <2>2. id # latestRecoveryId[w]
    BY <1>0, <1>5, <2>1, SettleEffect DEF LiveStatuses, TerminalStatuses
  <2>3. requests'[id] = r /\ devices'[v] = devices[v]
    BY <1>0, <1>5, <2>2, SettleEffect DEF SettleStep
  <2> QED
    BY <1>1, <2>1, <2>3
<1> QED
  BY <1>0, <1>2, <1>3, <1>4, <1>5, StepKinds

(* The counter moves with the set it counts, in every mix of operations.    *)
LEMMA DeviceSetStep == IInv /\ [Next]_vars => DeviceSetSound'
<1> SUFFICES ASSUME IInv, [Next]_vars, NEW v \in Wallets
             PROVE  devices'[v] # {} /\ deviceCount'[v] = Cardinality(devices'[v])
  BY DEF DeviceSetSound
<1>0. /\ TypeOK
      /\ devices[v] \subseteq DeviceKeys
      /\ deviceCount[v] \in Nat
      /\ deviceCount[v] = Cardinality(devices[v])
      /\ IsFiniteSet(devices[v])
      /\ NoAddress \notin devices[v]
  BY AddressAssumption, FS_Subset DEF IInv, TypeOK, DeviceSetSound
<1> SUFFICES deviceCount'[v] = Cardinality(devices'[v])
  <2>1. deviceCount'[v] >= 1
    BY TypeStep DEF IInv, CountPositive
  <2> QED
    BY <2>1, FS_EmptySet
<1>1. CASE UNCHANGED <<devices, deviceCount>>
  BY <1>0, <1>1
<1>2. ASSUME NEW w \in Wallets, NEW caller \in Callers, NEW d \in DeviceKeys,
             RegisterDevice(w, caller, d)
      PROVE  deviceCount'[v] = Cardinality(devices'[v])
  <2>1. CASE v = w
    <3>1. devices'[v] = devices[v] \cup {d} /\ d \notin devices[v]
      BY <1>0, <1>2, <2>1 DEF RegisterDevice, TypeOK
    <3>2. deviceCount'[v] = deviceCount[v] + 1
      BY <1>0, <1>2, <2>1 DEF RegisterDevice, TypeOK
    <3> QED
      BY <1>0, <3>1, <3>2, FS_AddElement
  <2>2. CASE v # w
    BY <1>0, <1>2, <2>2 DEF RegisterDevice, TypeOK
  <2> QED
    BY <2>1, <2>2
<1>3. ASSUME NEW w \in Wallets, NEW caller \in Callers, NEW d \in DeviceKeys,
             RevokeDevice(w, caller, d)
      PROVE  deviceCount'[v] = Cardinality(devices'[v])
  <2>1. CASE v = w
    <3>1. devices'[v] = devices[v] \ {d} /\ d \in devices[v]
      BY <1>0, <1>3, <2>1 DEF RevokeDevice, TypeOK
    <3>2. deviceCount'[v] = deviceCount[v] - 1
      BY <1>0, <1>3, <2>1 DEF RevokeDevice, TypeOK
    <3> QED
      BY <1>0, <3>1, <3>2, FS_RemoveElement
  <2>2. CASE v # w
    BY <1>0, <1>3, <2>2 DEF RevokeDevice, TypeOK
  <2> QED
    BY <2>1, <2>2
<1>4. ASSUME NEW w \in Wallets, FinalizeRecovery(w)
      PROVE  deviceCount'[v] = Cardinality(devices'[v])
  <2> DEFINE r == requests[latestRecoveryId[w]]
             new == r.newDevice
             replaced == r.replacedDevice
  <2>1. ApplyRecoveredDevice(w, replaced, new)
    BY <1>4 DEF FinalizeRecovery
  <2> HIDE DEF new, replaced
  <2>2. CASE v # w
    BY <1>0, <2>1, <2>2 DEF ApplyRecoveredDevice, TypeOK
  <2>3. CASE v = w
    <3>1. /\ devices'[v] = (devices[v] \cup {new}) \ {replaced}
          /\ new \notin devices[v]
          /\ new # NoAddress
          /\ replaced # NoAddress => replaced \in devices[v]
          /\ deviceCount'[v] = IF replaced = NoAddress THEN deviceCount[v] + 1 ELSE deviceCount[v]
      BY <1>0, <2>1, <2>3 DEF ApplyRecoveredDevice, TypeOK
    <3>2. /\ IsFiniteSet(devices[v] \cup {new})
          /\ Cardinality(devices[v] \cup {new}) = deviceCount[v] + 1
      <4>1. IsFiniteSet(devices[v]) /\ deviceCount[v] = Cardinality(devices[v])
        BY <1>0
      <4>2. new \notin devices[v]
        BY <3>1
      <4>3. /\ IsFiniteSet(devices[v] \cup {new})
            /\ Cardinality(devices[v] \cup {new}) = Cardinality(devices[v]) + 1
        BY <4>1, <4>2, FS_AddElement
      <4> QED
        BY <4>1, <4>3
    <3>3. CASE replaced = NoAddress
      <4>1. devices'[v] = devices[v] \cup {new}
        BY <1>0, <3>1, <3>3
      <4> QED
        BY <3>1, <3>2, <3>3, <4>1
    <3>4. CASE replaced # NoAddress
      <4>1. replaced \in devices[v] \cup {new}
        BY <3>1, <3>4
      <4>2. Cardinality((devices[v] \cup {new}) \ {replaced})
                = Cardinality(devices[v] \cup {new}) - 1
        BY <3>2, <4>1, FS_RemoveElement
      <4>3. Cardinality(devices'[v]) = deviceCount[v]
        BY <1>0, <3>1, <3>2, <4>2
      <4> QED
        BY <3>1, <3>4, <4>3
    <3> QED
      BY <3>3, <3>4
  <2> QED
    BY <2>2, <2>3
<1>5. CASE UNCHANGED vars \/ Tick
  BY <1>1, <1>5 DEF vars, walletVars, Tick
<1>6. ASSUME NEW w \in Wallets, NEW caller \in Callers,
             ManagerStep(w, caller) \/ DeviceStep(w, caller)
      PROVE  deviceCount'[v] = Cardinality(devices'[v])
  BY <1>1, <1>2, <1>3, <1>6 DEF ManagerStep, DeviceStep, BootstrapRecoveryGovernance
<1>7. ASSUME NEW w \in Wallets, NEW caller \in Callers, RecoveryStep(w, caller)
      PROVE  deviceCount'[v] = Cardinality(devices'[v])
  BY <1>1, <1>4, <1>7
     DEF RecoveryStep, InitiateRecovery, ApproveRecovery, CancelRecovery, walletVars
<1>8. ASSUME NEW w \in Wallets, GovernanceStep(w)
      PROVE  deviceCount'[v] = Cardinality(devices'[v])
  BY <1>1, <1>8 DEF GovernanceStep, AddGuardian, RemoveGuardian, SetQuorum,
                    SetRecoveryTimelock, walletVars
<1> QED
  BY <1>5, <1>6, <1>7, <1>8 DEF Next

LEMMA InvInit == Init => IInv
<1> SUFFICES ASSUME Init PROVE IInv
  OBVIOUS
<1> USE NumberAssumption
<1>1. TypeOK /\ CountPositive
  BY TypeInit
<1>2. DeviceSetSound
  <2> SUFFICES ASSUME NEW w \in Wallets
               PROVE  devices[w] # {} /\ deviceCount[w] = Cardinality(devices[w])
    BY DEF DeviceSetSound
  <2>1. PICK d \in DeviceKeys : devices[w] = {d}
    BY DEF Init
  <2> QED
    BY <2>1, FS_Singleton DEF Init
<1>3. GovernanceConfigured /\ Fresh /\ Issued /\ LatestIsOwn
  BY DEF Init, GovernanceConfigured, Fresh, Issued, LatestIsOwn
<1>4. \A id \in RequestIds : requests[id] = NoRequest /\ approved[id] = {}
  BY DEF Init
<1>5. Snapshots /\ QuorumCounted /\ WarningWindow /\ OneLiveRequest
  BY <1>4, FS_EmptySet
     DEF Snapshots, QuorumCounted, WarningWindow, OneLiveRequest, NoRequest, LiveStatuses
<1>6. NewDeviceStillNew
  BY <1>1, <1>4, EffectiveLive
     DEF NewDeviceStillNew, HasLiveRequest, Latest, NoRequest, LiveStatuses, TypeOK
<1> QED
  BY <1>1, <1>2, <1>3, <1>5, <1>6 DEF IInv

LEMMA InvStep == IInv /\ [Next]_vars => IInv'
<1> SUFFICES ASSUME IInv, [Next]_vars PROVE IInv'
  OBVIOUS
<1>1. TypeOK' /\ CountPositive'
  BY TypeStep DEF IInv
<1>2. DeviceSetSound' /\ GovernanceConfigured'
  BY DeviceSetStep, ConfiguredStep
<1>3. Fresh' /\ Issued' /\ Snapshots'
  BY FreshStep, SnapshotsStep
<1>4. QuorumCounted' /\ WarningWindow'
  BY CountedStep
<1>5. LatestIsOwn' /\ OneLiveRequest' /\ NewDeviceStillNew'
  BY LatestOwnStep, OneLiveStep, NewDeviceStep
<1> QED
  BY <1>1, <1>2, <1>3, <1>4, <1>5 DEF IInv

LEMMA Invariance == Spec => []IInv
  BY InvInit, InvStep, PTL DEF Spec

(* No wallet ever loses its last device, and the counter the last-device    *)
(* check reads is the size of the set.                                      *)
THEOREM DeviceSetCorrect == Spec => []DeviceSetSound
<1>1. IInv => DeviceSetSound
  BY DEF IInv
<1> QED
  BY <1>1, Invariance, PTL

(* A bootstrapped wallet is never without a quorum and a minimum timelock.  *)
THEOREM ConfigurationCorrect == Spec => []GovernanceConfigured
<1>1. IInv => GovernanceConfigured
  BY DEF IInv
<1> QED
  BY <1>1, Invariance, PTL

(* Approvals are counted exactly, and a deadline is armed exactly by the    *)
(* approval that completes the snapshotted quorum.                          *)
THEOREM QuorumCorrect == Spec => []QuorumCounted
<1>1. IInv => QuorumCounted
  BY DEF IInv
<1> QED
  BY <1>1, Invariance, PTL

(* No recovery is executed before its public warning window has passed.     *)
THEOREM WarningWindowKept == Spec => []WarningWindow
<1>1. IInv => WarningWindow
  BY DEF IInv
<1> QED
  BY <1>1, Invariance, PTL

(* A wallet's latest id names a request of its own, in whatever order the   *)
(* wallets drew ids from the global counter.                                *)
THEOREM RequestsSeparate == Spec => []LatestIsOwn
<1>1. IInv => LatestIsOwn
  BY DEF IInv
<1> QED
  BY <1>1, Invariance, PTL

(* A wallet has at most one live request, the one its latest id names.      *)
THEOREM OneRequestLive == Spec => []OneLiveRequest
<1>1. IInv => OneLiveRequest
  BY DEF IInv
<1> QED
  BY <1>1, Invariance, PTL

(* Nothing else can authorize the device a live request is about to add.    *)
THEOREM FinalizationUnblocked == Spec => []NewDeviceStillNew
<1>1. IInv => NewDeviceStillNew
  BY DEF IInv
<1> QED
  BY <1>1, Invariance, PTL

----------------------------------------------------------------------------
(* What a step may never do *)

LEMMA ApprovalOwnedStep == IInv /\ [Next]_vars => ApprovalOwned
<1> SUFFICES ASSUME IInv, [Next]_vars, NEW id \in RequestIds, approved'[id] # approved[id]
             PROVE  /\ requests[id].status = "Pending"
                    /\ \E g \in guardians[requests[id].wallet] \ approved[id] :
                           approved'[id] = approved[id] \cup {g}
  BY DEF ApprovalOwned
<1>0. TypeOK
  BY DEF IInv
<1>1. PICK w \in Wallets, caller \in Callers : ApproveRecovery(w, caller)
  BY <1>0, StepKinds DEF QuietStep, requestVars, OpenStep, SettleStep
<1>2. id = latestRecoveryId[w]
  BY <1>0, <1>1, ApproveFrame
<1>3. /\ requests[id].status = "Pending"
      /\ caller \in guardians[w] \ approved[id]
      /\ approved'[id] = approved[id] \cup {caller}
  BY <1>0, <1>1, <1>2, ApproveEffect
<1>4. requests[id].wallet = w
  BY <1>2, <1>3, LiveNonzero DEF IInv, LatestIsOwn, Latest
<1> QED
  BY <1>3, <1>4

(* Approvals come from active guardians of the request's own wallet only.   *)
THEOREM ApprovalsOwn == Spec => OwnGuardiansApprove
<1>1. IInv /\ [Next]_vars => [ApprovalOwned]_vars
  BY ApprovalOwnedStep
<1> QED
  BY <1>1, Invariance, PTL DEF Spec, OwnGuardiansApprove

LEMMA HistoryKeptStep == IInv /\ [Next]_vars => HistoryKept
<1> SUFFICES ASSUME IInv, [Next]_vars, NEW id \in RequestIds, requests[id].status # "None"
             PROVE  LET r == requests[id]
                        s == requests'[id]
                    IN  /\ s = [r EXCEPT !.status = s.status, !.approvals = s.approvals,
                                         !.executeAfter = s.executeAfter]
                        /\ r.executeAfter # 0 => s.executeAfter = r.executeAfter
                        /\ r.status \in TerminalStatuses =>
                              s = r /\ approved'[id] = approved[id]
  BY DEF HistoryKept
<1> DEFINE r == requests[id]
           s == requests'[id]
<1>0. TypeOK /\ r \in Request
  BY DEF IInv, TypeOK
<1> SUFFICES /\ s = [r EXCEPT !.status = s.status, !.approvals = s.approvals,
                              !.executeAfter = s.executeAfter]
             /\ r.executeAfter # 0 => s.executeAfter = r.executeAfter
             /\ r.status \in TerminalStatuses => s = r /\ approved'[id] = approved[id]
  OBVIOUS
<1>1. s = r => s = [r EXCEPT !.status = s.status, !.approvals = s.approvals,
                            !.executeAfter = s.executeAfter]
  BY <1>0 DEF Request
<1>2. CASE QuietStep
  BY <1>1, <1>2 DEF QuietStep, requestVars
<1>3. ASSUME NEW w \in Wallets, NEW replaced \in DeviceKeys \cup {NoAddress},
             NEW new \in DeviceKeys, OpenStep(w, replaced, new)
      PROVE  s = r /\ approved' = approved
  <2>1. id # nextRecoveryId
    BY <1>0 DEF IInv, Fresh, NoRequest, TypeOK
  <2> QED
    BY <1>0, <1>3, <2>1, OpenEffect DEF OpenStep
<1>4. ASSUME NEW w \in Wallets, NEW caller \in Callers, ApproveRecovery(w, caller)
      PROVE  /\ s = [r EXCEPT !.status = s.status, !.approvals = s.approvals,
                              !.executeAfter = s.executeAfter]
             /\ r.executeAfter # 0 => s.executeAfter = r.executeAfter
             /\ r.status \in TerminalStatuses => s = r /\ approved'[id] = approved[id]
  <2>1. CASE id = latestRecoveryId[w]
    <3>1. /\ r.status = "Pending"
          /\ s = [r EXCEPT !.status = s.status, !.approvals = s.approvals,
                           !.executeAfter = s.executeAfter]
      BY <1>0, <1>4, <2>1, ApproveEffect
    <3>2. r.executeAfter = 0
      BY <1>0, <3>1, PerRequest DEF IInv, Counted, Request
    <3> QED
      BY <3>1, <3>2 DEF TerminalStatuses
  <2>2. CASE id # latestRecoveryId[w]
    BY <1>0, <1>1, <1>4, <2>2, ApproveFrame
  <2> QED
    BY <2>1, <2>2
<1>5. ASSUME NEW w \in Wallets, NEW status \in TerminalStatuses, SettleStep(w, status)
      PROVE  /\ s = [r EXCEPT !.status = s.status, !.approvals = s.approvals,
                              !.executeAfter = s.executeAfter]
             /\ r.executeAfter # 0 => s.executeAfter = r.executeAfter
             /\ r.status \in TerminalStatuses => s = r /\ approved'[id] = approved[id]
  <2>1. approved' = approved
    BY <1>5 DEF SettleStep
  <2>2. CASE id = latestRecoveryId[w]
    <3>1. r.status \in LiveStatuses /\ s = [r EXCEPT !.status = status]
      BY <1>0, <1>5, <2>2, SettleEffect
    <3>2. /\ s = [r EXCEPT !.status = s.status, !.approvals = s.approvals,
                           !.executeAfter = s.executeAfter]
          /\ s.executeAfter = r.executeAfter
      BY <1>0, <3>1 DEF Request
    <3> QED
      BY <3>1, <3>2 DEF LiveStatuses, TerminalStatuses
  <2>3. CASE id # latestRecoveryId[w]
    BY <1>0, <1>1, <1>5, <2>1, <2>3, SettleEffect
  <2> QED
    BY <2>2, <2>3
<1> QED
  BY <1>0, <1>1, <1>2, <1>3, <1>4, <1>5, StepKinds

(* The record of a recovery is never rewritten.                             *)
THEOREM HistoryCorrect == Spec => HistoryFixed
<1>1. IInv /\ [Next]_vars => [HistoryKept]_vars
  BY HistoryKeptStep
<1> QED
  BY <1>1, Invariance, PTL DEF Spec, HistoryFixed

LEMMA DeviceChangeStep == IInv /\ [Next]_vars => DeviceChangeEarned
<1> SUFFICES ASSUME IInv, [Next]_vars, NEW w \in Wallets, recoveryInitialized[w]
             PROVE  /\ recoveryInitialized'[w]
                    /\ devices'[w] # devices[w] =>
                       LET id == latestRecoveryId[w]
                           r == requests[id]
                       IN  \/ /\ \E d \in devices[w] : devices'[w] = devices[w] \ {d}
                              /\ UNCHANGED requests
                           \/ /\ Cardinality(approved[id]) >= r.quorumSnapshot
                              /\ now >= r.executeAfter
                              /\ now >= r.initiatedAt + MIN_TIMELOCK
                              /\ r.status \in LiveStatuses
                              /\ requests'[id].status = "Executed"
                              /\ devices'[w] = (devices[w] \ {r.replacedDevice})
                                                  \cup {r.newDevice}
  BY DEF DeviceChangeEarned
<1> DEFINE id == latestRecoveryId[w]
           r == requests[id]
           Earned == /\ Cardinality(approved[id]) >= r.quorumSnapshot
                     /\ now >= r.executeAfter
                     /\ now >= r.initiatedAt + MIN_TIMELOCK
                     /\ r.status \in LiveStatuses
                     /\ requests'[id].status = "Executed"
                     /\ devices'[w] = (devices[w] \ {r.replacedDevice}) \cup {r.newDevice}
           Left == /\ \E d \in devices[w] : devices'[w] = devices[w] \ {d}
                   /\ UNCHANGED requests
<1>0. TypeOK /\ id \in RequestIds /\ r \in Request
  BY DEF IInv, TypeOK
<1>1. recoveryInitialized'[w]
  BY <1>0, StepKinds DEF QuietStep, OpenStep, ApproveRecovery, SettleStep, walletVars
<1>2. ASSUME NEW v \in Wallets, NEW caller \in Callers, NEW d \in DeviceKeys,
             RegisterDevice(v, caller, d)
      PROVE  devices'[w] = devices[w]
  BY <1>0, <1>2 DEF RegisterDevice, TypeOK
<1>3. ASSUME NEW v \in Wallets, NEW caller \in Callers, NEW d \in DeviceKeys,
             RevokeDevice(v, caller, d), devices'[w] # devices[w]
      PROVE  Left
  BY <1>0, <1>3 DEF RevokeDevice, TypeOK, requestVars
<1>4. ASSUME NEW v \in Wallets, FinalizeRecovery(v), devices'[w] # devices[w]
      PROVE  Earned
  <2>1. v = w
    BY <1>0, <1>4 DEF FinalizeRecovery, ApplyRecoveredDevice, TypeOK
  <2>2. EffectiveStatus(r) = "Executable" /\ requests'[id].status = "Executed"
    BY <1>0, <1>4, <2>1 DEF FinalizeRecovery, TypeOK
  <2>3. r.status \in LiveStatuses /\ r.status # "Executable"
    BY <1>0, <2>2 DEF EffectiveStatus, LiveStatuses, IInv, Snapshots
  <2>4. r.status = "QuorumReached" /\ now >= r.executeAfter
    BY <2>2, <2>3 DEF EffectiveStatus
  <2>5. Counted(r, approved[id]) /\ Warned(r, now)
    BY <1>0, PerRequest DEF IInv
  <2>6. Cardinality(approved[id]) >= r.quorumSnapshot /\ r.executeAfter # 0
    BY <2>4, <2>5 DEF Counted
  <2>7. now >= r.initiatedAt + MIN_TIMELOCK
    <3>1. r.executeAfter >= r.initiatedAt + MIN_TIMELOCK
      BY <2>5, <2>6 DEF Warned
    <3> QED
      BY <1>0, <2>4, <3>1, NumberAssumption DEF TypeOK, Request
  <2>8. devices'[w] = (devices[w] \ {r.replacedDevice}) \cup {r.newDevice}
    BY <1>0, <1>4, <2>1 DEF FinalizeRecovery, ApplyRecoveredDevice, TypeOK
  <2> QED
    BY <2>2, <2>3, <2>4, <2>6, <2>7, <2>8
<1>5. CASE UNCHANGED devices
  BY <1>1, <1>5
<1>6. ASSUME NEW v \in Wallets, NEW caller \in Callers,
             ManagerStep(v, caller) \/ DeviceStep(v, caller) \/ RecoveryStep(v, caller),
             devices'[w] # devices[w]
      PROVE  Left \/ Earned
  <2>1. \/ \E d \in DeviceKeys : RegisterDevice(v, caller, d) \/ RevokeDevice(v, caller, d)
        \/ FinalizeRecovery(v)
        \/ UNCHANGED devices
    BY <1>6 DEF ManagerStep, DeviceStep, RecoveryStep, BootstrapRecoveryGovernance,
                InitiateRecovery, ApproveRecovery, CancelRecovery, walletVars
  <2> QED
    BY <1>2, <1>3, <1>4, <1>6, <2>1
<1>7. ASSUME NEW v \in Wallets, GovernanceStep(v)
      PROVE  UNCHANGED devices
  BY <1>7 DEF GovernanceStep, AddGuardian, RemoveGuardian, SetQuorum,
              SetRecoveryTimelock, walletVars
<1>8. UNCHANGED vars \/ Tick => UNCHANGED devices
  BY DEF vars, walletVars, Tick
<1>9. devices'[w] # devices[w] => Left \/ Earned
  <2> HIDE DEF Left, Earned
  <2> QED
    BY <1>6, <1>7, <1>8 DEF Next
<1> QED
  BY <1>1, <1>9

(* After bootstrap only a device itself, or an earned recovery, changes the *)
(* device set; the manager's authority never comes back.                    *)
THEOREM DevicesProvenanced == Spec => DeviceSetProvenance
<1>1. IInv /\ [Next]_vars => [DeviceChangeEarned]_vars
  BY DeviceChangeStep
<1> QED
  BY <1>1, Invariance, PTL DEF Spec, DeviceSetProvenance

----------------------------------------------------------------------------
(* The reference state machine *)

requestBar == [id \in RequestIds |-> RequestView(id)]

----------------------------------------------------------------------------
(* A fact the reference needs of its caller's configuration *)

(* The timelock a bootstrapped wallet snapshots is one somebody asked for. *)
TimelockChosen ==
    \A w \in Wallets : recoveryInitialized[w] => timelockSeconds[w] \in Timelocks

LEMMA TimelockStep == TypeOK /\ TimelockChosen /\ [Next]_vars => TimelockChosen'
<1> SUFFICES ASSUME TypeOK, TimelockChosen, [Next]_vars PROVE TimelockChosen'
  OBVIOUS
<1>1. CASE UNCHANGED <<recoveryInitialized, timelockSeconds>>
  BY <1>1 DEF TimelockChosen
<1>2. ASSUME NEW w \in Wallets, NEW caller \in Callers, NEW gs \in SUBSET GuardianKeys,
             NEW q \in 1 .. Cardinality(gs), NEW s \in Timelocks,
             BootstrapRecoveryGovernance(w, caller, gs, q, s)
      PROVE  TimelockChosen'
  BY <1>2 DEF TypeOK, TimelockChosen, BootstrapRecoveryGovernance
<1>3. ASSUME NEW w \in Wallets, NEW s \in Timelocks, SetRecoveryTimelock(w, s)
      PROVE  TimelockChosen'
  BY <1>3 DEF TypeOK, TimelockChosen, SetRecoveryTimelock, walletVars
<1>4. ASSUME NEW w \in Wallets, NEW caller \in Callers,
             ManagerStep(w, caller) \/ DeviceStep(w, caller) \/ RecoveryStep(w, caller)
      PROVE  TimelockChosen'
  BY <1>1, <1>2, <1>4
     DEF ManagerStep, DeviceStep, RecoveryStep, RegisterDevice, RevokeDevice,
         InitiateRecovery, ApproveRecovery, CancelRecovery, FinalizeRecovery,
         walletVars, configVars
<1>5. ASSUME NEW w \in Wallets, GovernanceStep(w) PROVE TimelockChosen'
  BY <1>1, <1>3, <1>5
     DEF GovernanceStep, AddGuardian, RemoveGuardian, SetQuorum, walletVars
<1> QED
  BY <1>1, <1>4, <1>5 DEF Next, Tick, vars, walletVars, configVars

LEMMA TimelockInvariance == Spec => []TimelockChosen
<1>1. Init => TimelockChosen
  BY DEF Init, TimelockChosen
<1>2. IInv => TypeOK
  BY DEF IInv
<1> QED
  BY <1>1, <1>2, TimelockStep, Invariance, PTL DEF Spec

(* Only the passing of time changes the time. *)
LEMMA ClockFrame == [Next]_vars => Tick \/ UNCHANGED now
<1> SUFFICES ASSUME [Next]_vars, ~Tick PROVE UNCHANGED now
  OBVIOUS
<1>1. ASSUME NEW w \in Wallets, NEW caller \in Callers,
             ManagerStep(w, caller) \/ DeviceStep(w, caller) \/ RecoveryStep(w, caller)
      PROVE  UNCHANGED now
  BY <1>1 DEF ManagerStep, DeviceStep, RecoveryStep, RegisterDevice,
              BootstrapRecoveryGovernance, RevokeDevice, InitiateRecovery,
              ApproveRecovery, CancelRecovery, FinalizeRecovery
<1>2. ASSUME NEW w \in Wallets, GovernanceStep(w) PROVE UNCHANGED now
  BY <1>2 DEF GovernanceStep, AddGuardian, RemoveGuardian, SetQuorum, SetRecoveryTimelock
<1> QED
  BY <1>1, <1>2 DEF Next, vars

(* The reference counts as the contract does.                              *)
LEMMA SameCardinality == \A S : Reference!Cardinality(S) = Cardinality(S)
  BY DEF Reference!Cardinality, Cardinality

(* What the wallets' guardian count lets the reference's caller pass.      *)
LEMMA QuorumPassed ==
    ASSUME TypeOK, NEW w \in Wallets
    PROVE  GuardianCount(w) \in 0 .. Cardinality(GuardianKeys)
<1>1. guardians[w] \subseteq GuardianKeys
  BY DEF TypeOK
<1> QED
  BY <1>1, AddressAssumption, FS_Subset, FS_CardinalityType DEF GuardianCount

----------------------------------------------------------------------------
(* Each kind of step is a step of the reference *)

LEMMA ReferenceInit == Init => Reference!LifecycleInit
<1> SUFFICES ASSUME Init PROVE Reference!LifecycleInit
  OBVIOUS
<1>1. \A id \in RequestIds : RequestView(id) = Reference!None
  BY DEF Init, RequestView, NoRequest, Reference!None
<1> QED
  BY <1>1 DEF Init, Reference!LifecycleInit

(* A step that rewrites one request rewrites one of the reference's.       *)
LEMMA ViewUpdate ==
    ASSUME NEW id \in RequestIds, NEW view, RequestView(id)' = view,
           \A j \in RequestIds :
               j # id => requests'[j] = requests[j] /\ approved'[j] = approved[j]
    PROVE  requestBar' = [requestBar EXCEPT ![id] = view]
<1>1. \A j \in RequestIds : j # id => RequestView(j)' = RequestView(j)
  BY DEF RequestView
<1> QED
  BY <1>1 DEF requestBar

LEMMA QuietRefines ==
    ASSUME TypeOK, [Next]_vars, QuietStep
    PROVE  Reference!Advance \/ UNCHANGED <<now, requestBar>>
<1>1. UNCHANGED requestBar
  BY DEF QuietStep, requestVars, requestBar, RequestView
<1>2. CASE Tick
  BY <1>1, <1>2 DEF Tick, Reference!Advance, requestBar
<1>3. CASE UNCHANGED now
  BY <1>1, <1>3
<1> QED
  BY <1>2, <1>3, ClockFrame

LEMMA OpenRefines ==
    ASSUME IInv, TimelockChosen, NEW w \in Wallets,
           NEW replaced \in DeviceKeys \cup {NoAddress}, NEW new \in DeviceKeys,
           NEW id, id = nextRecoveryId, OpenStep(w, replaced, new)
    PROVE  Reference!LifecycleNext
<1> DEFINE n == GuardianCount(w)
           q == quorum[w]
           seconds == timelockSeconds[w]
<1>1. TypeOK /\ recoveryInitialized[w]
  BY DEF IInv, OpenStep
<1>2. /\ id \in RequestIds
      /\ requests'[id] = NewRequest(w, replaced, new)
      /\ \A j \in RequestIds : j # id => requests'[j] = requests[j]
  BY <1>1, OpenEffect
<1>3. now' = now /\ approved' = approved
  BY DEF OpenStep
<1>4. requests[id] = NoRequest /\ approved[id] = {}
  <2>1. requests[id] = NoRequest
    BY <1>1, <1>2, NumberAssumption DEF IInv, Fresh, TypeOK
  <2>2. Cardinality(approved[id]) = 0 /\ IsFiniteSet(approved[id])
    <3>1. approved[id] \subseteq GuardianKeys
      BY <1>1, <1>2 DEF TypeOK
    <3> QED
      BY <1>2, <2>1, <3>1, AddressAssumption, FS_Subset DEF IInv, QuorumCounted, NoRequest
  <2> QED
    BY <2>1, <2>2, FS_EmptySet
<1>5. n \in 0 .. Cardinality(GuardianKeys) /\ q \in 1 .. n
  <2>1. q >= 1 /\ q \in Nat /\ q <= n
    BY <1>1 DEF IInv, GovernanceConfigured, TypeOK, OpenStep
  <2> QED
    BY <1>1, <2>1, QuorumPassed, FS_CardinalityType, AddressAssumption
<1>6. seconds \in Timelocks /\ seconds >= MIN_TIMELOCK
  BY <1>1 DEF IInv, GovernanceConfigured, TimelockChosen
<1>7. requestBar[id] = Reference!None
  BY <1>2, <1>4 DEF requestBar, RequestView, NoRequest, Reference!None
<1>8. RequestView(id)' =
          [replacedDevice |-> replaced, newDevice |-> new,
           initiatedAt |-> now, executeAfter |-> 0, quorumSnapshot |-> q,
           timelockSnapshot |-> seconds, approvals |-> {}, status |-> "Pending"]
  BY <1>2, <1>3, <1>4 DEF RequestView, NewRequest
<1>9. new # NoAddress /\ new # replaced
  BY DEF OpenStep, ReplacementValid
<1>10. Reference!Initiate(id, replaced, new, n, q, seconds)
  BY <1>2, <1>3, <1>5, <1>6, <1>7, <1>8, <1>9, ViewUpdate
     DEF Reference!Initiate, requestBar
<1> QED
  BY <1>2, <1>5, <1>6, <1>10, SameCardinality DEF Reference!LifecycleNext

LEMMA ApproveRefines ==
    ASSUME IInv, NEW w \in Wallets, NEW caller \in Callers, ApproveRecovery(w, caller),
           NEW id, id = latestRecoveryId[w]
    PROVE  Reference!LifecycleNext
<1> DEFINE r == requests[id]
           s == requests'[id]
           view == RequestView(id)
           voters == approved[id] \cup {caller}
           complete == Cardinality(voters) >= r.quorumSnapshot
<1>1. TypeOK
  BY DEF IInv
<1>2. /\ id \in RequestIds /\ r \in Request /\ s \in Request
      /\ r.status = "Pending"
      /\ caller \in guardians[w] \ approved[id]
      /\ s = [r EXCEPT !.status = s.status, !.approvals = s.approvals,
                       !.executeAfter = s.executeAfter]
      /\ s.approvals = r.approvals + 1
      /\ IF s.approvals >= r.quorumSnapshot
         THEN /\ s.status = "QuorumReached"
              /\ s.executeAfter = now + r.timelockSnapshot
              /\ s.executeAfter <= UINT64_MAX
         ELSE s.status = "Pending" /\ s.executeAfter = r.executeAfter
      /\ approved'[id] = voters
  BY <1>1, ApproveEffect
<1>3. /\ \A j \in RequestIds :
             j # id => requests'[j] = requests[j] /\ approved'[j] = approved[j]
      /\ now' = now
  BY <1>1, ApproveFrame
<1>4. caller \in GuardianKeys
  BY <1>1, <1>2 DEF TypeOK
<1>5. Cardinality(voters) = s.approvals
  <2>1. approved[id] \subseteq GuardianKeys /\ r.approvals = Cardinality(approved[id])
    BY <1>1, <1>2 DEF TypeOK, IInv, QuorumCounted
  <2> QED
    BY <1>2, <2>1, AddressAssumption, FS_Subset, FS_AddElement
<1>6. complete => /\ now + r.timelockSnapshot <= UINT64_MAX
                  /\ (now + r.timelockSnapshot) % (UINT64_MAX + 1) = now + r.timelockSnapshot
  <2>1. now + r.timelockSnapshot \in Nat
    BY <1>1, <1>2 DEF TypeOK, Request
  <2>2. complete => now + r.timelockSnapshot <= UINT64_MAX
    BY <1>2, <1>5
  <2>3. \A n \in Nat : n <= UINT64_MAX => n % (UINT64_MAX + 1) = n
    BY NumberAssumption
  <2> QED
    BY <2>1, <2>2, <2>3
<1>7. /\ requestBar[id] = view
      /\ view.status = r.status
      /\ view.approvals = approved[id]
      /\ view.quorumSnapshot = r.quorumSnapshot
      /\ view.timelockSnapshot = r.timelockSnapshot
      /\ view.executeAfter = r.executeAfter
  BY <1>2 DEF requestBar, RequestView
<1> DEFINE status == IF complete THEN "QuorumReached" ELSE r.status
           deadline == IF complete THEN now + r.timelockSnapshot ELSE r.executeAfter
<1>8. s.status = status /\ s.executeAfter = deadline
  BY <1>2, <1>5
<1>9. RequestView(id)' = [view EXCEPT !.approvals = voters, !.status = status,
                                      !.executeAfter = deadline]
  <2> HIDE DEF status, deadline
  <2>1. /\ s.replacedDevice = r.replacedDevice /\ s.newDevice = r.newDevice
        /\ s.initiatedAt = r.initiatedAt /\ s.quorumSnapshot = r.quorumSnapshot
        /\ s.timelockSnapshot = r.timelockSnapshot
    BY <1>2 DEF Request
  <2> DEFINE View(ea, vs, st) ==
                 [replacedDevice |-> r.replacedDevice, newDevice |-> r.newDevice,
                  initiatedAt |-> r.initiatedAt, executeAfter |-> ea,
                  quorumSnapshot |-> r.quorumSnapshot,
                  timelockSnapshot |-> r.timelockSnapshot,
                  approvals |-> vs, status |-> st]
  <2>2. RequestView(id)' = View(deadline, voters, status)
    BY <1>2, <1>8, <2>1 DEF RequestView
  <2>3. view = View(r.executeAfter, approved[id], r.status)
    BY DEF RequestView
  <2>4. [View(r.executeAfter, approved[id], r.status) EXCEPT !.approvals = voters]
            = View(r.executeAfter, voters, r.status)
    <3> HIDE DEF r, voters
    <3> QED
      OBVIOUS
  <2>5. [View(r.executeAfter, voters, r.status) EXCEPT !.status = status]
            = View(r.executeAfter, voters, status)
    <3> HIDE DEF r, voters
    <3> QED
      OBVIOUS
  <2>6. [View(r.executeAfter, voters, status) EXCEPT !.executeAfter = deadline]
            = View(deadline, voters, status)
    <3> HIDE DEF r, voters
    <3> QED
      OBVIOUS
  <2> HIDE DEF r, view, voters, View
  <2>7. [view EXCEPT !.approvals = voters, !.status = status, !.executeAfter = deadline]
            = [[[view EXCEPT !.approvals = voters] EXCEPT !.status = status]
                  EXCEPT !.executeAfter = deadline]
    OBVIOUS
  <2> QED
    BY <2>2, <2>3, <2>4, <2>5, <2>6, <2>7
<1>10. Reference!Approve(id, caller)
  <2>1. requestBar' = [requestBar EXCEPT ![id] = RequestView(id)']
    BY <1>2, <1>3, ViewUpdate
  <2>2. Reference!Allows(view.status, "Approve")
    BY <1>2, <1>7 DEF Reference!Allows
  <2>3. (Reference!Cardinality(view.approvals \cup {caller}) >= view.quorumSnapshot) <=> complete
    BY <1>7, SameCardinality
  <2>4. complete => Reference!DeadlineFits(view) /\ Reference!Deadline(view) = deadline
    BY <1>6, <1>7 DEF Reference!DeadlineFits, Reference!Deadline
  <2>5. [view EXCEPT !.approvals = voters, !.status = status, !.executeAfter = deadline]
            = [view EXCEPT !.approvals = voters,
                           !.status = IF complete THEN "QuorumReached" ELSE @,
                           !.executeAfter =
                               IF complete THEN Reference!Deadline(view) ELSE @]
    <3> HIDE DEF view, complete
    <3> QED
      BY <1>7, <2>4
  <2>6. requestBar' =
            [requestBar EXCEPT ![id] =
                [view EXCEPT !.approvals = voters,
                             !.status = IF complete THEN "QuorumReached" ELSE @,
                             !.executeAfter =
                                 IF complete THEN Reference!Deadline(view) ELSE @]]
    BY <1>9, <2>1, <2>5
  <2> HIDE DEF view, complete, status, deadline
  <2> QED
    BY <1>2, <1>3, <1>7, <2>2, <2>3, <2>4, <2>6
       DEF Reference!Approve, requestBar
<1> QED
  BY <1>2, <1>4, <1>10 DEF Reference!LifecycleNext

LEMMA SettleRefines ==
    ASSUME IInv, NEW w \in Wallets, NEW status \in TerminalStatuses, SettleStep(w, status),
           NEW id, id = latestRecoveryId[w]
    PROVE  Reference!LifecycleNext
<1> DEFINE r == requests[id]
           s == requests'[id]
           view == RequestView(id)
<1>1. TypeOK
  BY DEF IInv
<1>2. /\ id \in RequestIds /\ r \in Request
      /\ r.status \in LiveStatuses
      /\ s = [r EXCEPT !.status = status]
      /\ s.status = status
      /\ \A j \in RequestIds : j # id => requests'[j] = requests[j]
  BY <1>1, SettleEffect
<1>3. now' = now /\ approved' = approved /\ latestRecoveryId' = latestRecoveryId
  BY DEF SettleStep
<1>4. requestBar[id] = view /\ view.status = r.status /\ view.executeAfter = r.executeAfter
  BY <1>2 DEF requestBar, RequestView
<1>5. RequestView(id)' = [view EXCEPT !.status = status]
  BY <1>2, <1>3 DEF RequestView, Request
<1>6. requestBar' = [requestBar EXCEPT ![id].status = status]
  <2>1. requestBar' = [requestBar EXCEPT ![id] = RequestView(id)']
    BY <1>2, <1>3, ViewUpdate
  <2> QED
    BY <1>4, <1>5, <2>1
<1>7. CASE status = "Cancelled"
  <2>1. Reference!Allows(requestBar[id].status, "Cancel")
    BY <1>2, <1>4 DEF LiveStatuses, Reference!Allows, Reference!IsLive
  <2>2. Reference!Cancel(id)
    BY <1>3, <1>6, <1>7, <2>1 DEF Reference!Cancel, requestBar
  <2> QED
    BY <1>2, <2>2 DEF Reference!LifecycleNext
<1>8. CASE status = "Executed"
  <2>1. EffectiveStatus(r) = "Executable" /\ r.status # "Executable"
    BY <1>2, <1>8 DEF SettleStep, Latest, IInv, Snapshots, LiveStatuses
  <2>2. r.status = "QuorumReached" /\ now >= r.executeAfter
    BY <2>1 DEF EffectiveStatus
  <2>3. Reference!Allows(Reference!Effective(requestBar[id]), "Finalize")
    BY <1>4, <2>2 DEF Reference!Effective, Reference!Allows
  <2>4. Reference!Finalize(id)
    BY <1>3, <1>6, <1>8, <2>3 DEF Reference!Finalize, requestBar
  <2> QED
    BY <1>2, <2>4 DEF Reference!LifecycleNext
<1> QED
  BY <1>7, <1>8 DEF TerminalStatuses

LEMMA StepRefines ==
    IInv /\ TimelockChosen /\ [Next]_vars =>
        [Reference!LifecycleNext]_(Reference!lifecycleVars)
<1> SUFFICES ASSUME IInv, TimelockChosen, [Next]_vars
             PROVE  Reference!LifecycleNext \/ UNCHANGED <<now, requestBar>>
  BY DEF Reference!lifecycleVars, requestBar
<1>0. TypeOK
  BY DEF IInv
<1>1. CASE QuietStep
  BY <1>0, <1>1, QuietRefines DEF Reference!LifecycleNext
<1>2. ASSUME NEW w \in Wallets, NEW replaced \in DeviceKeys \cup {NoAddress},
             NEW new \in DeviceKeys, OpenStep(w, replaced, new)
      PROVE  Reference!LifecycleNext
  BY <1>2, OpenRefines
<1>3. ASSUME NEW w \in Wallets, NEW caller \in Callers, ApproveRecovery(w, caller)
      PROVE  Reference!LifecycleNext
  BY <1>3, ApproveRefines
<1>4. ASSUME NEW w \in Wallets, NEW status \in TerminalStatuses, SettleStep(w, status)
      PROVE  Reference!LifecycleNext
  BY <1>4, SettleRefines
<1> QED
  BY <1>0, <1>1, <1>2, <1>3, <1>4, StepKinds

(* Whatever the contract does to a request, for any wallets, guardians,    *)
(* devices and bounds, keymesh-core's state machine allows.                *)
THEOREM ReferenceImplemented == Spec => ImplementsReference
<1>1. Spec => [](IInv /\ TimelockChosen)
  BY Invariance, TimelockInvariance, PTL
<1> QED
  BY <1>1, ReferenceInit, StepRefines, PTL
     DEF Spec, ImplementsReference, Reference!LifecycleSpec
=============================================================================
