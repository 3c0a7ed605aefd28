------------------------- MODULE RecoveryRefinement -------------------------
(***************************************************************************)
(* The RecoveryManager contract implements the reference state machine of  *)
(* keymesh-core (docs/security/invariants.md 17.3): every request id is    *)
(* one RecoveryRequest, its approvals the guardians recorded for the id.   *)
(***************************************************************************)
EXTENDS RecoveryGovernance

RequestView(id) ==
    LET r == requests[id]
    IN  [replacedDevice |-> r.replacedDevice, newDevice |-> r.newDevice,
         initiatedAt |-> r.initiatedAt, executeAfter |-> r.executeAfter,
         quorumSnapshot |-> r.quorumSnapshot,
         timelockSnapshot |-> r.timelockSnapshot,
         approvals |-> approved[id], status |-> r.status]

Reference == INSTANCE RequestLifecycle WITH
    Ids <- RequestIds,
    Guardians <- GuardianKeys,
    Devices <- DeviceKeys,
    NoDevice <- NoAddress,
    MIN_TIMELOCK_SECONDS <- MIN_TIMELOCK,
    U64_MAX <- UINT64_MAX,
    OverflowWraps <- FALSE,
    request <- [id \in RequestIds |-> RequestView(id)]

(* Whatever the contract does to a request is a step of the reference      *)
(* state machine: same guards, same snapshots, same quorum arithmetic and  *)
(* the same inclusive timelock boundary.                                   *)
ImplementsReference == Reference!LifecycleSpec
=============================================================================
