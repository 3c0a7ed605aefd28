---------------------------- MODULE KeyLifecycle ----------------------------
(***************************************************************************)
(* The lifecycle of a threshold key (crates/keymesh-tss/src/lifecycle.rs): *)
(* generation, refresh, governed rotation and retirement, together with    *)
(* the rotation requests that govern it.                                   *)
(*                                                                         *)
(* Calls take the key and the request by exclusive reference, so a step is *)
(* one call of the library. An application drives a rotation in one of two *)
(* ways, fixed in Init: by rotate_with_request, which does it all in one   *)
(* call ("governed"), or by calling begin_rotation, apply_rotation and the *)
(* request's marks itself, in any order ("stepwise"). The lifecycle is the *)
(* same value in both; what it guarantees is not.                          *)
(*                                                                         *)
(* Key material and the runs of the cryptographic protocols that produce   *)
(* it are in KeyMaterial. A run succeeds or fails, and one that ends with  *)
(* another group key is an error like any other; failed DKGs and refreshes *)
(* leave the key as it was and are no steps.                               *)
(***************************************************************************)
EXTENDS KeyMaterial

CONSTANTS
    GroupKey,        \* the group public key the DKG yields
    ApplyThresholds, \* bound: thresholds apply_rotation is called with
    MaxRefreshes     \* bound: re-sharings after which no refresh is called

ASSUME KeyAssumption ==
    /\ GroupKey \in GroupKeys
    /\ MaxRefreshes \in Nat

VARIABLES
    key,             \* the KeyLifecycle value
    begun,           \* history: the request of the last begin_rotation
    failedApply,     \* history: the last key call was a failing apply_rotation
    driver           \* how the application drives rotations

keyVars == <<key, begun, failedApply, driver>>
lifecycle == <<rotationVars, keyVars>>

Key ==
    [state : {"Created", "Active", "Refreshing", "Rotating", "Retired"},
     material : Material, version : Nat,
     keyId : (GroupKeys \cup {"none"}) \X Nat \X Nat,
     groupKey : GroupKeys \cup {"none"}, locked : BOOLEAN]

Created ==
    [state |-> "Created", material |-> NoMaterial, version |-> 0,
     keyId |-> <<"none", 0, 0>>, groupKey |-> "none", locked |-> FALSE]

(* derive_key_id: the hash of its inputs; group key and protocol version   *)
(* never change.                                                           *)
KeyId(group, t, version) == <<group, t, version>>

----------------------------------------------------------------------------
(* The key as begin_rotation and apply_rotation leave it *)

(* Mutant: the lock alone is looked at. *)
CanMutateUnlocked == ~key.locked

CanMutate == key.state = "Active" /\ ~key.locked

(* Mutant: begin_rotation does not compare the versions. *)
MatchesAnyVersion(r) == key.groupKey # "none" => r.groupKey = key.groupKey

Matches(r) ==
    /\ r.oldVersion = key.version
    /\ key.groupKey # "none" => r.groupKey = key.groupKey

CanBegin(id) ==
    LET r == rotations[id]
    IN  /\ CanMutate
        /\ Matches(r)
        /\ EffectiveRotation(r) = "Executable"
        /\ key.material # NoMaterial => r.threshold <= Len(r.newSet)

Rotating(k) == [k EXCEPT !.state = "Rotating", !.locked = TRUE]

(* Mutant: the state is restored, the lock is not. *)
RestoredLocked(k) == [k EXCEPT !.state = "Active"]

(* Mutant: the version of a rotation that fails is used up. *)
RestoredBumped(k) ==
    [k EXCEPT !.state = "Active", !.locked = FALSE, !.version = @ + 1]

Restored(k) == [k EXCEPT !.state = "Active", !.locked = FALSE]

(* Mutant: the version stays. *)
RotatedInPlace(k, r, run) ==
    [state |-> "Active", material |-> Reshared(k.material, r, run), version |-> k.version,
     keyId |-> KeyId(k.groupKey, r.threshold, k.version),
     groupKey |-> k.groupKey, locked |-> FALSE]

Rotated(k, r, run) ==
    [state |-> "Active", material |-> Reshared(k.material, r, run), version |-> k.version + 1,
     keyId |-> KeyId(k.groupKey, r.threshold, k.version + 1),
     groupKey |-> k.groupKey, locked |-> FALSE]

----------------------------------------------------------------------------
(* Calls *)

(* dkg: the key generated is the one called GroupKey. *)
Dkg ==
    /\ key.state = "Created"
    /\ ~key.locked
    /\ \E run \in ProtocolRun :
          /\ run.vk = GroupKey
          /\ GenerationAccepted(run)
          /\ key' = [state |-> "Active", material |-> Generated(run.vk), version |-> 1,
                     keyId |-> KeyId(run.vk, Generated(run.vk).threshold, 1),
                     groupKey |-> run.vk, locked |-> FALSE]
    /\ failedApply' = FALSE
    /\ UNCHANGED <<rotationVars, begun, driver>>

(* refresh, successful: new shares for the same participants. *)
Refresh ==
    /\ CanMutate
    /\ key.material # NoMaterial
    /\ key.material.reshared < MaxRefreshes
    /\ \E run \in ProtocolRun :
          /\ RunAccepted(key.material, run)
          /\ key' = [key EXCEPT !.material = Refreshed(@, run)]
    /\ failedApply' = FALSE
    /\ UNCHANGED <<rotationVars, begun, driver>>

Retire ==
    /\ CanMutate
    /\ key' = [key EXCEPT !.state = "Retired"]
    /\ failedApply' = FALSE
    /\ UNCHANGED <<rotationVars, begun, driver>>

BeginRotation(id) ==
    /\ CanBegin(id)
    /\ key' = Rotating(key)
    /\ begun' = id
    /\ failedApply' = FALSE
    /\ UNCHANGED <<rotationVars, driver>>

(* apply_rotation: the request need not be the one that was begun. A       *)
(* threshold other than the request's is refused before anything is reset; *)
(* a re-sharing that fails, or is not accepted, restores the key.          *)
ApplyRotation(id, t) ==
    LET r == rotations[id]
    IN  /\ r # NoRotation
        /\ key.state = "Rotating"
        /\ key.material # NoMaterial
        /\ \/ /\ t # r.threshold
              /\ failedApply' = TRUE
              /\ UNCHANGED key
           \/ \E run \in ProtocolRun :
                /\ t = r.threshold
                /\ ~RotationAccepted(key.material, r.newSet, t, run)
                /\ failedApply' = TRUE
                /\ key' = Restored(key)
           \/ \E run \in ProtocolRun :
                /\ t = r.threshold
                /\ RotationAccepted(key.material, r.newSet, t, run)
                /\ failedApply' = FALSE
                /\ key' = Rotated(key, r, run)
        /\ UNCHANGED <<rotationVars, begun, driver>>

(* rotate_with_request: begin_rotation, mark_resharing_with_time (which    *)
(* asks what begin_rotation asked, at the same time), apply_rotation with  *)
(* the request's threshold, and mark_completed or mark_failed.             *)
RotateWithRequest(id) ==
    LET r == [rotations[id] EXCEPT !.status = "Resharing"]
    IN  /\ CanBegin(id)
        /\ begun' = id
        /\ \E run \in ProtocolRun :
              \/ /\ RotationAccepted(key.material, r.newSet, r.threshold, run)
                 /\ key' = Rotated(Rotating(key), r, run)
                 /\ failedApply' = FALSE
                 /\ rotations' = [rotations EXCEPT ![id] = [r EXCEPT !.status = "Completed"]]
              \/ /\ ~RotationAccepted(key.material, r.newSet, r.threshold, run)
                 /\ key' = Restored(Rotating(key))
                 /\ failedApply' = TRUE
                 /\ rotations' = [rotations EXCEPT ![id] = [r EXCEPT !.status = "Failed"]]
        /\ UNCHANGED <<now, driver>>

----------------------------------------------------------------------------
KeyInit ==
    /\ RotationInit
    /\ key = Created
    /\ begun = CHOOSE id \in RotationIds : TRUE
    /\ failedApply = FALSE
    /\ driver \in {"governed", "stepwise"}

GovernedStep ==
    /\ driver = "governed"
    /\ \E id \in RotationIds : RotateWithRequest(id)

StepwiseStep ==
    /\ driver = "stepwise"
    /\ \/ \E id \in RotationIds : BeginRotation(id)
       \/ \E id \in RotationIds, t \in ApplyThresholds : ApplyRotation(id, t)
       \/ MarkStep /\ UNCHANGED keyVars

KeyNext ==
    \/ (Clock \/ ProposalStep) /\ UNCHANGED keyVars
    \/ Dkg
    \/ Refresh
    \/ Retire
    \/ GovernedStep
    \/ StepwiseStep

KeySpec == KeyInit /\ [][KeyNext]_lifecycle

----------------------------------------------------------------------------
(* Properties *)

(* Fields hold values of their types. Executable is read, never stored,    *)
(* and Refreshing left before refresh returns; a threshold can always be   *)
(* met by the participants it is for.                                      *)
KeyTypeOK ==
    /\ now \in Nat
    /\ rotations \in [RotationIds -> Rotation]
    /\ \A id \in RotationIds :
          LET r == rotations[id]
          IN  /\ r.status # "Executable"
              /\ r # NoRotation => r.threshold \in 1 .. Len(r.newSet)
    /\ key \in Key
    /\ key.state # "Refreshing"
    /\ key.material.threshold <= Len(key.material.participants)
    /\ begun \in RotationIds
    /\ failedApply \in BOOLEAN
    /\ driver \in {"governed", "stepwise"}

(* Guardians and timelock have let this request replace that version.      *)
Earned(r, version) ==
    /\ r.oldVersion = version
    /\ r.groupKey = GroupKey
    /\ Cardinality(r.approvals) >= r.quorum
    /\ r.quorum >= 1
    /\ now >= r.createdAt + MIN_TIMELOCK_SECONDS

(* A rotation is under way only for a request that earned it, under the    *)
(* version it was approved for, whatever becomes of the request meanwhile: *)
(* begin_rotation is the only way in, and nothing else moves the version.  *)
RotationEarned ==
    key.state = "Rotating" => key.locked /\ Earned(rotations[begun], key.version)

(* Under rotate_with_request, the versions of the key and its completed    *)
(* requests are one history: each version but the current one was replaced *)
(* by exactly one request, which had earned it.                            *)
VersionHistory ==
    LET completed == {id \in RotationIds : rotations[id].status = "Completed"}
    IN  driver = "governed" =>
            /\ \A id \in completed : Earned(rotations[id], rotations[id].oldVersion)
            /\ \A i, j \in completed :
                  rotations[i].oldVersion = rotations[j].oldVersion => i = j
            /\ {rotations[id].oldVersion : id \in completed} = 1 .. key.version - 1

(* Under rotate_with_request no failure leaves the key locked or between   *)
(* two states: once generated it is active until it is retired.            *)
LockReleased ==
    driver = "governed" => ~key.locked /\ key.state # "Rotating"

(* A rotation that fails changes neither the shares nor the version nor    *)
(* the identifier of the key, in either way of driving it.                 *)
FailureKeepsKey ==
    [][failedApply' => UNCHANGED <<key.material, key.version, key.keyId>>]_lifecycle

(* Retirement is final: nothing happens to a retired key any more.         *)
RetirementFinal ==
    [][key.state = "Retired" => UNCHANGED key]_lifecycle

(* The identifier tells participant sets apart: while it stays, so do the  *)
(* participants and the threshold.                                         *)
KeyIdNamesSet ==
    [][key.state # "Created" /\ key'.keyId = key.keyId =>
          /\ key'.material.participants = key.material.participants
          /\ key'.material.threshold = key.material.threshold]_lifecycle

(* What tests_lifecycle.rs (rotation_failed_preserves_old_state) and the   *)
(* key lifecycle's document say of a failing apply_rotation: the key is    *)
(* active again.                                                           *)
FailedRotationRestores == failedApply => key.state = "Active"
=============================================================================
