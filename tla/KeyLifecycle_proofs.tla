------------------------- MODULE KeyLifecycle_proofs -------------------------
(***************************************************************************)
(* Proofs about KeyLifecycle, and about ThresholdSigning, which adds the   *)
(* signing providers to it, for builds that check overflow (or never       *)
(* reach it): any requests, guardians and participants, and applications   *)
(* that drive rotations in either way.                                     *)
(*                                                                         *)
(* One inductive invariant, KeyInv, carries the safety properties. Its     *)
(* parts speak of each request by itself (RequestsOK) and of the key       *)
(* (KeyOK); a step is first reduced to what it does to the one request it  *)
(* touches (RequestKinds) and to the key (KeyKinds).                       *)
(***************************************************************************)
EXTENDS ThresholdSigning, FiniteSetTheorems, TLAPS

Granted == {"QuorumReached", "Resharing", "Completed", "Failed"}

RequestOK(r) ==
    /\ r \in Rotation
    /\ r.status # "Executable"
    /\ r.status = "None" => r = NoRotation
    /\ r # NoRotation =>
          /\ r.threshold \in 1 .. Len(r.newSet)
          /\ r.quorum >= 1
          /\ r.timelock >= MIN_TIMELOCK_SECONDS
    /\ r.status \in Granted =>
          /\ Cardinality(r.approvals) >= r.quorum
          /\ r.executableAt >= r.createdAt + MIN_TIMELOCK_SECONDS

RequestsOK ==
    /\ now \in Nat
    /\ rotations \in [RotationIds -> Rotation]
    /\ \A id \in RotationIds :
          RequestOK(rotations[id]) /\ rotations[id].createdAt <= now

KeyOK ==
    /\ key \in Key
    /\ key.state # "Refreshing"
    /\ key.material.threshold <= Len(key.material.participants)
    /\ key.locked <=> key.state = "Rotating"
    /\ key.state = "Created" => key = Created
    /\ key.state # "Created" =>
          /\ key.groupKey = GroupKey
          /\ key.version >= 1
          /\ key.keyId = KeyId(key.groupKey, key.material.threshold, key.version)
    /\ begun \in RotationIds
    /\ failedApply \in BOOLEAN
    /\ driver \in {"governed", "stepwise"}

KeyInv == RequestsOK /\ KeyOK /\ RotationEarned /\ LockReleased

NoOverflow == OverflowWraps = FALSE

----------------------------------------------------------------------------
(* What a step does to requests *)

(* Resharing, Completed and Failed are reached from a granted request.     *)
StatusMove(id, status) ==
    /\ Marked(id, status)
    /\ rotations[id].status \in LiveRotation
    /\ status \in SettledRotation \cup {"Resharing"}
    /\ status # "Cancelled" => rotations[id].status \in Granted \cup {"Executable"}

LEMMA RequestKinds ==
  ASSUME [KeyNext]_lifecycle
  PROVE  \/ UNCHANGED rotations
         \/ \E id \in RotationIds, p \in Proposals : InitiateRotation(id, p)
         \/ \E id \in RotationIds, g \in Guardians : ApproveRotation(id, g)
         \/ \E id \in RotationIds, status \in SettledRotation \cup {"Resharing"} :
                StatusMove(id, status)
<1>1. CASE UNCHANGED lifecycle
  BY <1>1 DEF lifecycle, rotationVars
<1>2. CASE Clock
  BY <1>2 DEF Clock
<1>3. CASE ProposalStep
  <2>1. ASSUME NEW id \in RotationIds, CancelRotation(id)
        PROVE  StatusMove(id, "Cancelled")
    BY <2>1 DEF CancelRotation, StatusMove, SettledRotation
  <2> QED
    BY <1>3, <2>1 DEF ProposalStep, SettledRotation
<1>4. CASE Dkg \/ Refresh \/ Retire
  BY <1>4 DEF Dkg, Refresh, Retire, rotationVars
<1>5. CASE GovernedStep
  <2>1. PICK id \in RotationIds : RotateWithRequest(id)
    BY <1>5 DEF GovernedStep
  <2>2. rotations[id].status \in {"QuorumReached", "Executable"}
    BY <2>1 DEF RotateWithRequest, CanBegin, EffectiveRotation
  <2>3. Marked(id, "Completed") \/ Marked(id, "Failed")
    BY <2>1 DEF RotateWithRequest, Marked
  <2> QED
    BY <2>2, <2>3 DEF StatusMove, SettledRotation, LiveRotation, Granted
<1>6. CASE StepwiseStep
  <2>1. ASSUME NEW id \in RotationIds, MarkResharingWithTime(id)
        PROVE  StatusMove(id, "Resharing")
    BY <2>1 DEF MarkResharingWithTime, EffectiveRotation, StatusMove, LiveRotation, Granted
  <2>2. ASSUME NEW id \in RotationIds, MarkResharing(id)
        PROVE  StatusMove(id, "Resharing")
    BY <2>2 DEF MarkResharing, StatusMove, LiveRotation, Granted
  <2>3. ASSUME NEW id \in RotationIds, MarkCompleted(id)
        PROVE  StatusMove(id, "Completed")
    BY <2>3 DEF MarkCompleted, StatusMove, LiveRotation, SettledRotation, Granted
  <2>4. ASSUME NEW id \in RotationIds, MarkFailed(id)
        PROVE  StatusMove(id, "Failed")
    BY <2>4 DEF MarkFailed, StatusMove, LiveRotation, SettledRotation, Granted
  <2>5. CASE MarkStep
    BY <2>1, <2>2, <2>3, <2>4, <2>5 DEF MarkStep, SettledRotation
  <2>6. CASE UNCHANGED rotationVars
    BY <2>6 DEF rotationVars
  <2> QED
    BY <1>6, <2>5, <2>6 DEF StepwiseStep, BeginRotation, ApplyRotation
<1> QED
  BY <1>1, <1>2, <1>3, <1>4, <1>5, <1>6 DEF KeyNext

(* Time never goes back. *)
LEMMA ClockForward ==
  ASSUME now \in Nat, [KeyNext]_lifecycle
  PROVE  now' \in Nat /\ now' >= now
<1>1. CASE UNCHANGED lifecycle
  BY <1>1 DEF lifecycle, rotationVars
<1>2. CASE Clock
  BY <1>2 DEF Clock
<1>3. CASE ProposalStep
  <2>1. now' = now
    BY <1>3 DEF ProposalStep, InitiateRotation, ApproveRotation, CancelRotation
  <2> QED
    BY <2>1
<1>4. CASE Dkg \/ Refresh \/ Retire
  BY <1>4 DEF Dkg, Refresh, Retire, rotationVars
<1>5. CASE GovernedStep
  BY <1>5 DEF GovernedStep, RotateWithRequest
<1>6. CASE StepwiseStep
  <2>1. now' = now
    BY <1>6 DEF StepwiseStep, MarkStep, BeginRotation, ApplyRotation, rotationVars,
               MarkResharing, MarkResharingWithTime, MarkCompleted, MarkFailed
  <2> QED
    BY <2>1
<1> QED
  BY <1>1, <1>2, <1>3, <1>4, <1>5, <1>6 DEF KeyNext

----------------------------------------------------------------------------
(* Each kind of step keeps the request it touches in order *)

(* What the lemmas below say of the request with this identifier.          *)
Kept(id) ==
    /\ rotations' \in [RotationIds -> Rotation]
    /\ RequestOK(rotations'[id])
    /\ rotations'[id].createdAt <= now
    /\ \A j \in RotationIds : j # id => rotations'[j] = rotations[j]

LEMMA InitiateKeeps ==
  ASSUME RequestsOK, NEW id \in RotationIds, NEW p \in Proposals, InitiateRotation(id, p)
  PROVE  Kept(id) /\ rotations[id] = NoRotation /\ rotations'[id].status = "Pending"
<1> DEFINE s == [oldVersion |-> p.oldVersion, newSet |-> p.newSet,
                 threshold |-> p.threshold, groupKey |-> p.groupKey,
                 createdAt |-> now, executableAt |-> 0,
                 quorum |-> p.quorum, timelock |-> p.timelock,
                 approvals |-> {}, status |-> "Pending"]
<1>1. /\ p.oldVersion \in Nat /\ p.newSet \in Seq(Names) /\ p.threshold \in Nat
      /\ p.groupKey \in GroupKeys /\ p.quorum \in Nat /\ p.timelock \in Nat
  BY RotationAssumption
<1>2. s \in Rotation /\ now \in Nat
  BY <1>1 DEF RequestsOK, Rotation, LiveRotation
<1>3. rotations' = [rotations EXCEPT ![id] = s]
  BY DEF InitiateRotation
<1>4. rotations'[id] = s
  BY <1>3 DEF RequestsOK
<1>5. RequestOK(s)
  BY <1>2 DEF RequestOK, InitiateRotation, ProposalValid, Granted
<1>6. s.createdAt <= now /\ s.status = "Pending"
  BY <1>2
<1> HIDE DEF s
<1> QED
  BY <1>2, <1>3, <1>4, <1>5, <1>6 DEF RequestsOK, Kept, InitiateRotation

LEMMA ApproveKeeps ==
  ASSUME NoOverflow, RequestsOK,
         NEW id \in RotationIds, NEW g \in Guardians, ApproveRotation(id, g)
  PROVE  /\ Kept(id)
         /\ rotations[id].status = "Pending"
         /\ rotations'[id].status \in {"Pending", "QuorumReached"}
<1> DEFINE r == rotations[id]
           voters == r.approvals \cup {g}
           complete == Cardinality(voters) >= r.quorum
           a == [r EXCEPT !.approvals = voters]
           b == [a EXCEPT !.status = IF complete THEN "QuorumReached" ELSE r.status]
           s == [b EXCEPT !.executableAt = IF complete THEN Deadline(r) ELSE r.executableAt]
<1>1. r \in Rotation /\ RequestOK(r) /\ r.status = "Pending" /\ r.createdAt <= now
  BY DEF RequestsOK, ApproveRotation
<1>2. rotations' = [rotations EXCEPT ![id] = s]
  BY DEF ApproveRotation
<1>3. now \in Nat /\ r.timelock \in Nat /\ r.createdAt \in Nat /\ U64_MAX \in Nat
      /\ MIN_TIMELOCK_SECONDS \in Nat /\ r.timelock >= MIN_TIMELOCK_SECONDS
  BY <1>1, RotationAssumption DEF RequestsOK, Rotation, RequestOK, NoRotation
<1>4. ASSUME complete PROVE Deadline(r) = now + r.timelock
  <2>1. now + r.timelock <= U64_MAX
    BY <1>4 DEF ApproveRotation, DeadlineFits, NoOverflow
  <2> DEFINE x == now + r.timelock
             y == U64_MAX + 1
  <2>2. x \in Nat /\ y \in Nat /\ x < y
    BY <1>3, <2>1
  <2>3. x % y = x
    <3> HIDE DEF x, y
    <3> QED
      BY <2>2
  <2> QED
    BY <2>3 DEF Deadline
<1>5. Deadline(r) \in Nat \/ ~complete
  BY <1>3, <1>4
<1>6. a \in Rotation /\ a.approvals = voters /\ a.quorum = r.quorum
      /\ a.createdAt = r.createdAt
  BY <1>1 DEF Rotation
<1>7. /\ b \in Rotation
      /\ b.status = IF complete THEN "QuorumReached" ELSE "Pending"
      /\ b.approvals = voters /\ b.quorum = r.quorum /\ b.createdAt = r.createdAt
  <2> HIDE DEF a
  <2> QED
    BY <1>1, <1>6 DEF Rotation, LiveRotation
<1>8. /\ s \in Rotation
      /\ s.status = IF complete THEN "QuorumReached" ELSE "Pending"
      /\ s.executableAt = IF complete THEN Deadline(r) ELSE r.executableAt
      /\ s.approvals = voters /\ s.quorum = r.quorum /\ s.createdAt = r.createdAt
  <2> HIDE DEF b
  <2> QED
    BY <1>1, <1>5, <1>7 DEF Rotation
<1>9. s.threshold = r.threshold /\ s.newSet = r.newSet /\ s.timelock = r.timelock
  BY <1>1 DEF Rotation
<1>10. RequestOK(s)
  <2>1. s # NoRotation /\ r # NoRotation
    <3>1. NoRotation.status = "None"
      BY DEF NoRotation
    <3>2. s.status # "None" /\ r.status # "None"
      BY <1>1, <1>8
    <3> HIDE DEF s, r
    <3> QED
      BY <3>1, <3>2
  <2>2. s.quorum >= 1 /\ s.timelock >= MIN_TIMELOCK_SECONDS /\ s.threshold \in 1 .. Len(s.newSet)
    BY <1>1, <1>8, <1>9, <2>1 DEF RequestOK
  <2>3. s.status \in Granted =>
            /\ Cardinality(s.approvals) >= s.quorum
            /\ s.executableAt >= s.createdAt + MIN_TIMELOCK_SECONDS
    <3>1. CASE complete
      <4>1. s.executableAt = now + r.timelock
        BY <1>4, <1>8, <3>1
      <4>2. s.executableAt >= s.createdAt + MIN_TIMELOCK_SECONDS
        BY <1>1, <1>3, <1>8, <4>1
      <4>3. Cardinality(s.approvals) >= s.quorum
        BY <1>8, <3>1
      <4> QED
        BY <4>2, <4>3
    <3>2. CASE ~complete
      BY <1>8, <3>2 DEF Granted
    <3> QED
      BY <3>1, <3>2
  <2> HIDE DEF s, complete
  <2> QED
    BY <1>8, <2>1, <2>2, <2>3 DEF RequestOK
<1>11. s.createdAt <= now /\ s.status \in {"Pending", "QuorumReached"}
  BY <1>1, <1>8
<1>12. rotations'[id] = s
  BY <1>2 DEF RequestsOK
<1> HIDE DEF s
<1> QED
  BY <1>1, <1>2, <1>8, <1>10, <1>11, <1>12 DEF RequestsOK, Kept

LEMMA MoveKeeps ==
  ASSUME RequestsOK, NEW id \in RotationIds,
         NEW status \in SettledRotation \cup {"Resharing"}, StatusMove(id, status)
  PROVE  /\ Kept(id)
         /\ rotations' = [rotations EXCEPT ![id] = [rotations[id] EXCEPT !.status = status]]
<1> DEFINE r == rotations[id]
           s == [r EXCEPT !.status = status]
<1>1. r \in Rotation /\ RequestOK(r) /\ r.createdAt <= now /\ r.status \in LiveRotation
  BY DEF RequestsOK, StatusMove
<1>2. rotations' = [rotations EXCEPT ![id] = s]
  BY DEF RequestsOK, StatusMove, Marked
<1>3. /\ s \in Rotation /\ s.status = status
      /\ s.approvals = r.approvals /\ s.quorum = r.quorum /\ s.createdAt = r.createdAt
      /\ s.executableAt = r.executableAt /\ s.threshold = r.threshold
      /\ s.newSet = r.newSet /\ s.timelock = r.timelock
  BY <1>1 DEF Rotation, LiveRotation
<1>4. r # NoRotation /\ s # NoRotation /\ s.status \notin {"None", "Executable"}
  BY <1>1, <1>3 DEF NoRotation, LiveRotation, SettledRotation
<1>5. s.status \in Granted => r.status \in Granted
  BY <1>1, <1>3 DEF StatusMove, Granted, RequestOK
<1>6. RequestOK(s)
  <2> HIDE DEF s
  <2> QED
    BY <1>1, <1>3, <1>4, <1>5 DEF RequestOK
<1>7. rotations'[id] = s
  BY <1>2 DEF RequestsOK
<1>8. Kept(id)
  <2> HIDE DEF s
  <2> QED
    BY <1>1, <1>2, <1>3, <1>6, <1>7 DEF RequestsOK, Kept
<1> QED
  BY <1>2, <1>8

LEMMA RequestsStep ==
  ASSUME NoOverflow, RequestsOK, [KeyNext]_lifecycle
  PROVE  RequestsOK'
<1>1. now \in Nat /\ now' \in Nat /\ now' >= now
  BY ClockForward DEF RequestsOK
<1>2. ASSUME NEW id \in RotationIds, Kept(id) PROVE RequestsOK'
  <2>1. rotations' \in [RotationIds -> Rotation]
    BY <1>2 DEF Kept
  <2>2. ASSUME NEW j \in RotationIds
        PROVE  RequestOK(rotations'[j]) /\ rotations'[j].createdAt <= now'
    <3>1. RequestOK(rotations'[j]) /\ rotations'[j].createdAt <= now
      BY <1>2 DEF Kept, RequestsOK
    <3>2. rotations'[j].createdAt \in Nat
      BY <2>1 DEF Rotation
    <3> QED
      BY <1>1, <3>1, <3>2
  <2> QED
    BY <1>1, <2>1, <2>2 DEF RequestsOK, RequestOK
<1>3. CASE UNCHANGED rotations
  <2>1. ASSUME NEW j \in RotationIds PROVE rotations[j].createdAt \in Nat
    BY DEF RequestsOK, Rotation
  <2> QED
    BY <1>1, <1>3, <2>1 DEF RequestsOK, RequestOK
<1> QED
  BY <1>2, <1>3, RequestKinds, InitiateKeeps, ApproveKeeps, MoveKeeps

----------------------------------------------------------------------------
(* The terms of a request *)

(* The request keeps what it asked for and every approval it has.          *)
SameTerms(id) ==
    /\ rotations'[id].oldVersion = rotations[id].oldVersion
    /\ rotations'[id].groupKey = rotations[id].groupKey
    /\ rotations'[id].createdAt = rotations[id].createdAt
    /\ rotations'[id].quorum = rotations[id].quorum
    /\ rotations[id].approvals \subseteq rotations'[id].approvals

LEMMA TermsKept ==
  ASSUME RequestsOK, [KeyNext]_lifecycle,
         NEW id \in RotationIds, rotations[id].status # "None"
  PROVE  SameTerms(id)
<1>1. CASE UNCHANGED rotations
  BY <1>1 DEF SameTerms
<1>2. ASSUME NEW j \in RotationIds, NEW p \in Proposals, InitiateRotation(j, p)
      PROVE  SameTerms(id)
  <2>1. id # j
    BY <1>2 DEF InitiateRotation, NoRotation
  <2>2. rotations'[id] = rotations[id]
    BY <1>2, <2>1 DEF InitiateRotation, RequestsOK
  <2> QED
    BY <2>2 DEF SameTerms
<1>3. ASSUME NEW j \in RotationIds, NEW g \in Guardians, ApproveRotation(j, g)
      PROVE  SameTerms(id)
  <2> DEFINE r == rotations[j]
             a == [r EXCEPT !.approvals = r.approvals \cup {g}]
  <2>1. PICK status, at : rotations' = [rotations EXCEPT ![j] =
               [[a EXCEPT !.status = status] EXCEPT !.executableAt = at]]
    BY <1>3 DEF ApproveRotation
  <2>2. r \in Rotation
    BY DEF RequestsOK
  <2>3. /\ a.approvals = r.approvals \cup {g} /\ a.oldVersion = r.oldVersion
        /\ a.groupKey = r.groupKey /\ a.createdAt = r.createdAt /\ a.quorum = r.quorum
        /\ DOMAIN a = DOMAIN r
    BY <2>2 DEF Rotation
  <2> DEFINE s == [[a EXCEPT !.status = status] EXCEPT !.executableAt = at]
  <2>4. /\ s.approvals = a.approvals /\ s.oldVersion = a.oldVersion
        /\ s.groupKey = a.groupKey /\ s.createdAt = a.createdAt /\ s.quorum = a.quorum
    <3> DOMAIN r = {"oldVersion", "newSet", "threshold", "groupKey", "createdAt",
                    "executableAt", "quorum", "timelock", "approvals", "status"}
      BY <2>2 DEF Rotation
    <3> HIDE DEF a, r
    <3> QED
      BY <2>3
  <2>5. rotations'[id] = IF id = j THEN s ELSE rotations[id]
    BY <2>1 DEF RequestsOK
  <2> HIDE DEF s, a
  <2> QED
    BY <2>3, <2>4, <2>5 DEF SameTerms
<1>4. ASSUME NEW j \in RotationIds, NEW status \in SettledRotation \cup {"Resharing"},
             StatusMove(j, status)
      PROVE  SameTerms(id)
  <2>1. rotations' = [rotations EXCEPT ![j] = [rotations[j] EXCEPT !.status = status]]
    BY <1>4, MoveKeeps
  <2>2. rotations[j] \in Rotation
    BY DEF RequestsOK
  <2>3. rotations'[id] = IF id = j THEN [rotations[j] EXCEPT !.status = status]
                                   ELSE rotations[id]
    BY <2>1 DEF RequestsOK
  <2> QED
    BY <2>2, <2>3 DEF SameTerms, Rotation
<1> QED
  BY <1>1, <1>2, <1>3, <1>4, RequestKinds

(* What a request has earned it keeps.                                     *)
LEMMA EarnedStays ==
  ASSUME NoOverflow, RequestsOK, [KeyNext]_lifecycle,
         NEW id \in RotationIds, NEW v, Earned(rotations[id], v)
  PROVE  Earned(rotations[id], v)'
<1> DEFINE r == rotations[id]
           s == rotations'[id]
<1>1. r \in Rotation /\ RequestOK(r) /\ s \in Rotation
  BY RequestsStep DEF RequestsOK
<1>2. r.status # "None"
  BY <1>1 DEF Earned, RequestOK, NoRotation
<1>3. SameTerms(id)
  BY <1>2, TermsKept
<1>4. now \in Nat /\ now' \in Nat /\ now' >= now
  BY ClockForward DEF RequestsOK
<1>5. now' >= s.createdAt + MIN_TIMELOCK_SECONDS
  <2>1. now >= r.createdAt + MIN_TIMELOCK_SECONDS /\ s.createdAt = r.createdAt
    BY <1>3 DEF Earned, SameTerms
  <2>2. r.createdAt \in Nat /\ MIN_TIMELOCK_SECONDS \in Nat
    BY <1>1, RotationAssumption DEF Rotation
  <2> QED
    BY <1>4, <2>1, <2>2
<1>6. Cardinality(s.approvals) >= s.quorum
  <2>1. s.approvals \subseteq Guardians /\ IsFiniteSet(Guardians)
    BY <1>1, RotationAssumption DEF Rotation
  <2>2. IsFiniteSet(s.approvals)
    BY <2>1, FS_Subset
  <2>3. r.approvals \subseteq s.approvals /\ s.quorum = r.quorum
    BY <1>3 DEF SameTerms
  <2>4. IsFiniteSet(r.approvals) /\ Cardinality(r.approvals) <= Cardinality(s.approvals)
    BY <2>2, <2>3, FS_Subset
  <2>5. Cardinality(r.approvals) \in Nat /\ Cardinality(s.approvals) \in Nat
    BY <2>2, <2>4, FS_CardinalityType
  <2>6. Cardinality(r.approvals) >= r.quorum /\ r.quorum \in Nat
    BY <1>1 DEF Earned, Rotation
  <2> QED
    BY <2>3, <2>4, <2>5, <2>6
<1> QED
  BY <1>3, <1>5, <1>6 DEF Earned, SameTerms

(* begin_rotation accepts only a request that earned the key's version.    *)
LEMMA BegunEarned ==
  ASSUME RequestsOK, KeyOK, NEW id \in RotationIds, CanBegin(id)
  PROVE  Earned(rotations[id], key.version) /\ rotations[id].status = "QuorumReached"
<1> DEFINE r == rotations[id]
<1>1. r \in Rotation /\ RequestOK(r)
  BY DEF RequestsOK
<1>2. r.status = "QuorumReached" /\ now >= r.executableAt
  BY <1>1 DEF CanBegin, EffectiveRotation, RequestOK
<1>3. r.oldVersion = key.version /\ r.groupKey = GroupKey
  <2>1. key.groupKey = GroupKey /\ GroupKey # "none"
    BY RotationAssumption, KeyAssumption DEF CanBegin, CanMutate, KeyOK
  <2> QED
    BY <2>1 DEF CanBegin, Matches
<1>4. /\ Cardinality(r.approvals) >= r.quorum
      /\ r.executableAt >= r.createdAt + MIN_TIMELOCK_SECONDS
      /\ r.quorum >= 1
  <2>1. r # NoRotation
    BY <1>2 DEF NoRotation
  <2> QED
    BY <1>1, <1>2, <2>1 DEF RequestOK, Granted
<1>5. now >= r.createdAt + MIN_TIMELOCK_SECONDS
  <2>1. now \in Nat /\ r.executableAt \in Nat /\ r.createdAt \in Nat
        /\ MIN_TIMELOCK_SECONDS \in Nat
    BY <1>1, RotationAssumption DEF RequestsOK, Rotation
  <2> QED
    BY <1>2, <1>4, <2>1
<1> QED
  BY <1>2, <1>3, <1>4, <1>5 DEF Earned

----------------------------------------------------------------------------
(* Values of the key *)

LEMMA RotatingFields ==
  ASSUME NEW k \in Key
  PROVE  /\ Rotating(k) \in Key
         /\ Rotating(k).state = "Rotating" /\ Rotating(k).locked = TRUE
         /\ Rotating(k).material = k.material /\ Rotating(k).version = k.version
         /\ Rotating(k).keyId = k.keyId /\ Rotating(k).groupKey = k.groupKey
  BY DEF Rotating, Key

LEMMA RestoredFields ==
  ASSUME NEW k \in Key
  PROVE  /\ Restored(k) \in Key
         /\ Restored(k).state = "Active" /\ Restored(k).locked = FALSE
         /\ Restored(k).material = k.material /\ Restored(k).version = k.version
         /\ Restored(k).keyId = k.keyId /\ Restored(k).groupKey = k.groupKey
  BY DEF Restored, Key

(* do_rotation_via_resharing yields one participant for each name.         *)
LEMMA ResolveType ==
  ASSUME NEW old \in Seq(Nat), NEW names \in Seq(Names)
  PROVE  /\ Resolve(old, names) \in Seq(Nat)
         /\ Len(Resolve(old, names)) = Len(names)
<1>1. ASSUME NEW i \in 1 .. Len(names)
      PROVE  (IF Alias[names[i]] < Len(old) THEN old[Alias[names[i]] + 1] ELSE (100 + i - 1) % 256)
                 \in Nat
  <2>1. names[i] \in Names
    OBVIOUS
  <2>2. Alias[names[i]] \in Nat
    BY <2>1, MaterialAssumption
  <2> QED
    BY <2>2
<1> DEFINE n == Len(names)
           e(i) == IF Alias[names[i]] < Len(old) THEN old[Alias[names[i]] + 1] ELSE (100 + i - 1) % 256
           f == [i \in 1 .. n |-> e(i)]
<1>2. n \in Nat
  OBVIOUS
<1>3. f \in [1 .. n -> Nat]
  <2> HIDE DEF e, n
  <2>1. \A i \in 1 .. n : e(i) \in Nat
    BY <1>1 DEF e, n
  <2> QED
    BY <2>1
<1>4. f \in Seq(Nat) /\ Len(f) = n
  <2> HIDE DEF f, n
  <2>1. f \in Seq(Nat)
    BY <1>2, <1>3
  <2>2. DOMAIN f = 1 .. n
    BY <1>3
  <2> QED
    BY <1>2, <2>1, <2>2
<1>5. f = Resolve(old, names)
  BY DEF Resolve
<1> HIDE DEF f
<1> QED
  BY <1>4, <1>5

LEMMA RotatedFields ==
  ASSUME NEW k \in Key, NEW r \in Rotation, r.threshold \in 1 .. Len(r.newSet),
         NEW run \in ProtocolRun
  PROVE  /\ Rotated(k, r, run) \in Key
         /\ Rotated(k, r, run).state = "Active" /\ Rotated(k, r, run).locked = FALSE
         /\ Rotated(k, r, run).material.threshold = r.threshold
         /\ Rotated(k, r, run).material.groupKey = run.vk
         /\ Len(Rotated(k, r, run).material.participants) = Len(r.newSet)
         /\ Rotated(k, r, run).version = k.version + 1
         /\ Rotated(k, r, run).keyId = KeyId(k.groupKey, r.threshold, k.version + 1)
         /\ Rotated(k, r, run).groupKey = k.groupKey
<1>1. /\ k.material.participants \in Seq(Nat) /\ k.material.reshared \in Nat
      /\ k.version \in Nat /\ k.groupKey \in GroupKeys \cup {"none"}
  BY DEF Key, Material
<1>2. r.newSet \in Seq(Names) /\ r.threshold \in Nat
  BY DEF Rotation
<1>5. run.vk \in GroupKeys
  BY DEF ProtocolRun
<1>3. /\ Resolve(k.material.participants, r.newSet) \in Seq(Nat)
      /\ Len(Resolve(k.material.participants, r.newSet)) = Len(r.newSet)
  BY <1>1, <1>2, ResolveType
<1>4. Reshared(k.material, r, run) \in Material
  BY <1>1, <1>2, <1>3, <1>5 DEF Reshared, Material
<1> QED
  BY <1>1, <1>2, <1>3, <1>4 DEF Rotated, Key, KeyId, Reshared

(* A refresh keeps participants and threshold. *)
LEMMA RefreshedFields ==
  ASSUME NEW m \in Material, NEW run \in ProtocolRun
  PROVE  /\ Refreshed(m, run) \in Material
         /\ Refreshed(m, run).participants = m.participants
         /\ Refreshed(m, run).threshold = m.threshold
         /\ Refreshed(m, run).groupKey = run.vk
<1>1. run.vk \in GroupKeys
  BY DEF ProtocolRun
<1> DEFINE c == [m EXCEPT !.reshared = @ + 1]
<1>2. /\ c \in Material /\ c.participants = m.participants
      /\ c.threshold = m.threshold
  BY DEF Material
<1>3. Refreshed(m, run) = [c EXCEPT !.groupKey = run.vk]
  BY DEF Refreshed, Material
<1> HIDE DEF c
<1> QED
  BY <1>1, <1>2, <1>3 DEF Material

(* Marking a request leaves what is re-shared for it.                      *)
LEMMA MarkedRequest ==
  ASSUME NEW r \in Rotation, NEW k \in Key, NEW run
  PROVE  LET m == [r EXCEPT !.status = "Resharing"]
         IN  /\ m.newSet = r.newSet /\ m.threshold = r.threshold /\ m \in Rotation
             /\ Rotated(Rotating(k), m, run) = Rotated(k, r, run)
<1> DEFINE m == [r EXCEPT !.status = "Resharing"]
<1>1. m.newSet = r.newSet /\ m.threshold = r.threshold /\ m \in Rotation
  BY DEF Rotation, LiveRotation
<1> HIDE DEF m
<1>2. Reshared(k.material, m, run) = Reshared(k.material, r, run)
  BY <1>1 DEF Reshared
<1>3. Rotated(Rotating(k), m, run) = Rotated(k, r, run)
  BY <1>1, <1>2, RotatingFields DEF Rotated
<1> QED
  BY <1>1, <1>3 DEF m

----------------------------------------------------------------------------
(* What a step does to the key *)

(* A rotation attempt ends with the key as it was.                         *)
KeyRestored ==
    /\ key' \in Key
    /\ key'.state = "Active" /\ key'.locked = FALSE
    /\ key'.material = key.material /\ key'.version = key.version
    /\ key'.keyId = key.keyId /\ key'.groupKey = key.groupKey

(* A rotation attempt succeeds, with a run that keeps the group key.       *)
KeyRotated(id) ==
    /\ rotations[id].status # "None"
    /\ \E run \in ProtocolRun :
          /\ RunAccepted(key.material, run)
          /\ key' = Rotated(key, rotations[id], run)

(* Once generated, and neither retired nor refreshing. *)
InUse == key.state \in {"Active", "Rotating"}

LEMMA KeyKinds ==
  ASSUME RequestsOK, KeyOK, [KeyNext]_lifecycle
  PROVE  \/ UNCHANGED <<key, begun, driver>>
         \/ Dkg
         \/ Refresh
         \/ Retire
         \/ driver = "stepwise" /\ \E id \in RotationIds : BeginRotation(id)
         \/ /\ InUse /\ begun' \in RotationIds /\ UNCHANGED driver
            /\ \/ KeyRestored /\ failedApply' = TRUE
               \/ \E id \in RotationIds : KeyRotated(id) /\ failedApply' = FALSE
<1>1. CASE UNCHANGED lifecycle
  BY <1>1 DEF lifecycle, keyVars
<1>2. CASE (Clock \/ ProposalStep) /\ UNCHANGED keyVars
  BY <1>2 DEF keyVars
<1>3. ASSUME NEW id \in RotationIds, RotateWithRequest(id)
      PROVE  /\ InUse /\ begun' \in RotationIds /\ UNCHANGED driver
             /\ \/ KeyRestored /\ failedApply' = TRUE
                \/ KeyRotated(id) /\ failedApply' = FALSE
  <2> DEFINE r == rotations[id]
             m == [r EXCEPT !.status = "Resharing"]
  <2>1. key \in Key /\ r \in Rotation
    BY DEF KeyOK, RequestsOK
  <2>2. InUse /\ r.status # "None"
    BY <1>3, BegunEarned DEF RotateWithRequest, CanBegin, CanMutate, InUse
  <2>3. begun' \in RotationIds /\ UNCHANGED driver
    BY <1>3 DEF RotateWithRequest
  <2>4. \/ /\ failedApply' = FALSE
           /\ \E run \in ProtocolRun : /\ RunAccepted(key.material, run)
                                       /\ key' = Rotated(Rotating(key), m, run)
        \/ key' = Restored(Rotating(key)) /\ failedApply' = TRUE
    BY <1>3 DEF RotateWithRequest, RotationAccepted
  <2>5. \A run : Rotated(Rotating(key), m, run) = Rotated(key, r, run)
    BY <2>1, MarkedRequest
  <2>6. ASSUME key' = Restored(Rotating(key)) PROVE KeyRestored
    <3> DEFINE k == Rotating(key)
    <3>1. /\ k \in Key /\ k.material = key.material /\ k.version = key.version
          /\ k.keyId = key.keyId /\ k.groupKey = key.groupKey
      BY <2>1, RotatingFields
    <3>2. key' = Restored(k)
      BY <2>6
    <3> HIDE DEF k
    <3> QED
      BY <3>1, <3>2, RestoredFields DEF KeyRestored
  <2> QED
    BY <2>2, <2>3, <2>4, <2>5, <2>6 DEF KeyRotated
<1>4. ASSUME NEW id \in RotationIds, NEW t, ApplyRotation(id, t)
      PROVE  \/ UNCHANGED <<key, begun, driver>>
             \/ /\ InUse /\ begun' \in RotationIds /\ UNCHANGED driver
                /\ \/ KeyRestored /\ failedApply' = TRUE
                   \/ KeyRotated(id) /\ failedApply' = FALSE
  <2>1. key \in Key /\ begun \in RotationIds
    BY DEF KeyOK
  <2>2. InUse /\ UNCHANGED <<begun, driver>>
    BY <1>4 DEF ApplyRotation, InUse
  <2>3. rotations[id].status # "None"
    BY <1>4 DEF ApplyRotation, RequestsOK, RequestOK
  <2>4. \/ UNCHANGED key
        \/ key' = Restored(key) /\ failedApply' = TRUE
        \/ /\ failedApply' = FALSE
           /\ \E run \in ProtocolRun : /\ RunAccepted(key.material, run)
                                       /\ key' = Rotated(key, rotations[id], run)
    BY <1>4 DEF ApplyRotation, RotationAccepted
  <2>5. key' = Restored(key) => KeyRestored
    BY <2>1, RestoredFields DEF KeyRestored
  <2> QED
    BY <2>1, <2>2, <2>3, <2>4, <2>5 DEF KeyRotated
<1>5. CASE GovernedStep
  BY <1>3, <1>5 DEF GovernedStep
<1>6. CASE StepwiseStep
  BY <1>4, <1>6 DEF StepwiseStep, keyVars
<1> QED
  BY <1>1, <1>2, <1>5, <1>6 DEF KeyNext

(* A rotated key has its request's threshold and one participant for each  *)
(* of its names, and holds shares of the key it had.                       *)
LEMMA RotatedState ==
  ASSUME RequestsOK, KeyOK, NEW id \in RotationIds, KeyRotated(id)
  PROVE  /\ key' \in Key /\ key'.state = "Active" /\ key'.locked = FALSE
         /\ key'.material.threshold = rotations[id].threshold
         /\ Len(key'.material.participants) = Len(rotations[id].newSet)
         /\ key'.material.groupKey = key.material.groupKey
         /\ key'.version = key.version + 1
         /\ key'.keyId = KeyId(key.groupKey, rotations[id].threshold, key.version + 1)
         /\ key'.groupKey = key.groupKey
         /\ rotations[id].threshold \in 1 .. Len(rotations[id].newSet)
<1> DEFINE r == rotations[id]
<1>1. r \in Rotation /\ r.threshold \in 1 .. Len(r.newSet)
  BY DEF RequestsOK, RequestOK, KeyRotated, NoRotation
<1>2. key \in Key
  BY DEF KeyOK
<1>3. PICK run \in ProtocolRun :
          RunAccepted(key.material, run) /\ key' = Rotated(key, r, run)
  BY DEF KeyRotated
<1>4. run.vk = key.material.groupKey
  BY <1>3 DEF RunAccepted
<1> HIDE DEF r
<1>5. /\ key' \in Key /\ key'.state = "Active" /\ key'.locked = FALSE
      /\ key'.material.threshold = r.threshold
      /\ Len(key'.material.participants) = Len(r.newSet)
      /\ key'.material.groupKey = run.vk
      /\ key'.version = key.version + 1
      /\ key'.keyId = KeyId(key.groupKey, r.threshold, key.version + 1)
      /\ key'.groupKey = key.groupKey
  BY <1>1, <1>2, <1>3, RotatedFields
<1> QED
  BY <1>1, <1>4, <1>5 DEF r

LEMMA KeyStep ==
  ASSUME NoOverflow, RequestsOK, KeyOK, [KeyNext]_lifecycle
  PROVE  KeyOK'
<1>1. key \in Key /\ begun \in RotationIds /\ driver \in {"governed", "stepwise"}
  BY DEF KeyOK
<1>2. failedApply' \in BOOLEAN
  BY DEF KeyOK, KeyNext, Clock, ProposalStep, Dkg, Refresh, Retire, GovernedStep,
         RotateWithRequest, StepwiseStep, BeginRotation, ApplyRotation, keyVars, lifecycle
<1>3. CASE UNCHANGED <<key, begun, driver>>
  BY <1>2, <1>3 DEF KeyOK
<1>4. CASE Dkg
  <2>1. GroupKey \in GroupKeys
    BY KeyAssumption
  <2>2. key' = [state |-> "Active", material |-> Generated(GroupKey), version |-> 1,
                keyId |-> KeyId(GroupKey, Generated(GroupKey).threshold, 1),
                groupKey |-> GroupKey, locked |-> FALSE]
    BY <1>4 DEF Dkg
  <2>3. Generated(GroupKey) \in Material /\ Generated(GroupKey).threshold = 2
        /\ Len(Generated(GroupKey).participants) = 3
    BY <2>1 DEF Generated, Material
  <2>4. key' \in Key
    BY <2>1, <2>2, <2>3 DEF Key, KeyId
  <2>5. /\ key'.state = "Active" /\ key'.locked = FALSE /\ key'.groupKey = GroupKey
        /\ key'.material = Generated(GroupKey) /\ key'.version = 1
        /\ key'.keyId = KeyId(GroupKey, Generated(GroupKey).threshold, 1)
    BY <2>2
  <2>6. begun' \in RotationIds /\ driver' \in {"governed", "stepwise"}
    BY <1>1, <1>4 DEF Dkg
  <2>7. key'.material.threshold <= Len(key'.material.participants) /\ key'.version >= 1
    <3>1. key'.material.threshold = 2 /\ Len(key'.material.participants) = 3
      BY <2>3, <2>5
    <3>2. key'.version = 1
      BY <2>5
    <3> QED
      BY <3>1, <3>2
  <2>8. key'.keyId = KeyId(key'.groupKey, key'.material.threshold, key'.version)
    BY <2>5
  <2>9. key'.locked <=> key'.state = "Rotating"
    BY <2>5
  <2>10. key'.state # "Created" /\ key'.state # "Refreshing"
    BY <2>5
  <2> QED
    BY <1>2, <2>4, <2>5, <2>6, <2>7, <2>8, <2>9, <2>10 DEF KeyOK, KeyId
<1>5. CASE Refresh
  <2>0. PICK run \in ProtocolRun : key' = [key EXCEPT !.material = Refreshed(@, run)]
    BY <1>5 DEF Refresh
  <2> DEFINE m == Refreshed(key.material, run)
  <2>1. m \in Material /\ m.participants = key.material.participants
        /\ m.threshold = key.material.threshold
    BY <1>1, RefreshedFields DEF Key
  <2>2. key' = [key EXCEPT !.material = m]
    BY <1>1, <2>0 DEF Key
  <2> HIDE DEF m
  <2>3. /\ key' \in Key /\ key'.material = m /\ key'.state = key.state
        /\ key'.version = key.version /\ key'.keyId = key.keyId
        /\ key'.groupKey = key.groupKey /\ key'.locked = key.locked
    BY <1>1, <2>1, <2>2 DEF Key
  <2>4. key.state = "Active" /\ key.locked = FALSE
    BY <1>1, <1>5 DEF Refresh, CanMutate, Key
  <2> QED
    BY <1>1, <1>2, <1>5, <2>1, <2>3, <2>4 DEF KeyOK, Refresh
<1>6. CASE Retire
  <2>1. /\ key' \in Key /\ key'.material = key.material /\ key'.state = "Retired"
        /\ key'.version = key.version /\ key'.keyId = key.keyId
        /\ key'.groupKey = key.groupKey /\ key'.locked = key.locked
    BY <1>1, <1>6 DEF Retire, Key
  <2>2. key.state = "Active" /\ key.locked = FALSE
    BY <1>1, <1>6 DEF Retire, CanMutate, Key
  <2> QED
    BY <1>1, <1>2, <1>6, <2>1, <2>2 DEF KeyOK, Retire
<1>7. CASE \E id \in RotationIds : BeginRotation(id)
  <2>1. key' = Rotating(key) /\ begun' \in RotationIds /\ UNCHANGED driver
    BY <1>7 DEF BeginRotation
  <2>2. key.state = "Active"
    BY <1>7 DEF BeginRotation, CanBegin, CanMutate
  <2> QED
    BY <1>1, <1>2, <2>1, <2>2, RotatingFields DEF KeyOK
<1>8. CASE InUse /\ begun' \in RotationIds /\ UNCHANGED driver /\ KeyRestored
  BY <1>1, <1>2, <1>8 DEF KeyOK, KeyRestored, InUse
<1>9. ASSUME InUse, begun' \in RotationIds, UNCHANGED driver,
             NEW id \in RotationIds, KeyRotated(id)
      PROVE  KeyOK'
  <2> DEFINE r == rotations[id]
  <2>1. r.threshold \in 1 .. Len(r.newSet)
    BY <1>9, RotatedState
  <2>2. /\ key' \in Key /\ key'.state = "Active" /\ key'.locked = FALSE
        /\ key'.material.threshold = r.threshold
        /\ Len(key'.material.participants) = Len(r.newSet)
        /\ key'.version = key.version + 1
        /\ key'.keyId = KeyId(key.groupKey, r.threshold, key.version + 1)
        /\ key'.groupKey = key.groupKey
    BY <1>9, RotatedState
  <2>3. key.groupKey = GroupKey /\ key.version \in Nat
    BY <1>9 DEF KeyOK, InUse, Key
  <2>4. key'.version >= 1
    BY <2>2, <2>3
  <2>5. key'.material.threshold <= Len(key'.material.participants)
    BY <2>1, <2>2
  <2> QED
    BY <1>1, <1>2, <1>9, <2>2, <2>3, <2>4, <2>5 DEF KeyOK
<1> QED
  BY <1>3, <1>4, <1>5, <1>6, <1>7, <1>8, <1>9, KeyKinds

(* Refresh and retire move one field. *)
LEMMA RefreshOrRetire ==
  ASSUME KeyOK, Refresh \/ Retire
  PROVE  /\ key'.version = key.version /\ key'.keyId = key.keyId
         /\ key'.locked = FALSE /\ key'.state \in {"Active", "Retired"}
         /\ key.state = "Active"
         /\ key'.material.participants = key.material.participants
         /\ key'.material.threshold = key.material.threshold
         /\ key'.material.groupKey = key.material.groupKey /\ key'.groupKey = key.groupKey
         /\ UNCHANGED <<rotations, begun, driver>>
<1>1. key \in Key /\ key.state = "Active" /\ key.locked = FALSE
  BY DEF KeyOK, Refresh, Retire, CanMutate, Key
<1>2. UNCHANGED <<rotations, begun, driver>>
  BY DEF Refresh, Retire, rotationVars
<1>3. CASE Refresh
  <2>0. PICK run \in ProtocolRun : /\ RunAccepted(key.material, run)
                                   /\ key' = [key EXCEPT !.material = Refreshed(@, run)]
    BY <1>3 DEF Refresh
  <2> DEFINE m == Refreshed(key.material, run)
  <2>1. m.participants = key.material.participants /\ m.threshold = key.material.threshold
        /\ m.groupKey = key.material.groupKey
    BY <1>1, <2>0, RefreshedFields DEF Key, RunAccepted
  <2>2. key' = [key EXCEPT !.material = m]
    BY <1>1, <2>0 DEF Key
  <2> HIDE DEF m
  <2>3. /\ key'.material = m /\ key'.state = key.state /\ key'.version = key.version
        /\ key'.keyId = key.keyId /\ key'.locked = key.locked
        /\ key'.groupKey = key.groupKey
    BY <1>1, <2>2 DEF Key
  <2> QED
    BY <1>1, <1>2, <2>1, <2>3
<1>4. CASE Retire
  BY <1>1, <1>2, <1>4 DEF Retire, Key
<1> QED
  BY <1>3, <1>4

----------------------------------------------------------------------------
(* The inductive invariant *)

LEMMA KeyInitially ==
  ASSUME KeyInit
  PROVE  KeyInv
<1>1. now = 0 /\ rotations = [id \in RotationIds |-> NoRotation]
  BY DEF KeyInit, RotationInit
<1>2. NoRotation \in Rotation /\ RequestOK(NoRotation) /\ NoRotation.createdAt = 0
  <2>1. NoRotation \in Rotation
    BY DEF NoRotation, Rotation
  <2>2. NoRotation.status = "None" /\ NoRotation.createdAt = 0
    BY DEF NoRotation
  <2> QED
    BY <2>1, <2>2 DEF RequestOK, Granted
<1>3. RequestsOK
  BY <1>1, <1>2 DEF RequestsOK
<1>4. key = Created /\ begun \in RotationIds
  BY RotationAssumption DEF KeyInit
<1>5. Created \in Key /\ NoMaterial.threshold = 0 /\ NoMaterial.participants = <<>>
  BY DEF Created, Key, NoMaterial, Material
<1>6. Created.state = "Created" /\ Created.locked = FALSE /\ Created.material = NoMaterial
  BY DEF Created
<1>7. Created.material.threshold <= Len(Created.material.participants)
  <2>1. Created.material.threshold = 0 /\ Len(Created.material.participants) = 0
    BY <1>5, <1>6
  <2> QED
    BY <2>1
<1>8. KeyOK
  BY <1>4, <1>5, <1>6, <1>7 DEF KeyOK, KeyInit
<1>9. RotationEarned /\ LockReleased
  BY <1>4, <1>6 DEF RotationEarned, LockReleased
<1> QED
  BY <1>3, <1>8, <1>9 DEF KeyInv

LEMMA EarnedStep ==
  ASSUME NoOverflow, KeyInv, [KeyNext]_lifecycle
  PROVE  RotationEarned'
<1> USE DEF KeyInv
<1>1. CASE UNCHANGED <<key, begun, driver>>
  <2>1. CASE key.state # "Rotating"
    BY <1>1, <2>1 DEF RotationEarned
  <2>2. CASE key.state = "Rotating"
    <3>1. key.locked /\ Earned(rotations[begun], key.version) /\ begun \in RotationIds
      BY <2>2 DEF RotationEarned, KeyOK
    <3>2. ASSUME NEW id \in RotationIds, NEW v, Earned(rotations[id], v)
          PROVE  Earned(rotations[id], v)'
      BY <3>2, EarnedStays
    <3> QED
      BY <1>1, <3>1, <3>2 DEF RotationEarned, Earned
  <2> QED
    BY <2>1, <2>2
<1>2. CASE Dkg
  BY <1>2 DEF Dkg, RotationEarned
<1>3. CASE Refresh \/ Retire
  BY <1>3, RefreshOrRetire DEF RotationEarned
<1>4. ASSUME NEW id \in RotationIds, BeginRotation(id) PROVE RotationEarned'
  <2>1. key \in Key /\ key' = Rotating(key) /\ begun' = id
    BY <1>4 DEF KeyOK, BeginRotation
  <2>2. key'.locked = TRUE /\ key'.version = key.version
    BY <2>1, RotatingFields
  <2>3. Earned(rotations[id], key.version)
    BY <1>4, BegunEarned DEF BeginRotation
  <2> DEFINE v == key.version
  <2>4. Earned(rotations[id], v)'
    BY <2>2, <2>3, EarnedStays DEF Earned
  <2> QED
    BY <2>1, <2>2, <2>4 DEF RotationEarned, Earned
<1>5. CASE KeyRestored
  BY <1>5 DEF KeyRestored, RotationEarned
<1>6. ASSUME NEW id \in RotationIds, KeyRotated(id) PROVE RotationEarned'
  BY <1>6, RotatedState DEF RotationEarned
<1> QED
  BY <1>1, <1>2, <1>3, <1>4, <1>5, <1>6, KeyKinds

LEMMA LockStep ==
  ASSUME KeyInv, [KeyNext]_lifecycle
  PROVE  LockReleased'
<1> USE DEF KeyInv
<1>1. CASE UNCHANGED <<key, begun, driver>>
  BY <1>1 DEF LockReleased
<1>2. CASE Dkg
  BY <1>2 DEF Dkg, LockReleased
<1>3. CASE Refresh \/ Retire
  BY <1>3, RefreshOrRetire DEF LockReleased
<1>4. ASSUME driver = "stepwise", NEW id \in RotationIds, BeginRotation(id)
      PROVE  LockReleased'
  BY <1>4 DEF BeginRotation, LockReleased
<1>5. CASE KeyRestored
  BY <1>5 DEF KeyRestored, LockReleased
<1>6. ASSUME NEW id \in RotationIds, KeyRotated(id) PROVE LockReleased'
  BY <1>6, RotatedState DEF LockReleased
<1> QED
  BY <1>1, <1>2, <1>3, <1>4, <1>5, <1>6, KeyKinds

LEMMA KeyInvariant ==
  ASSUME NoOverflow
  PROVE  KeySpec => []KeyInv
<1>1. KeyInv /\ [KeyNext]_lifecycle => KeyInv'
  BY RequestsStep, KeyStep, EarnedStep, LockStep DEF KeyInv
<1> QED
  BY <1>1, KeyInitially, PTL DEF KeySpec

----------------------------------------------------------------------------
(* Theorems *)

(* Fields hold values of their types, Executable and Refreshing are never  *)
(* stored between calls, and a threshold can be met by its participants.   *)
THEOREM KeyTypeCorrect ==
  ASSUME NoOverflow
  PROVE  KeySpec => []KeyTypeOK
<1>1. KeyInv => KeyTypeOK
  BY DEF KeyInv, RequestsOK, RequestOK, KeyOK, KeyTypeOK
<1> QED
  BY <1>1, KeyInvariant, PTL

(* A rotation is under way only for a request that the guardians approved, *)
(* for the key's current version, and whose timelock elapsed.              *)
THEOREM RotationIsEarned ==
  ASSUME NoOverflow
  PROVE  KeySpec => []RotationEarned
<1>1. KeyInv => RotationEarned
  BY DEF KeyInv
<1> QED
  BY <1>1, KeyInvariant, PTL

(* rotate_with_request never returns with the key locked or between two    *)
(* states, whether its rotation failed or not.                             *)
THEOREM LockIsReleased ==
  ASSUME NoOverflow
  PROVE  KeySpec => []LockReleased
<1>1. KeyInv => LockReleased
  BY DEF KeyInv
<1> QED
  BY <1>1, KeyInvariant, PTL

(* A failed rotation leaves shares, version and identifier as they were.   *)
THEOREM FailureIsHarmless ==
  ASSUME NoOverflow
  PROVE  KeySpec => FailureKeepsKey
<1> DEFINE A == failedApply' => UNCHANGED <<key.material, key.version, key.keyId>>
<1>1. KeyInv /\ [KeyNext]_lifecycle => [A]_lifecycle
  <2> SUFFICES ASSUME KeyInv, KeyNext, failedApply'
               PROVE  UNCHANGED <<key.material, key.version, key.keyId>>
    BY DEF lifecycle
  <2>1. CASE UNCHANGED <<key, begun, driver>>
    BY <2>1
  <2>2. CASE Dkg \/ Refresh \/ Retire
    BY <2>2 DEF Dkg, Refresh, Retire
  <2>3. ASSUME NEW id \in RotationIds, BeginRotation(id) PROVE FALSE
    BY <2>3 DEF BeginRotation
  <2>4. CASE KeyRestored
    BY <2>4 DEF KeyRestored
  <2> QED
    BY <2>1, <2>2, <2>3, <2>4, KeyKinds DEF KeyInv
<1> QED
  BY <1>1, KeyInvariant, PTL DEF KeySpec, FailureKeepsKey

(* No call, and no request already approved, changes a retired key.        *)
THEOREM RetirementIsFinal ==
  ASSUME NoOverflow
  PROVE  KeySpec => RetirementFinal
<1> DEFINE A == key.state = "Retired" => UNCHANGED key
<1>1. KeyInv /\ [KeyNext]_lifecycle => [A]_lifecycle
  <2> SUFFICES ASSUME KeyInv, KeyNext, key.state = "Retired"
               PROVE  UNCHANGED key
    BY DEF lifecycle
  <2>1. ~Dkg /\ ~Refresh /\ ~Retire /\ ~InUse
    BY DEF Dkg, Refresh, Retire, CanMutate, InUse
  <2>2. ASSUME NEW id \in RotationIds, BeginRotation(id) PROVE FALSE
    BY <2>2 DEF BeginRotation, CanBegin, CanMutate
  <2> QED
    BY <2>1, <2>2, KeyKinds DEF KeyInv
<1> QED
  BY <1>1, KeyInvariant, PTL DEF KeySpec, RetirementFinal

(* While a generated key keeps its identifier, it keeps its participants   *)
(* and its threshold.                                                      *)
THEOREM IdentifierNamesSet ==
  ASSUME NoOverflow
  PROVE  KeySpec => KeyIdNamesSet
<1> DEFINE Same == /\ key'.material.participants = key.material.participants
                   /\ key'.material.threshold = key.material.threshold
           A == key.state # "Created" /\ key'.keyId = key.keyId => Same
<1>1. KeyInv /\ [KeyNext]_lifecycle => [A]_lifecycle
  <2> SUFFICES ASSUME KeyInv, KeyNext, key.state # "Created", key'.keyId = key.keyId
               PROVE  Same
    BY DEF lifecycle
  <2> USE DEF KeyInv
  <2>1. CASE UNCHANGED <<key, begun, driver>>
    BY <2>1
  <2>2. ~Dkg
    BY DEF Dkg
  <2>3. CASE Refresh \/ Retire
    BY <2>3, RefreshOrRetire
  <2>4. ASSUME NEW id \in RotationIds, BeginRotation(id) PROVE Same
    BY <2>4, RotatingFields DEF BeginRotation, KeyOK
  <2>5. CASE KeyRestored
    BY <2>5 DEF KeyRestored
  <2>6. ASSUME NEW id \in RotationIds, KeyRotated(id) PROVE FALSE
    <3>1. key.keyId = KeyId(key.groupKey, key.material.threshold, key.version)
          /\ key.version \in Nat
      BY DEF KeyOK, Key
    <3>2. key.keyId = KeyId(key.groupKey, rotations[id].threshold, key.version + 1)
      BY <2>6, RotatedState
    <3>3. key.version = key.version + 1
      BY <3>1, <3>2 DEF KeyId
    <3> QED
      BY <3>1, <3>3
  <2> QED
    BY <2>1, <2>2, <2>3, <2>4, <2>5, <2>6, KeyKinds
<1> QED
  BY <1>1, KeyInvariant, PTL DEF KeySpec, KeyIdNamesSet

----------------------------------------------------------------------------
(* Versions and completed requests *)

CompletedIds == {id \in RotationIds : rotations[id].status = "Completed"}

LEMMA CompletedMoves ==
  ASSUME RequestsOK, NEW id \in RotationIds, Kept(id),
         rotations[id].status # "Completed"
  PROVE  CompletedIds' = IF rotations'[id].status = "Completed"
                         THEN CompletedIds \cup {id} ELSE CompletedIds
  BY DEF Kept, CompletedIds

LEMMA HistoryKinds ==
  ASSUME NoOverflow, KeyInv, driver = "governed", [KeyNext]_lifecycle
  PROVE  \/ UNCHANGED CompletedIds /\ key'.version = key.version
         \/ UNCHANGED CompletedIds /\ key.version = 0 /\ key'.version = 1
         \/ \E id \in RotationIds :
               /\ CanBegin(id)
               /\ CompletedIds' = CompletedIds \cup {id}
               /\ key'.version = key.version + 1
<1> USE DEF KeyInv
<1>1. CASE UNCHANGED lifecycle
  BY <1>1 DEF lifecycle, rotationVars, keyVars, CompletedIds
<1>2. CASE Clock /\ UNCHANGED keyVars
  BY <1>2 DEF Clock, keyVars, CompletedIds
<1>3. CASE ProposalStep /\ UNCHANGED keyVars
  <2>1. ASSUME NEW id \in RotationIds, NEW p \in Proposals, InitiateRotation(id, p)
        PROVE  UNCHANGED CompletedIds
    <3>1. /\ Kept(id) /\ rotations[id].status # "Completed"
          /\ rotations'[id].status # "Completed"
      BY <2>1, InitiateKeeps DEF NoRotation
    <3> QED
      BY <3>1, CompletedMoves
  <2>2. ASSUME NEW id \in RotationIds, NEW g \in Guardians, ApproveRotation(id, g)
        PROVE  UNCHANGED CompletedIds
    BY <2>2, ApproveKeeps, CompletedMoves
  <2>3. ASSUME NEW id \in RotationIds, CancelRotation(id)
        PROVE  UNCHANGED CompletedIds
    <3>1. StatusMove(id, "Cancelled") /\ rotations[id].status # "Completed"
      BY <2>3 DEF CancelRotation, StatusMove, SettledRotation, LiveRotation
    <3>2. Kept(id) /\ rotations' =
              [rotations EXCEPT ![id] = [rotations[id] EXCEPT !.status = "Cancelled"]]
      BY <3>1, MoveKeeps DEF SettledRotation
    <3>3. rotations'[id].status = "Cancelled"
      BY <3>2 DEF RequestsOK, Rotation
    <3> QED
      BY <3>1, <3>2, <3>3, CompletedMoves
  <2> QED
    BY <1>3, <2>1, <2>2, <2>3 DEF ProposalStep, keyVars
<1>4. CASE Dkg
  <2>1. key.version = 0 /\ key'.version = 1
    BY <1>4 DEF Dkg, KeyOK, Created
  <2> QED
    BY <1>4, <2>1 DEF Dkg, rotationVars, CompletedIds
<1>5. CASE Refresh \/ Retire
  BY <1>5, RefreshOrRetire DEF CompletedIds
<1>6. ASSUME NEW id \in RotationIds, RotateWithRequest(id)
      PROVE  \/ UNCHANGED CompletedIds /\ key'.version = key.version
             \/ /\ CanBegin(id)
                /\ CompletedIds' = CompletedIds \cup {id}
                /\ key'.version = key.version + 1
  <2>1. CanBegin(id) /\ rotations[id].status = "QuorumReached"
    BY <1>6, BegunEarned DEF RotateWithRequest
  <2> DEFINE r == rotations[id]
             m == [r EXCEPT !.status = "Resharing"]
  <2>2. key \in Key /\ r \in Rotation
    BY DEF KeyOK, RequestsOK
  <2>3. ASSUME NEW status \in {"Completed", "Failed"},
               rotations' = [rotations EXCEPT ![id] = [m EXCEPT !.status = status]]
        PROVE  CompletedIds' = IF status = "Completed" THEN CompletedIds \cup {id}
                               ELSE CompletedIds
    <3>1. StatusMove(id, status)
      BY <2>1, <2>3 DEF StatusMove, Marked, SettledRotation, LiveRotation, Granted
    <3>2. Kept(id) /\ rotations' =
              [rotations EXCEPT ![id] = [rotations[id] EXCEPT !.status = status]]
      BY <3>1, MoveKeeps DEF SettledRotation
    <3>3. rotations'[id].status = status
      BY <3>2, <2>2 DEF RequestsOK, Rotation
    <3> QED
      BY <2>1, <3>2, <3>3, CompletedMoves
  <2>4. ASSUME NEW run \in ProtocolRun, RunAccepted(key.material, run),
               key' = Rotated(Rotating(key), m, run),
               rotations' = [rotations EXCEPT ![id] = [m EXCEPT !.status = "Completed"]]
        PROVE  /\ CompletedIds' = CompletedIds \cup {id}
               /\ key'.version = key.version + 1
    <3>1. key' = Rotated(key, r, run)
      BY <2>2, <2>4, MarkedRequest
    <3>2. KeyRotated(id)
      BY <2>1, <2>4, <3>1 DEF KeyRotated
    <3> QED
      BY <2>1, <2>3, <2>4, <3>2, RotatedState
  <2>5. CASE /\ key' = Restored(Rotating(key))
             /\ rotations' = [rotations EXCEPT ![id] = [m EXCEPT !.status = "Failed"]]
    <3>1. Rotating(key) \in Key /\ Rotating(key).version = key.version
      BY <2>2, RotatingFields
    <3>2. key'.version = key.version
      BY <2>5, <3>1, RestoredFields
    <3> QED
      BY <2>3, <2>5, <3>2
  <2> QED
    BY <1>6, <2>1, <2>4, <2>5 DEF RotateWithRequest, RotationAccepted
<1>7. ~StepwiseStep
  BY DEF StepwiseStep
<1> QED
  BY <1>1, <1>2, <1>3, <1>4, <1>5, <1>6, <1>7 DEF KeyNext, GovernedStep

LEMMA HistoryStep ==
  ASSUME NoOverflow, KeyInv, VersionHistory, [KeyNext]_lifecycle
  PROVE  VersionHistory'
<1> USE DEF KeyInv
<1> SUFFICES ASSUME driver = "governed"
             PROVE  VersionHistory'
  <2>1. driver' = driver
    BY KeyKinds DEF Dkg, Refresh, Retire, BeginRotation
  <2> QED
    BY <2>1 DEF VersionHistory
<1>1. /\ \A id \in CompletedIds : Earned(rotations[id], rotations[id].oldVersion)
      /\ \A i, j \in CompletedIds :
            rotations[i].oldVersion = rotations[j].oldVersion => i = j
      /\ {rotations[id].oldVersion : id \in CompletedIds} = 1 .. key.version - 1
  BY DEF VersionHistory, CompletedIds
<1>2. ASSUME NEW id \in RotationIds, NEW v, Earned(rotations[id], v)
      PROVE  Earned(rotations[id], rotations[id].oldVersion)' /\ rotations'[id].oldVersion = v
  BY <1>2, EarnedStays DEF Earned
<1>3. key.version \in Nat /\ CompletedIds \subseteq RotationIds
  BY DEF KeyOK, Key, CompletedIds
<1>4. \A id \in CompletedIds : rotations'[id].oldVersion = rotations[id].oldVersion
  BY <1>1, <1>2, <1>3
<1>5. CASE UNCHANGED CompletedIds /\ 1 .. key'.version - 1 = 1 .. key.version - 1
  <2>1. \A id \in CompletedIds' : Earned(rotations[id], rotations[id].oldVersion)'
    BY <1>1, <1>2, <1>3, <1>5
  <2>2. \A i, j \in CompletedIds' :
            rotations'[i].oldVersion = rotations'[j].oldVersion => i = j
    BY <1>1, <1>4, <1>5
  <2>3. {rotations'[id].oldVersion : id \in CompletedIds'} = 1 .. key'.version - 1
    <3>1. {rotations'[id].oldVersion : id \in CompletedIds}
              = {rotations[id].oldVersion : id \in CompletedIds}
      BY <1>4
    <3> QED
      BY <1>1, <1>5, <3>1
  <2> QED
    BY <2>1, <2>2, <2>3 DEF VersionHistory, CompletedIds
<1>6. ASSUME NEW id \in RotationIds, CanBegin(id),
             CompletedIds' = CompletedIds \cup {id}, key'.version = key.version + 1
      PROVE  VersionHistory'
  <2>1. Earned(rotations[id], key.version) /\ key.version >= 1
    BY <1>6, BegunEarned DEF CanBegin, CanMutate, KeyOK
  <2>2. rotations'[id].oldVersion = key.version
    BY <1>2, <2>1
  <2>3. \A i \in CompletedIds : rotations[i].oldVersion # key.version
    <3>1. \A i \in CompletedIds : rotations[i].oldVersion \in 1 .. key.version - 1
      BY <1>1
    <3> QED
      BY <1>3, <3>1
  <2>4. \A i \in CompletedIds' : Earned(rotations[i], rotations[i].oldVersion)'
    BY <1>1, <1>2, <1>3, <1>6, <2>1
  <2>5. \A i, j \in CompletedIds' :
            rotations'[i].oldVersion = rotations'[j].oldVersion => i = j
    BY <1>1, <1>4, <1>6, <2>2, <2>3
  <2>6. {rotations'[i].oldVersion : i \in CompletedIds'} = 1 .. key'.version - 1
    <3>1. {rotations'[i].oldVersion : i \in CompletedIds'}
              = {rotations'[i].oldVersion : i \in CompletedIds} \cup {key.version}
      BY <1>6, <2>2
    <3>2. {rotations'[i].oldVersion : i \in CompletedIds}
              = {rotations[i].oldVersion : i \in CompletedIds}
      BY <1>4
    <3>3. (1 .. key.version - 1) \cup {key.version} = 1 .. key.version
      BY <1>3, <2>1
    <3>4. key'.version - 1 = key.version
      BY <1>3, <1>6
    <3> QED
      BY <1>1, <3>1, <3>2, <3>3, <3>4
  <2> QED
    BY <2>4, <2>5, <2>6 DEF VersionHistory, CompletedIds
<1>7. CASE UNCHANGED CompletedIds /\ key.version = 0 /\ key'.version = 1
  <2>1. 1 .. key'.version - 1 = 1 .. key.version - 1
    <3>1. 1 .. 0 = {} /\ 1 .. (-1) = {}
      OBVIOUS
    <3>2. key'.version - 1 = 0 /\ key.version - 1 = -1
      BY <1>7
    <3> QED
      BY <3>1, <3>2
  <2> QED
    BY <1>5, <1>7, <2>1
<1>8. CASE UNCHANGED CompletedIds /\ key'.version = key.version
  BY <1>5, <1>8
<1> QED
  BY <1>6, <1>7, <1>8, HistoryKinds

(* Under rotate_with_request, every version of the key but the current one *)
(* was replaced by exactly one completed request, which had earned it.     *)
THEOREM VersionsAreHistory ==
  ASSUME NoOverflow
  PROVE  KeySpec => []VersionHistory
<1>1. KeyInit => VersionHistory
  <2> SUFFICES ASSUME KeyInit PROVE VersionHistory
    OBVIOUS
  <2>1. \A id \in RotationIds : rotations[id].status # "Completed"
    BY DEF KeyInit, RotationInit, NoRotation
  <2>2. {id \in RotationIds : rotations[id].status = "Completed"} = {}
    BY <2>1
  <2>3. 1 .. key.version - 1 = {}
    <3>1. key.version = 0
      BY DEF KeyInit, Created
    <3> QED
      BY <3>1
  <2> QED
    BY <2>2, <2>3 DEF VersionHistory
<1>2. KeyInv /\ VersionHistory /\ [KeyNext]_lifecycle => VersionHistory'
  BY HistoryStep
<1> QED
  BY <1>1, <1>2, KeyInvariant, PTL DEF KeySpec

----------------------------------------------------------------------------
(* Signing: any number of providers, made at any moment of the key's life  *)
(* and kept for ever. The invariant of the lifecycle carries over          *)
(* (LifecycleKept). ClonesOK adds what ties a clone to the key: its        *)
(* version is not above the key's, and a clone of the key's own version    *)
(* has the key's participants and threshold, because only a rotation       *)
(* changes those and every rotation takes a new version.                   *)

Clone(c) ==
    /\ c.material.groupKey = GroupKey
    /\ c.version \in Nat
    /\ c.version <= key.version
    /\ c.version = key.version =>
          /\ c.material.participants = key.material.participants
          /\ c.material.threshold = key.material.threshold

ClonesOK ==
    /\ key.state # "Created" => key.material.groupKey = GroupKey
    /\ \A p \in ProviderIds :
          providers[p] # NoProvider => key.state # "Created" /\ Clone(providers[p])

(* Providers leave the lifecycle as it is. *)
LEMMA LifecycleKept ==
  ASSUME [SigningNext]_signing
  PROVE  [KeyNext]_lifecycle
  BY DEF SigningNext, signing, NewProvider

LEMMA LifecycleInvariant ==
  ASSUME NoOverflow
  PROVE  SigningSpec => []KeyInv
<1>1. SigningInit => KeyInv
  BY KeyInitially DEF SigningInit
<1>2. KeyInv /\ [SigningNext]_signing => KeyInv'
  BY LifecycleKept, RequestsStep, KeyStep, EarnedStep, LockStep DEF KeyInv
<1> QED
  BY <1>1, <1>2, PTL DEF SigningSpec

(* What a step of the lifecycle does to the shares: nothing, or it makes   *)
(* the first ones, or it replaces them under a new version; the group key  *)
(* stays.                                                                  *)
LEMMA SharesKinds ==
  ASSUME KeyInv, [KeyNext]_lifecycle
  PROVE  \/ UNCHANGED key
         \/ /\ key.state = "Created" /\ key'.state # "Created"
            /\ key'.material.groupKey = GroupKey
         \/ /\ key.state # "Created" /\ key'.state # "Created"
            /\ key'.material.groupKey = key.material.groupKey
            /\ \/ /\ key'.version = key.version
                  /\ key'.material.participants = key.material.participants
                  /\ key'.material.threshold = key.material.threshold
               \/ key'.version = key.version + 1
<1> USE DEF KeyInv
<1>1. key \in Key
  BY DEF KeyOK
<1>2. CASE Dkg
  <2>1. PICK run \in ProtocolRun :
            /\ run.vk = GroupKey
            /\ key' = [state |-> "Active", material |-> Generated(run.vk), version |-> 1,
                       keyId |-> KeyId(run.vk, Generated(run.vk).threshold, 1),
                       groupKey |-> run.vk, locked |-> FALSE]
    BY <1>2 DEF Dkg
  <2>2. key.state = "Created"
    BY <1>2 DEF Dkg
  <2>3. key'.state = "Active" /\ key'.material = Generated(GroupKey)
    BY <2>1
  <2>4. Generated(GroupKey).groupKey = GroupKey
    BY DEF Generated
  <2> QED
    BY <2>2, <2>3, <2>4
<1>3. CASE Refresh \/ Retire
  BY <1>3, RefreshOrRetire
<1>4. ASSUME NEW id \in RotationIds, BeginRotation(id)
      PROVE  /\ key.state # "Created" /\ key'.state # "Created"
             /\ key'.material = key.material /\ key'.version = key.version
  BY <1>1, <1>4, RotatingFields DEF BeginRotation, CanBegin, CanMutate
<1>5. CASE InUse /\ KeyRestored
  BY <1>5 DEF InUse, KeyRestored
<1>6. ASSUME InUse, NEW id \in RotationIds, KeyRotated(id)
      PROVE  /\ key.state # "Created" /\ key'.state # "Created"
             /\ key'.material.groupKey = key.material.groupKey
             /\ key'.version = key.version + 1
  BY <1>6, RotatedState DEF InUse
<1> QED
  BY <1>2, <1>3, <1>4, <1>5, <1>6, KeyKinds

LEMMA ClonesStep ==
  ASSUME KeyInv, KeyInv', ClonesOK, providers \in [ProviderIds -> Provider \cup {NoProvider}],
         [SigningNext]_signing
  PROVE  ClonesOK'
<1> USE DEF KeyInv
<1>1. key.version \in Nat /\ key'.version \in Nat
  BY DEF KeyOK, Key
<1>2. CASE [KeyNext]_lifecycle /\ UNCHANGED providers
  <2>1. key'.state # "Created" => key'.material.groupKey = GroupKey
    BY <1>2, SharesKinds DEF ClonesOK
  <2>2. ASSUME NEW p \in ProviderIds, providers[p] # NoProvider
        PROVE  key'.state # "Created" /\ Clone(providers[p])'
    <3>1. key.state # "Created" /\ Clone(providers[p])
      BY <2>2 DEF ClonesOK
    <3>2. CASE UNCHANGED key
      BY <1>2, <3>1, <3>2 DEF Clone
    <3>3. CASE /\ key'.state # "Created" /\ key'.version = key.version
               /\ key'.material.participants = key.material.participants
               /\ key'.material.threshold = key.material.threshold
      BY <1>2, <3>1, <3>3 DEF Clone
    <3>4. CASE key'.state # "Created" /\ key'.version = key.version + 1
      <4>1. providers[p].version <= key'.version /\ providers[p].version # key'.version
        BY <1>1, <3>1, <3>4 DEF Clone
      <4> QED
        BY <1>2, <3>1, <3>4, <4>1 DEF Clone
    <3> QED
      BY <1>2, <3>1, <3>2, <3>3, <3>4, SharesKinds
  <2> QED
    BY <1>2, <2>1, <2>2 DEF ClonesOK
<1>3. ASSUME NEW p \in ProviderIds, NEW chain, NewProvider(p, chain)
      PROVE  ClonesOK'
  <2> DEFINE c == [material |-> key.material, chain |-> chain, version |-> key.version]
  <2>1. UNCHANGED key /\ providers' = [providers EXCEPT ![p] = c]
    BY <1>3 DEF NewProvider, lifecycle, keyVars
  <2>2. key.state # "Created"
    BY <1>3 DEF NewProvider, KeyOK, Created
  <2>3. c.material = key.material /\ c.version = key.version
    OBVIOUS
  <2> HIDE DEF c
  <2>4. Clone(c)
    BY <1>1, <2>2, <2>3 DEF Clone, ClonesOK
  <2>5. ASSUME NEW q \in ProviderIds, providers'[q] # NoProvider
        PROVE  Clone(providers'[q])
    <3>1. CASE q = p
      BY <2>1, <2>4, <3>1
    <3>2. CASE q # p
      BY <2>1, <2>5, <3>2 DEF ClonesOK
    <3> QED
      BY <3>1, <3>2
  <2>6. \A q \in ProviderIds : Clone(providers'[q]) => Clone(providers[q])'
    BY <2>1 DEF Clone
  <2> QED
    BY <2>1, <2>2, <2>5, <2>6 DEF ClonesOK
<1> QED
  BY <1>2, <1>3 DEF SigningNext, signing

(* A provider holds material of the key and a chain it was made for. *)
LEMMA ProvidersTyped ==
  ASSUME NoOverflow
  PROVE  SigningSpec => [](providers \in [ProviderIds -> Provider \cup {NoProvider}])
<1> DEFINE T == providers \in [ProviderIds -> Provider \cup {NoProvider}]
<1>1. SigningInit => T
  BY DEF SigningInit
<1>2. KeyInv /\ T /\ [SigningNext]_signing => T'
  <2> SUFFICES ASSUME KeyInv, T, SigningNext PROVE T'
    BY DEF signing
  <2>1. ASSUME NEW p \in ProviderIds, NEW chain \in Chains, NewProvider(p, chain)
        PROVE  T'
    <3> DEFINE c == [material |-> key.material, chain |-> chain, version |-> key.version]
    <3>1. c \in Provider
      BY DEF Provider, KeyInv, KeyOK, Key
    <3>2. providers' = [providers EXCEPT ![p] = c]
      BY <2>1 DEF NewProvider
    <3> HIDE DEF c
    <3> QED
      BY <3>1, <3>2
  <2> QED
    BY <2>1 DEF SigningNext
<1> QED
  BY <1>1, <1>2, LifecycleInvariant, PTL DEF SigningSpec

LEMMA ClonesInvariant ==
  ASSUME NoOverflow
  PROVE  SigningSpec => []ClonesOK
<1> DEFINE T == providers \in [ProviderIds -> Provider \cup {NoProvider}]
<1>1. SigningInit => ClonesOK
  BY DEF SigningInit, KeyInit, Created, ClonesOK
<1>2. KeyInv /\ KeyInv' /\ T /\ ClonesOK /\ [SigningNext]_signing => ClonesOK'
  BY ClonesStep
<1> QED
  BY <1>1, <1>2, LifecycleInvariant, ProvidersTyped, PTL DEF SigningSpec

----------------------------------------------------------------------------
(* Theorems *)

(* Whatever refreshes and rotations a key goes through, its shares and     *)
(* those of every clone are of the wallet's own key.                       *)
THEOREM WalletKeyKept ==
  ASSUME NoOverflow
  PROVE  SigningSpec => []OneWalletKey
<1>1. KeyInv /\ ClonesOK => OneWalletKey
  <2> SUFFICES ASSUME KeyInv, ClonesOK PROVE OneWalletKey
    OBVIOUS
  <2>1. key.material # NoMaterial => key.state # "Created"
    BY DEF KeyInv, KeyOK, Created
  <2>2. key.state # "Created" => key.groupKey = GroupKey
    BY DEF KeyInv, KeyOK
  <2> QED
    BY <2>1, <2>2 DEF ClonesOK, Clone, OneWalletKey
<1> QED
  BY <1>1, LifecycleInvariant, ClonesInvariant, PTL

(* A provider that the key lets sign, by its version, signs with a quorum  *)
(* of the present participants.                                            *)
THEOREM CheckedSignatureIsCurrent ==
  ASSUME NoOverflow
  PROVE  SigningSpec => []CheckedSignature
<1>1. KeyInv /\ ClonesOK => CheckedSignature
  <2> SUFFICES ASSUME KeyInv, ClonesOK,
                      NEW p \in ProviderIds, NEW subset \in Subsets, NEW b \in Bindings,
                      SigningAllowed(providers[p].version),
                      CanSign(providers[p], subset, b, b)
               PROVE  LET holders == Selected(providers[p].material, subset)
                      IN  /\ holders \subseteq Holders(key.material.participants)
                          /\ Cardinality(holders) >= key.material.threshold
    BY DEF CheckedSignature
  <2> DEFINE c == providers[p]
             m == c.material
             holders == Selected(m, subset)
  <2>1. c # NoProvider /\ c.version = key.version
    BY DEF CanSign, SigningAllowed
  <2>2. /\ m.participants = key.material.participants
        /\ m.threshold = key.material.threshold
    BY <2>1 DEF ClonesOK, Clone
  <2>3. /\ \A i \in 1 .. Len(subset) : subset[i] < Len(m.participants)
        /\ Cardinality(holders) >= m.threshold
    BY DEF CanSign, ThresholdSigns, Recovers
  <2>4. subset \in Seq(Nat)
    BY ProviderAssumption
  <2>5. key.material.participants \in Seq(Nat)
    BY DEF KeyInv, KeyOK, Key, Material
  <2>6. ASSUME NEW i \in 1 .. Len(subset)
        PROVE  m.participants[subset[i] + 1] \in Holders(key.material.participants)
    <3>1. subset[i] \in Nat /\ Len(m.participants) \in Nat
      BY <2>2, <2>4, <2>5
    <3>2. subset[i] + 1 \in 1 .. Len(m.participants)
      BY <2>3, <3>1
    <3> QED
      BY <2>2, <3>2 DEF Holders
  <2>7. holders \subseteq Holders(key.material.participants)
    BY <2>6 DEF Selected
  <2> QED
    BY <2>2, <2>3, <2>7
<1> QED
  BY <1>1, LifecycleInvariant, ClonesInvariant, PTL

----------------------------------------------------------------------------
(* Who takes part in a re-sharing                                           *)

(* The entry point of a participant is its own, in its roles.               *)
LEMMA EntryFields ==
  ASSUME NEW v, NEW old, NEW new
  PROVE  /\ EntryPoint(v, old, new).signer = v
         /\ EntryPoint(v, old, new).oldHolder <=> v \in Holders(old)
         /\ EntryPoint(v, old, new).newHolder <=> v \in Holders(new)
<1>1. EntryPoint(v, old, new).signer = v
  BY DEF EntryPoint
<1>2. EntryPoint(v, old, new).oldHolder = (v \in Holders(old))
  BY DEF EntryPoint
<1>3. EntryPoint(v, old, new).newHolder = (v \in Holders(new))
  BY DEF EntryPoint
<1> QED
  BY <1>1, <1>2, <1>3

(* A list of distinct holders and a list whose fresh ones are distinct.     *)
LEMMA PartsOnce ==
  ASSUME NEW old \in Seq(Nat), NEW new \in Seq(Nat), ~HasDuplicate(old),
         \A i, j \in 1 .. Len(new) :
            new[i] \notin Holders(old) /\ new[i] = new[j] => i = j
  PROVE  EachTakesPartOnce(EntryPoints(old, new), old, new)
<1>1. PICK everyone : everyone = old \o new
  OBVIOUS
<1>2. /\ Len(old) \in Nat /\ Len(new) \in Nat
      /\ Len(everyone) = Len(old) + Len(new)
      /\ \A q \in 1 .. Len(old) : everyone[q] = old[q]
      /\ \A q \in 1 .. Len(new) : everyone[Len(old) + q] = new[q]
  BY <1>1
<1>3. PICK places :
         places = {q \in 1 .. Len(everyone) :
                      q <= Len(old) \/ everyone[q] \notin Holders(old)}
  OBVIOUS
<1>4. PICK entries : entries = EntryPoints(old, new)
  OBVIOUS
<1>5. entries = [p \in places |-> EntryPoint(everyone[p], old, new)]
  BY <1>1, <1>3, <1>4, Zenon DEF EntryPoints
<1>6. /\ DOMAIN entries = places
      /\ \A p \in places : entries[p] = EntryPoint(everyone[p], old, new)
  BY <1>5, Zenon
<1>7. ASSUME NEW p \in places
      PROVE  /\ entries[p].signer = everyone[p]
             /\ entries[p].oldHolder <=> entries[p].signer \in Holders(old)
             /\ entries[p].newHolder <=> entries[p].signer \in Holders(new)
  <2>1. PICK v : v = everyone[p]
    OBVIOUS
  <2>2. entries[p] = EntryPoint(v, old, new)
    BY <1>6, <2>1
  <2>3. /\ EntryPoint(v, old, new).signer = v
        /\ EntryPoint(v, old, new).oldHolder <=> v \in Holders(old)
        /\ EntryPoint(v, old, new).newHolder <=> v \in Holders(new)
    BY EntryFields
  <2>4. entries[p].signer = v
    BY <2>2, <2>3
  <2> QED
    BY <2>1, <2>2, <2>3, <2>4, Zenon
<1>8. \A p \in places :
         \/ p \in 1 .. Len(old) /\ everyone[p] = old[p]
         \/ /\ p - Len(old) \in 1 .. Len(new) /\ everyone[p] = new[p - Len(old)]
            /\ everyone[p] \notin Holders(old)
  <2> SUFFICES ASSUME NEW p \in places, ~(p \in 1 .. Len(old))
               PROVE  /\ p - Len(old) \in 1 .. Len(new) /\ everyone[p] = new[p - Len(old)]
                      /\ everyone[p] \notin Holders(old)
    BY <1>2
  <2>1. p \in 1 .. Len(everyone) /\ p > Len(old) /\ everyone[p] \notin Holders(old)
    BY <1>2, <1>3
  <2>2. p - Len(old) \in 1 .. Len(new) /\ p = Len(old) + (p - Len(old))
    BY <1>2, <2>1
  <2> QED
    BY <1>2, <2>1, <2>2
<1>9. ASSUME NEW v \in Holders(old)
      PROVE  \E p \in places : everyone[p] = v
  <2>1. PICK i \in 1 .. Len(old) : v = old[i]
    BY DEF Holders
  <2>2. i \in places /\ everyone[i] = v
    BY <1>2, <1>3, <2>1
  <2> QED
    BY <2>2
<1>10. ASSUME NEW v \in Holders(new) \ Holders(old)
      PROVE  \E p \in places : everyone[p] = v
  <2>1. PICK i \in 1 .. Len(new) : v = new[i]
    BY DEF Holders
  <2>2. Len(old) + i \in 1 .. Len(everyone) /\ everyone[Len(old) + i] = v
    BY <1>2, <2>1
  <2> QED
    BY <1>3, <2>2
<1>11. \A p \in places : everyone[p] \in Holders(old) \cup Holders(new)
  BY <1>8 DEF Holders
<1>12. {entries[p].signer : p \in DOMAIN entries} = Holders(old) \cup Holders(new)
  <2>1. {entries[p].signer : p \in DOMAIN entries} = {entries[p].signer : p \in places}
    BY <1>6
  <2>2. \A p \in places : entries[p].signer = everyone[p]
    BY <1>7
  <2>3. {entries[p].signer : p \in places} = Holders(old) \cup Holders(new)
    BY <1>9, <1>10, <1>11, <2>2
  <2> QED
    BY <2>1, <2>3
<1>13. ASSUME NEW p \in places, NEW q \in places, everyone[p] = everyone[q]
       PROVE  p = q
  <2>1. CASE p \in 1 .. Len(old) /\ everyone[p] = old[p]
    <3>1. everyone[q] \in Holders(old)
      BY <1>13, <2>1 DEF Holders
    <3>2. q \in 1 .. Len(old) /\ everyone[q] = old[q]
      BY <1>8, <3>1
    <3> QED
      BY <1>13, <2>1, <3>2 DEF HasDuplicate
  <2>2. CASE /\ p - Len(old) \in 1 .. Len(new) /\ everyone[p] = new[p - Len(old)]
             /\ everyone[p] \notin Holders(old)
    <3>1. ~(q \in 1 .. Len(old) /\ everyone[q] = old[q])
      BY <1>13, <2>2 DEF Holders
    <3>2. q - Len(old) \in 1 .. Len(new) /\ everyone[q] = new[q - Len(old)]
      BY <1>8, <3>1
    <3>3. p - Len(old) = q - Len(old)
      BY <1>13, <2>2, <3>2
    <3>4. p \in Int /\ q \in Int
      BY <1>2, <1>3
    <3> QED
      BY <1>2, <3>3, <3>4
  <2> QED
    BY <1>8, <2>1, <2>2
<1>14. \A p, q \in DOMAIN entries : entries[p].signer = entries[q].signer => p = q
  BY <1>6, <1>7, <1>13, Zenon
<1>15. \A p \in DOMAIN entries :
          /\ entries[p].oldHolder <=> entries[p].signer \in Holders(old)
          /\ entries[p].newHolder <=> entries[p].signer \in Holders(new)
  BY <1>6, <1>7, Zenon
<1>16. EachTakesPartOnce(entries, old, new)
  BY <1>12, <1>14, <1>15, Zenon DEF EachTakesPartOnce
<1> QED
  BY <1>4, <1>16, Zenon

(* Resolved names that are not present participants are numbered apart.     *)
LEMMA FreshApart ==
  ASSUME NEW old \in Seq(Nat), NEW names \in Seq(Names), Len(names) <= 256,
         NEW i \in 1 .. Len(names), NEW j \in 1 .. Len(names),
         Resolve(old, names)[i] \notin Holders(old),
         Resolve(old, names)[i] = Resolve(old, names)[j]
  PROVE  i = j
<1>1. ASSUME NEW k \in 1 .. Len(names), Resolve(old, names)[k] \notin Holders(old)
      PROVE  Resolve(old, names)[k] = (100 + k - 1) % 256
  <2>1. names[k] \in Names
    OBVIOUS
  <2>2. Alias[names[k]] \in Nat /\ Len(old) \in Nat
    BY <2>1, MaterialAssumption
  <2>3. CASE Alias[names[k]] < Len(old)
    <3>1. Alias[names[k]] + 1 \in 1 .. Len(old)
      BY <2>2, <2>3
    <3>2. Resolve(old, names)[k] = old[Alias[names[k]] + 1]
      BY <2>3 DEF Resolve
    <3> QED
      BY <1>1, <3>1, <3>2 DEF Holders
  <2> QED
    BY <2>2, <2>3 DEF Resolve
<1>2. (100 + i - 1) % 256 = (100 + j - 1) % 256
  BY <1>1
<1>3. ASSUME NEW k \in 1 .. 256
      PROVE  \/ k < 157 /\ (100 + k - 1) % 256 = k + 99
             \/ k > 156 /\ (100 + k - 1) % 256 = k - 157
  <2>1. PICK n \in Nat : n = k + 99 /\ n = 100 + k - 1
    OBVIOUS
  <2>2. PICK r \in 0 .. 255, d \in Int : r = n % 256 /\ n = 256 * d + r
    <3>1. n % 256 \in 0 .. 255 /\ n \div 256 \in Int /\ n = 256 * (n \div 256) + (n % 256)
      BY <2>1
    <3> QED
      BY <3>1
  <2>3. n < 356 /\ k \in Int
    BY <2>1
  <2>4. (k < 157 /\ r = k + 99) \/ (k > 156 /\ r = k - 157)
    <3>1. d = 0 \/ d = 1
      BY <2>1, <2>2, <2>3
    <3> QED
      BY <2>1, <2>2, <2>3, <3>1
  <2> QED
    BY <2>1, <2>2, <2>4
<1>4. i \in 1 .. 256 /\ j \in 1 .. 256
  OBVIOUS
<1>5. PICK x \in Nat : x = (100 + i - 1) % 256
  BY <1>3, <1>4
<1>6. (i < 157 /\ x = i + 99) \/ (i > 156 /\ x = i - 157)
  BY <1>3, <1>4, <1>5
<1>7. (j < 157 /\ x = j + 99) \/ (j > 156 /\ x = j - 157)
  BY <1>2, <1>3, <1>4, <1>5
<1> QED
  BY <1>4, <1>5, <1>6, <1>7

(* Generation, every refresh and every rotation that can be asked for run   *)
(* with each old and each new holder once, in its roles.                    *)
THEOREM HoldersComplete ==
  ASSUME NoOverflow
  PROVE  SigningSpec => []HoldersTakePart
<1>1. KeyInv => HoldersTakePart
  <2> SUFFICES ASSUME KeyInv PROVE HoldersTakePart
    OBVIOUS
  <2> DEFINE old == key.material.participants
  <2>1. old \in Seq(Nat)
    BY DEF KeyInv, KeyOK, Key, Material
  <2>2. EachTakesPartOnce(GenerationEntries, KeyInitHolders, <<0, 1, 2>>)
    <3>1. KeyInitHolders \in Seq(Nat) /\ <<0, 1, 2>> \in Seq(Nat)
      BY DEF KeyInitHolders
    <3>2. ~HasDuplicate(KeyInitHolders)
      BY DEF HasDuplicate, KeyInitHolders
    <3>3. \A i, j \in 1 .. Len(<<0, 1, 2>>) :
             <<0, 1, 2>>[i] = <<0, 1, 2>>[j] => i = j
      OBVIOUS
    <3> QED
      BY <3>1, <3>2, <3>3, PartsOnce DEF GenerationEntries
  <2> HIDE DEF old
  <2>3. ASSUME ~HasDuplicate(old)
        PROVE  EachTakesPartOnce(EntryPoints(old, old), old, old)
    <3>1. \A i \in 1 .. Len(old) : old[i] \in Holders(old)
      BY DEF Holders
    <3> QED
      BY <2>1, <2>3, <3>1, PartsOnce
  <2>4. ASSUME ~HasDuplicate(old), NEW id \in RotationIds, Len(rotations[id].newSet) <= 256
        PROVE  EachTakesPartOnce(EntryPoints(old, Resolve(old, rotations[id].newSet)),
                                 old, Resolve(old, rotations[id].newSet))
    <3>1. rotations[id].newSet \in Seq(Names)
      BY DEF KeyInv, RequestsOK, Rotation
    <3>2. PICK names \in Seq(Names) : names = rotations[id].newSet
      BY <3>1
    <3>3. PICK new \in Seq(Nat) : new = Resolve(old, names) /\ Len(new) = Len(names)
      BY <2>1, ResolveType
    <3>4. \A i, j \in 1 .. Len(new) : new[i] \notin Holders(old) /\ new[i] = new[j] => i = j
      BY <2>1, <2>4, <3>2, <3>3, FreshApart
    <3> QED
      BY <2>1, <2>4, <3>2, <3>3, <3>4, PartsOnce
  <2> QED
    BY <2>2, <2>3, <2>4 DEF HoldersTakePart, RefreshEntries, RotationEntries, old
<1> QED
  BY <1>1, LifecycleInvariant, PTL
=============================================================================
