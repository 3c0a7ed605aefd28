----------------------- MODULE RequestLifecycle_proofs -----------------------
(***************************************************************************)
(* What the reference state machine promises, for any number of requests,  *)
(* guardians and timelocks: in a build that checks its additions, a        *)
(* request is finalized only after its quorum and its timelock.            *)
(***************************************************************************)
EXTENDS RequestLifecycle, TLAPS

Statuses == {"None", "Pending", "QuorumReached", "Executed", "Cancelled"}

Record == [replacedDevice : Devices \cup {NoDevice}, newDevice : Devices \cup {NoDevice},
           initiatedAt : Nat, executeAfter : Nat, quorumSnapshot : Nat,
           timelockSnapshot : Nat, approvals : SUBSET Guardians, status : Statuses]

(* The inductive invariant, for one request at time t: its snapshot is no   *)
(* shorter than the minimum; past the quorum the approvals are there and    *)
(* the deadline is no earlier than the minimum timelock allows; and an      *)
(* executed request was finalized after its deadline.                       *)
Sound(r, t) ==
    r.status # "None" =>
        /\ r.initiatedAt <= t
        /\ r.timelockSnapshot >= MIN_TIMELOCK_SECONDS
        /\ r.status \in {"QuorumReached", "Executed"} =>
               /\ Cardinality(r.approvals) >= r.quorumSnapshot
               /\ r.executeAfter >= r.initiatedAt + MIN_TIMELOCK_SECONDS
        /\ r.status = "Executed" => t >= r.executeAfter

LifecycleInv ==
    /\ LifecycleTypeOK
    /\ \A id \in Ids : Sound(request[id], now)

LEMMA TypeMeans == LifecycleTypeOK <=> now \in Nat /\ request \in [Ids -> Record]
  BY DEF LifecycleTypeOK, Record, Statuses

LEMMA RecordFields ==
    ASSUME NEW r \in Record
    PROVE  /\ r.initiatedAt \in Nat /\ r.executeAfter \in Nat /\ r.quorumSnapshot \in Nat
           /\ r.timelockSnapshot \in Nat /\ r.approvals \in SUBSET Guardians
           /\ r.status \in Statuses
  BY DEF Record

(* A sum that fits is stored as it is.                                      *)
LEMMA FittingDeadline ==
    ASSUME OverflowWraps = FALSE, now \in Nat, NEW r \in Record, DeadlineFits(r)
    PROVE  Deadline(r) = now + r.timelockSnapshot
<1>1. r.timelockSnapshot \in Nat
  BY RecordFields
<1>2. now + r.timelockSnapshot \in 0 .. U64_MAX
  BY <1>1 DEF DeadlineFits
<1>3. \A a \in 0 .. U64_MAX : a % (U64_MAX + 1) = a
  BY LifecycleAssumption
<1> QED
  BY <1>2, <1>3 DEF Deadline

LEMMA LifecycleInitially == LifecycleInit => LifecycleInv
<1> SUFFICES ASSUME LifecycleInit
             PROVE  LifecycleInv
  OBVIOUS
<1>1. None \in Record /\ None.status = "None"
  BY DEF None, Record, Statuses
<1> QED
  BY <1>1, TypeMeans DEF LifecycleInit, LifecycleInv, Sound

(* A step that changes one request, to a sound record.                      *)
LEMMA OneChanged ==
    ASSUME LifecycleInv, NEW id \in Ids, NEW s \in Record, Sound(s, now),
           request' = [request EXCEPT ![id] = s], UNCHANGED now
    PROVE  /\ now' \in Nat
           /\ request' \in [Ids -> Record]
           /\ \A other \in Ids : Sound(request'[other], now')
<1>1. now \in Nat /\ request \in [Ids -> Record]
  BY TypeMeans DEF LifecycleInv
<1>2. \A other \in Ids : request'[other] = IF other = id THEN s ELSE request[other]
  BY <1>1
<1>3. \A other \in Ids : Sound(request[other], now)
  BY DEF LifecycleInv
<1> QED
  BY <1>1, <1>2, <1>3

LEMMA ApproveStep ==
    ASSUME OverflowWraps = FALSE, LifecycleInv, NEW id \in Ids, NEW g \in Guardians,
           Approve(id, g)
    PROVE  \E s \in Record : Sound(s, now) /\ request' = [request EXCEPT ![id] = s]
<1> DEFINE r == request[id]
           voters == r.approvals \cup {g}
           complete == Cardinality(voters) >= r.quorumSnapshot
           s == [r EXCEPT !.approvals = voters,
                          !.status = IF complete THEN "QuorumReached" ELSE @,
                          !.executeAfter = IF complete THEN Deadline(r) ELSE @]
<1>1. now \in Nat /\ r \in Record /\ Sound(r, now)
  BY TypeMeans DEF LifecycleInv
<1>2. r.status = "Pending" /\ (complete => DeadlineFits(r))
  BY DEF Approve, Allows
<1>3. /\ r.initiatedAt \in Nat /\ r.executeAfter \in Nat /\ r.timelockSnapshot \in Nat
      /\ r.quorumSnapshot \in Nat /\ r.approvals \subseteq Guardians
  BY <1>1, RecordFields
<1>4. complete => Deadline(r) = now + r.timelockSnapshot
  BY <1>1, <1>2, FittingDeadline
<1>5. r.initiatedAt <= now /\ r.timelockSnapshot >= MIN_TIMELOCK_SECONDS
  BY <1>1, <1>2 DEF Sound
<1>6. CASE complete
  <2>1. s = [r EXCEPT !.approvals = voters, !.status = "QuorumReached",
                      !.executeAfter = now + r.timelockSnapshot]
    BY <1>4, <1>6
  <2>2. now + r.timelockSnapshot \in Nat
    BY <1>1, <1>3
  <2>3. s \in Record
    BY <1>1, <1>3, <2>1, <2>2 DEF Record, Statuses
  <2>4. /\ s.status = "QuorumReached" /\ s.approvals = voters
        /\ s.executeAfter = now + r.timelockSnapshot
        /\ s.initiatedAt = r.initiatedAt /\ s.quorumSnapshot = r.quorumSnapshot
        /\ s.timelockSnapshot = r.timelockSnapshot
    BY <1>1, <2>1 DEF Record
  <2>5. now + r.timelockSnapshot >= r.initiatedAt + MIN_TIMELOCK_SECONDS
    BY <1>1, <1>3, <1>5, LifecycleAssumption
  <2>6. Sound(s, now)
    BY <1>5, <1>6, <2>4, <2>5 DEF Sound
  <2> QED
    BY <2>3, <2>6 DEF Approve
<1>7. CASE ~complete
  <2>1. s = [r EXCEPT !.approvals = voters]
    BY <1>1, <1>7 DEF Record
  <2>2. s \in Record
    BY <1>1, <1>3, <2>1 DEF Record
  <2>3. s.status = "Pending" /\ s.initiatedAt = r.initiatedAt
        /\ s.timelockSnapshot = r.timelockSnapshot
    BY <1>1, <1>2, <2>1 DEF Record
  <2>4. Sound(s, now)
    BY <1>5, <2>3 DEF Sound
  <2> QED
    BY <2>2, <2>4 DEF Approve
<1> QED
  BY <1>6, <1>7

LEMMA LifecycleStep ==
    ASSUME OverflowWraps = FALSE, LifecycleInv, [LifecycleNext]_lifecycleVars
    PROVE  LifecycleInv'
<1>0. now \in Nat /\ request \in [Ids -> Record]
  BY TypeMeans DEF LifecycleInv
<1> SUFFICES /\ now' \in Nat
             /\ request' \in [Ids -> Record]
             /\ \A id \in Ids : Sound(request'[id], now')
  BY DEF LifecycleInv, LifecycleTypeOK, Record, Statuses, Sound
<1>1. CASE UNCHANGED lifecycleVars
  BY <1>0, <1>1 DEF lifecycleVars, LifecycleInv
<1>2. CASE Advance
  <2>1. now' = now + 1 /\ request' = request
    BY <1>2 DEF Advance
  <2>2. ASSUME NEW id \in Ids
        PROVE  Sound(request[id], now')
    <3>1. Sound(request[id], now) /\ request[id] \in Record
      BY <1>0 DEF LifecycleInv
    <3>2. request[id].initiatedAt \in Nat /\ request[id].executeAfter \in Nat
      BY <3>1, RecordFields
    <3> QED
      BY <1>0, <2>1, <3>1, <3>2 DEF Sound
  <2> QED
    BY <1>0, <2>1, <2>2
<1>3. ASSUME NEW id \in Ids, NEW replaced \in Devices \cup {NoDevice}, NEW new \in Devices,
             NEW n \in 0 .. Cardinality(Guardians), NEW seconds \in Timelocks,
             NEW q \in 1 .. n, Initiate(id, replaced, new, n, q, seconds)
      PROVE  \E s \in Record : Sound(s, now) /\ request' = [request EXCEPT ![id] = s]
  <2> DEFINE s == [replacedDevice |-> replaced, newDevice |-> new, initiatedAt |-> now,
                   executeAfter |-> 0, quorumSnapshot |-> q, timelockSnapshot |-> seconds,
                   approvals |-> {}, status |-> "Pending"]
  <2>1. q \in Nat /\ seconds \in Nat
    BY LifecycleAssumption
  <2>2. s \in Record
    BY <1>0, <2>1 DEF Record, Statuses
  <2>3. Sound(s, now)
    BY <1>0, <1>3 DEF Initiate, Sound
  <2> QED
    BY <1>3, <2>2, <2>3 DEF Initiate
<1>4. ASSUME NEW id \in Ids, NEW status \in {"Executed", "Cancelled"},
             request' = [request EXCEPT ![id].status = status],
             request[id].status # "None",
             status = "Executed" =>
                request[id].status = "QuorumReached" /\ now >= request[id].executeAfter
      PROVE  \E s \in Record : Sound(s, now) /\ request' = [request EXCEPT ![id] = s]
  <2> DEFINE r == request[id]
             s == [r EXCEPT !.status = status]
  <2>1. r \in Record /\ Sound(r, now)
    BY <1>0 DEF LifecycleInv
  <2>2. s \in Record
    BY <2>1 DEF Record, Statuses
  <2>3. /\ s.status = status /\ s.approvals = r.approvals
        /\ s.executeAfter = r.executeAfter /\ s.initiatedAt = r.initiatedAt
        /\ s.quorumSnapshot = r.quorumSnapshot /\ s.timelockSnapshot = r.timelockSnapshot
    BY <2>1 DEF Record
  <2>4. Sound(s, now)
    BY <1>4, <2>1, <2>3 DEF Sound
  <2>5. request' = [request EXCEPT ![id] = s]
    BY <1>0, <1>4
  <2> QED
    BY <2>2, <2>4, <2>5
<1>5. ASSUME NEW id \in Ids, Cancel(id)
      PROVE  \E s \in Record : Sound(s, now) /\ request' = [request EXCEPT ![id] = s]
  BY <1>4, <1>5 DEF Cancel, Allows, IsLive
<1>6. ASSUME NEW id \in Ids, Finalize(id)
      PROVE  \E s \in Record : Sound(s, now) /\ request' = [request EXCEPT ![id] = s]
  <2>1. request[id].status \in Statuses
    BY <1>0, RecordFields
  <2>2. Effective(request[id]) = "Executable"
    BY <1>6 DEF Finalize, Allows
  <2>3. request[id].status = "QuorumReached" /\ now >= request[id].executeAfter
    BY <2>1, <2>2 DEF Effective, Statuses
  <2> QED
    BY <1>4, <1>6, <2>3 DEF Finalize
<1>7. ASSUME NEW id \in Ids, NEW g \in Guardians, Approve(id, g)
      PROVE  \E s \in Record : Sound(s, now) /\ request' = [request EXCEPT ![id] = s]
  BY <1>7, ApproveStep
(* Every other step changes one request.                                    *)
<1>8. CASE ~Advance /\ ~UNCHANGED lifecycleVars
  <2>1. PICK id \in Ids :
           \/ \E replaced \in Devices \cup {NoDevice}, new \in Devices,
                 n \in 0 .. Cardinality(Guardians), seconds \in Timelocks :
                    \E q \in 1 .. n : Initiate(id, replaced, new, n, q, seconds)
           \/ \E g \in Guardians : Approve(id, g)
           \/ Cancel(id)
           \/ Finalize(id)
    BY <1>8 DEF LifecycleNext
  <2>2. UNCHANGED now
    BY <2>1 DEF Initiate, Approve, Cancel, Finalize
  <2>3. \E s \in Record : Sound(s, now) /\ request' = [request EXCEPT ![id] = s]
    BY <1>3, <1>5, <1>6, <1>7, <2>1
  <2> QED
    BY <2>2, <2>3, OneChanged
<1> QED
  BY <1>1, <1>2, <1>8

(* A request is finalized only with its quorum of distinct approvals and    *)
(* after the minimum timelock, in a build whose additions panic instead of  *)
(* wrapping; without that hypothesis a wrapped deadline is in the past.     *)
THEOREM ExecutionsEarned ==
    ASSUME OverflowWraps = FALSE
    PROVE  LifecycleSpec => []ExecutionEarned
<1>1. LifecycleInv /\ [LifecycleNext]_lifecycleVars => LifecycleInv'
  BY LifecycleStep
<1>2. LifecycleInv => ExecutionEarned
  <2> SUFFICES ASSUME LifecycleInv, NEW id \in Ids, request[id].status = "Executed"
               PROVE  /\ Cardinality(request[id].approvals) >= request[id].quorumSnapshot
                      /\ now >= request[id].initiatedAt + MIN_TIMELOCK_SECONDS
    BY DEF ExecutionEarned
  <2>1. Sound(request[id], now) /\ request[id] \in Record /\ now \in Nat
    BY TypeMeans DEF LifecycleInv
  <2>2. request[id].initiatedAt \in Nat /\ request[id].executeAfter \in Nat
    BY <2>1, RecordFields
  <2> QED
    BY <2>1, <2>2, LifecycleAssumption DEF Sound
<1> QED
  BY <1>1, <1>2, LifecycleInitially, PTL DEF LifecycleSpec
=============================================================================
