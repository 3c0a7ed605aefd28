------------------------- MODULE RotationGovernance -------------------------
(***************************************************************************)
(* Governed rotation of the participants of a threshold key                *)
(* (crates/keymesh-tss/src/governance.rs). A TssRotationRequest is a value *)
(* its application holds; it knows how many guardians must approve and how *)
(* long to wait, but not who they are, nor the key it is about. The key's  *)
(* lifecycle is KeyLifecycle, which composes the two.                      *)
(*                                                                         *)
(* executable_at is an Option<u64>, Some exactly from QuorumReached on:    *)
(* before, the field is 0 here and is not read.                            *)
(***************************************************************************)
EXTENDS Integers, Sequences, FiniteSets

CONSTANTS
    RotationIds,           \* identifiers of the requests an application makes
    Guardians,             \* who the application lets approve
    Proposals,             \* bound: what applications ask for
    Names,                 \* names of participants
    GroupKeys,             \* group public keys a request may name
    MIN_TIMELOCK_SECONDS,
    U64_MAX,               \* u64::MAX
    OverflowWraps,         \* a build without overflow checks (release profile)
    MaxTime                \* bound: last time a caller passes

ASSUME RotationAssumption ==
    /\ MIN_TIMELOCK_SECONDS \in Nat \ {0}
    /\ U64_MAX \in Nat
    /\ OverflowWraps \in BOOLEAN
    /\ RotationIds # {}
    /\ "none" \notin GroupKeys
    /\ MaxTime \in Nat
    /\ IsFiniteSet(Guardians)
    /\ \A p \in Proposals :
          /\ {p.oldVersion, p.threshold, p.quorum, p.timelock} \subseteq Nat
          /\ p.groupKey \in GroupKeys
          /\ p.newSet \in Seq(Names)

VARIABLES
    now,        \* the now_seconds the callers pass
    rotations   \* rotations[id]: the TssRotationRequest with that id

rotationVars == <<now, rotations>>

LiveRotation == {"Pending", "QuorumReached", "Executable", "Resharing"}
SettledRotation == {"Completed", "Cancelled", "Failed"}

Rotation ==
    [oldVersion : Nat, newSet : Seq(Names), threshold : Nat,
     groupKey : GroupKeys \cup {"none"}, createdAt : Nat, executableAt : Nat,
     quorum : Nat, timelock : Nat, approvals : SUBSET Guardians,
     status : {"None"} \cup LiveRotation \cup SettledRotation]

NoRotation ==
    [oldVersion |-> 0, newSet |-> <<>>, threshold |-> 0, groupKey |-> "none",
     createdAt |-> 0, executableAt |-> 0, quorum |-> 0, timelock |-> 0,
     approvals |-> {}, status |-> "None"]

(* Mutant: executable a second early. *)
EffectiveRotationEarly(r) ==
    IF r.status = "QuorumReached" /\ now + 1 >= r.executableAt
    THEN "Executable"
    ELSE r.status

(* effective_status *)
EffectiveRotation(r) ==
    IF r.status = "QuorumReached" /\ now >= r.executableAt
    THEN "Executable"
    ELSE r.status

HasDuplicate(s) == \E i, j \in 1 .. Len(s) : i # j /\ s[i] = s[j]

RotationInit ==
    /\ now = 0
    /\ rotations = [id \in RotationIds |-> NoRotation]

Clock ==
    /\ now < MaxTime
    /\ now' = now + 1
    /\ UNCHANGED rotations

(* Mutant: the threshold is not compared with the new set. *)
ProposalUnbounded(p) ==
    /\ p.newSet # <<>>
    /\ p.threshold > 0
    /\ ~HasDuplicate(p.newSet)
    /\ p.quorum \in 1 .. Cardinality(Guardians)
    /\ p.timelock >= MIN_TIMELOCK_SECONDS

ProposalValid(p) ==
    /\ p.newSet # <<>>
    /\ p.threshold \in 1 .. Len(p.newSet)
    /\ ~HasDuplicate(p.newSet)
    /\ p.quorum \in 1 .. Cardinality(Guardians)
    /\ p.timelock >= MIN_TIMELOCK_SECONDS

(* initiate: version and group key are whatever the caller believes; the   *)
(* guardians it counts are those it will let approve.                      *)
InitiateRotation(id, p) ==
    /\ rotations[id] = NoRotation
    /\ ProposalValid(p)
    /\ rotations' =
           [rotations EXCEPT ![id] =
               [oldVersion |-> p.oldVersion, newSet |-> p.newSet,
                threshold |-> p.threshold, groupKey |-> p.groupKey,
                createdAt |-> now, executableAt |-> 0,
                quorum |-> p.quorum, timelock |-> p.timelock,
                approvals |-> {}, status |-> "Pending"]]
    /\ UNCHANGED now

(* now_seconds + timelock_seconds, in u64: wraps, or panics.               *)
DeadlineFits(r) == OverflowWraps \/ now + r.timelock <= U64_MAX
Deadline(r) == (now + r.timelock) % (U64_MAX + 1)

ApproveRotation(id, g) ==
    LET r == rotations[id]
        voters == r.approvals \cup {g}
        complete == Cardinality(voters) >= r.quorum
    IN  /\ r.status = "Pending"
        /\ g \notin r.approvals
        /\ complete => DeadlineFits(r)
        /\ rotations' =
               [rotations EXCEPT ![id] =
                   [r EXCEPT !.approvals = voters,
                             !.status = IF complete THEN "QuorumReached" ELSE @,
                             !.executableAt = IF complete THEN Deadline(r) ELSE @]]
        /\ UNCHANGED now

Marked(id, status) == rotations' = [rotations EXCEPT ![id].status = status]

(* cancel: a request that is being re-shared is still live. *)
CancelRotation(id) ==
    /\ rotations[id].status \in LiveRotation
    /\ Marked(id, "Cancelled")
    /\ UNCHANGED now

(* mark_resharing: a reached quorum is enough, the time is not looked at.  *)
MarkResharing(id) ==
    /\ rotations[id].status \in {"Executable", "QuorumReached"}
    /\ Marked(id, "Resharing")
    /\ UNCHANGED now

(* mark_resharing_with_time *)
MarkResharingWithTime(id) ==
    /\ EffectiveRotation(rotations[id]) = "Executable"
    /\ Marked(id, "Resharing")
    /\ UNCHANGED now

MarkCompleted(id) ==
    /\ rotations[id].status = "Resharing"
    /\ Marked(id, "Completed")
    /\ UNCHANGED now

MarkFailed(id) ==
    /\ rotations[id].status = "Resharing"
    /\ Marked(id, "Failed")
    /\ UNCHANGED now

(* What guardians and applications do to a request at any time. *)
ProposalStep ==
    \/ \E id \in RotationIds, p \in Proposals : InitiateRotation(id, p)
    \/ \E id \in RotationIds, g \in Guardians : ApproveRotation(id, g)
    \/ \E id \in RotationIds : CancelRotation(id)

(* The marks an application sets when it drives a rotation by hand. *)
MarkStep ==
    \E id \in RotationIds :
        \/ MarkResharing(id)
        \/ MarkResharingWithTime(id)
        \/ MarkCompleted(id)
        \/ MarkFailed(id)
=============================================================================
