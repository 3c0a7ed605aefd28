-------------------------- MODULE RequestLifecycle --------------------------
(***************************************************************************)
(* The recovery state machine of keymesh-core, the reference semantics the *)
(* RecoveryManager contract is documented to mirror. A request is a value  *)
(* that knows neither guardians nor devices: its caller says who approves, *)
(* how many guardians are active and what the time is.                     *)
(*                                                                         *)
(* execute_after is an Option<u64>, Some exactly from QuorumReached on:    *)
(* before, the field is 0 here and is not read.                            *)
(***************************************************************************)
EXTENDS Integers, FiniteSets

CONSTANTS
    Ids,                   \* request identifiers
    Guardians,             \* whoever the caller lets approve
    Devices,               \* device identifiers
    NoDevice,              \* replaced_device = None
    MIN_TIMELOCK_SECONDS,
    Timelocks,             \* timelocks a caller may snapshot
    U64_MAX,               \* u64::MAX
    OverflowWraps,         \* a build without overflow checks (release profile)
    MaxTime                \* bound: last time a caller passes

ASSUME LifecycleAssumption ==
    /\ MIN_TIMELOCK_SECONDS \in Nat \ {0}
    /\ U64_MAX \in Nat
    /\ MaxTime \in Nat
    /\ Timelocks \subseteq Nat
    /\ OverflowWraps \in BOOLEAN

VARIABLES
    now,      \* the now_seconds the callers pass
    request   \* request[id]: the RecoveryRequest with that id

lifecycleVars == <<now, request>>

None ==
    [replacedDevice |-> NoDevice, newDevice |-> NoDevice, initiatedAt |-> 0,
     executeAfter |-> 0, quorumSnapshot |-> 0, timelockSnapshot |-> 0,
     approvals |-> {}, status |-> "None"]

IsLive(status) == status \in {"Pending", "QuorumReached", "Executable"}
IsTerminal(status) == status \in {"Executed", "Cancelled"}

(* effective_status *)
Effective(r) ==
    IF r.status = "QuorumReached" /\ now >= r.executeAfter
    THEN "Executable"
    ELSE r.status

(* Mutant: a reached quorum is enough to finalize. *)
AllowsEarly(status, action) ==
    CASE action = "Approve" -> status = "Pending"
      [] action = "Cancel" -> IsLive(status)
      [] action = "Finalize" -> status \in {"QuorumReached", "Executable"}
      [] action = "Initiate" -> ~IsLive(status)

(* RecoveryStatus::allows, on the stored status *)
Allows(status, action) ==
    CASE action = "Approve" -> status = "Pending"
      [] action = "Cancel" -> IsLive(status)
      [] action = "Finalize" -> status = "Executable"
      [] action = "Initiate" -> ~IsLive(status)

(* now_seconds + timelock, in u64: wraps, or panics in a build that checks *)
(* (the caller of a panicking approve does not get its request back).      *)
DeadlineFits(r) == OverflowWraps \/ now + r.timelockSnapshot <= U64_MAX
Deadline(r) == (now + r.timelockSnapshot) % (U64_MAX + 1)

LifecycleInit ==
    /\ now = 0
    /\ request = [id \in Ids |-> None]

Advance ==
    /\ now < MaxTime
    /\ now' = now + 1
    /\ UNCHANGED request

Initiate(id, replaced, new, activeGuardians, q, seconds) ==
    /\ request[id] = None
    /\ new # NoDevice
    /\ new # replaced
    /\ q \in 1 .. activeGuardians
    /\ seconds >= MIN_TIMELOCK_SECONDS
    /\ request' =
           [request EXCEPT ![id] =
               [replacedDevice |-> replaced, newDevice |-> new,
                initiatedAt |-> now, executeAfter |-> 0, quorumSnapshot |-> q,
                timelockSnapshot |-> seconds, approvals |-> {},
                status |-> "Pending"]]
    /\ UNCHANGED now

Approve(id, g) ==
    LET r == request[id]
        voters == r.approvals \cup {g}
        complete == Cardinality(voters) >= r.quorumSnapshot
    IN  /\ Allows(r.status, "Approve")
        /\ g \notin r.approvals
        /\ complete => DeadlineFits(r)
        /\ request' =
               [request EXCEPT ![id] =
                   [r EXCEPT !.approvals = voters,
                             !.status = IF complete THEN "QuorumReached" ELSE @,
                             !.executeAfter = IF complete THEN Deadline(r) ELSE @]]
        /\ UNCHANGED now

Cancel(id) ==
    /\ Allows(request[id].status, "Cancel")
    /\ request' = [request EXCEPT ![id].status = "Cancelled"]
    /\ UNCHANGED now

Finalize(id) ==
    /\ Allows(Effective(request[id]), "Finalize")
    /\ request' = [request EXCEPT ![id].status = "Executed"]
    /\ UNCHANGED now

LifecycleNext ==
    \/ Advance
    \/ \E id \in Ids :
           \/ \E replaced \in Devices \cup {NoDevice}, new \in Devices,
                 n \in 0 .. Cardinality(Guardians), seconds \in Timelocks :
                  \E q \in 1 .. n : Initiate(id, replaced, new, n, q, seconds)
           \/ \E g \in Guardians : Approve(id, g)
           \/ Cancel(id)
           \/ Finalize(id)

LifecycleSpec == LifecycleInit /\ [][LifecycleNext]_lifecycleVars

----------------------------------------------------------------------------
(* Properties *)

(* A request holds values of its fields' types. *)
LifecycleTypeOK ==
    /\ now \in Nat
    /\ request \in
           [Ids -> [replacedDevice : Devices \cup {NoDevice},
                    newDevice : Devices \cup {NoDevice},
                    initiatedAt : Nat, executeAfter : Nat,
                    quorumSnapshot : Nat, timelockSnapshot : Nat,
                    approvals : SUBSET Guardians,
                    status : {"None", "Pending", "QuorumReached", "Executed", "Cancelled"}]]

(* A request is finalized only after as many distinct guardians as its     *)
(* snapshot asks for approved it and at least the minimum timelock passed  *)
(* since it was opened; Executable is read, never stored.                  *)
ExecutionEarned ==
    \A id \in Ids :
        LET r == request[id]
        IN  r.status = "Executed" =>
                /\ Cardinality(r.approvals) >= r.quorumSnapshot
                /\ now >= r.initiatedAt + MIN_TIMELOCK_SECONDS
=============================================================================
