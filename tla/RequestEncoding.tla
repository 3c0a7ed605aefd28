--------------------------- MODULE RequestEncoding ---------------------------
(***************************************************************************)
(* The byte string of a request of the reference state machine, as the     *)
(* request goes through its life: canonical_bytes leaves out status,       *)
(* execute_after and approvals, "they change over the life of the request  *)
(* and must never alter its identity". A device identifier is the byte     *)
(* string of its name here.                                                *)
(***************************************************************************)
EXTENDS RequestLifecycle, CanonicalEncoding

CONSTANTS
    Wallet,             \* the name of the wallet
    Initiator           \* the name of who opens requests

ASSUME EncodingNames ==
    /\ {Wallet, Initiator} \subseteq Texts
    /\ Devices \subseteq Texts \ {<<>>}
    /\ NoDevice \notin Devices

(* replaced_device.as_deref().unwrap_or("") *)
Name(device) == IF device = NoDevice THEN <<>> ELSE device

Intent(id) ==
    [id |-> id, wallet |-> Wallet, initiator |-> Initiator,
     replacedDevice |-> Name(request[id].replacedDevice),
     newDevice |-> Name(request[id].newDevice),
     initiatedAt |-> request[id].initiatedAt,
     quorumSnapshot |-> request[id].quorumSnapshot,
     timelockSnapshot |-> request[id].timelockSnapshot]

(* The fields of canonical_bytes in order, after its tag and its version.  *)
Layout ==
    <<"u8", "u8", "u64", "bytes", "bytes", "bytes", "bytes", "u64", "u8", "u64">>

Fields(i) ==
    <<1, 1, i.id, i.wallet, i.initiator, i.replacedDevice, i.newDevice,
      i.initiatedAt, i.quorumSnapshot, i.timelockSnapshot>>

Opened(id) == request[id].status # "None"

----------------------------------------------------------------------------
(* Properties *)

(* What a guardian signs for a request stays what it was when the request  *)
(* was opened, through approvals, cancellation and execution, and says     *)
(* exactly that request: reading it gives back every field of the intent.  *)
(* As for intents, two rotations, transactions, messages or envelopes that *)
(* differ differ in their bytes.                                           *)
EncodingCanonical ==
    [][\A id \in Ids :
           /\ Opened(id) => CanonicalBytes(Intent(id))' = CanonicalBytes(Intent(id))
           /\ Opened(id)' =>
                  LET read == Decoded(Layout, CanonicalBytes(Intent(id))')
                  IN  read.ok /\ Finish(read.rest) /\ read.values = Fields(Intent(id)')
           /\ BytesDetermineMeaning]_lifecycleVars
=============================================================================
