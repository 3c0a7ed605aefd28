-------------------------- MODULE MCPeerTransport --------------------------
(***************************************************************************)
(* An instance of PeerTransport for TLC: two envelopes as they should be,  *)
(* and one each that names another participant, that another signed, of    *)
(* another session and in a round beyond the protocol.                     *)
(***************************************************************************)
EXTENDS PeerTransport, TLC

Envelope(participant, signer, session, round) ==
    [participant |-> participant, signer |-> signer, session |-> session, round |-> round]

Relayed ==
    {Envelope(0, 0, "s", 1), Envelope(0, 0, "s", 2),
     Envelope(1, 1, "s", 1), Envelope(0, 1, "s", 1),
     Envelope(0, 0, "t", 1), Envelope(0, 0, "s", 11)}
=============================================================================
