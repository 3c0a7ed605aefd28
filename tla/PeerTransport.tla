---------------------------- MODULE PeerTransport ----------------------------
(***************************************************************************)
(* Envelopes between two participants over TCP                             *)
(* (TcpAuthenticatedTransport of crates/keymesh-tss/src/network.rs, with   *)
(* envelope.rs and identity.rs), from the side that connects to the side   *)
(* that listens.                                                           *)
(*                                                                         *)
(* Sending and receiving are futures that their callers may drop at any    *)
(* await, and processes that die: a frame may stay half written, and what  *)
(* a receive has read is lost with it. TCP is external: each connection    *)
(* hands over a prefix of what was written, in order. It carries words     *)
(* here: a frame is its length, then BodyWords words of JSON; four bytes   *)
(* of JSON read as a length are beyond MAX_TSS_MESSAGE_BYTES. Frames are   *)
(* cut at word boundaries only.                                            *)
(*                                                                         *)
(* An envelope is known by the participant it names, the participant whose *)
(* network key signed it, its session (which stands for the wallet and the *)
(* chain as well), its round, and its payload.                             *)
(***************************************************************************)
EXTENDS Integers, Sequences, SequencesExt

CONSTANTS
    Envelopes,          \* bound: what the application sends
    Expected,           \* session the listening side expects
    ClientExpects,      \* session the connecting side expects, or NoSession
    NoSession,
    Peer,               \* id in the peer_identity of the listening side
    BodyWords,
    MaxSends,           \* bound: calls of send
    MaxConnections      \* bound: calls of connect that reach the listener

ASSUME TransportAssumption ==
    /\ BodyWords \in Nat \ {0}
    /\ NoSession # Expected

VARIABLES
    client,             \* the connecting TcpAuthenticatedTransport
    server,             \* the listening one
    wires,              \* wires[c]: connection c, words not yet read
    backlog,            \* connections not yet accepted
    handed,             \* what send was called with and did not refuse: history
    accepted            \* what receive answered: history

network == <<client, server, wires, backlog, handed, accepted>>

None == 0               \* no stream

NoCall == <<[kind |-> "no call"]>>

LengthWord == [kind |-> "length"]

(* encode_frame *)
Body(e) == [i \in 1 .. BodyWords |-> [kind |-> "body", of |-> e, part |-> i]]

(* Mutant: an envelope that names the peer is taken for the peer's. *)
VerifiedByName(e) == e.participant = Peer

(* envelope.verify(peer): the peer is named and its key signed *)
Verified(e) == e.participant = Peer /\ e.signer = Peer

(* validate_against. Digest and version are compared with the envelope's   *)
(* own.                                                                    *)
Valid(e, session) ==
    session # NoSession => e.session = session /\ e.round \in 1 .. 10

----------------------------------------------------------------------------
(* The connecting side *)

(* The other end sees the end of the stream once it has read the rest. *)
Closed(c) == IF c = None THEN wires ELSE [wires EXCEPT ![c].open = FALSE]

(* A connection is made as soon as there is a listener, accepted or not. *)
ClientConnect ==
    /\ client.writing = NoCall
    /\ server.listening
    /\ Len(wires) < MaxConnections
    /\ wires' = Append(Closed(client.stream), [words |-> <<>>, open |-> TRUE, reset |-> FALSE])
    /\ client' = [client EXCEPT !.stream = Len(wires')]
    /\ backlog' = Append(backlog, Len(wires'))
    /\ UNCHANGED <<server, handed, accepted>>

ClientAuthenticate ==
    /\ client.writing = NoCall
    /\ client' = [client EXCEPT !.authenticated = TRUE]
    /\ UNCHANGED <<server, wires, backlog, handed, accepted>>

(* send, up to the first write *)
BeginSend(e) ==
    /\ client.writing = NoCall
    /\ client.authenticated
    /\ client.stream # None
    /\ Valid(e, ClientExpects)
    /\ Len(handed) < MaxSends
    /\ handed' = Append(handed, e)
    /\ client' = [client EXCEPT !.writing = <<LengthWord>> \o Body(e)]
    /\ UNCHANGED <<server, wires, backlog, accepted>>

(* write_frame: a word of it. Writing to a connection the other side has   *)
(* dropped is an error and ends the call, as writing the last word does.   *)
WriteWord ==
    LET c == client.stream
        rest == Tail(client.writing)
    IN  /\ client.writing # NoCall
        /\ wires' = IF wires[c].reset THEN wires
                    ELSE [wires EXCEPT ![c].words = Append(@, Head(client.writing))]
        /\ client' = [client EXCEPT !.writing =
                         IF wires[c].reset \/ rest = <<>> THEN NoCall ELSE rest]
        /\ UNCHANGED <<server, backlog, handed, accepted>>

CancelSend ==
    /\ client.writing # NoCall
    /\ client' = [client EXCEPT !.writing = NoCall]
    /\ UNCHANGED <<server, wires, backlog, handed, accepted>>

NewTransport == [stream |-> None, authenticated |-> FALSE, writing |-> NoCall]

ClientClose ==
    /\ client.writing = NoCall
    /\ client' = [client EXCEPT !.stream = None]
    /\ wires' = Closed(client.stream)
    /\ UNCHANGED <<server, backlog, handed, accepted>>

(* The process dies and starts again. *)
ClientCrash ==
    /\ client' = NewTransport
    /\ wires' = Closed(client.stream)
    /\ UNCHANGED <<server, backlog, handed, accepted>>

----------------------------------------------------------------------------
(* The listening side *)

Idle == ~server.accepting /\ server.reading = NoCall

(* connect: bind. With a listener of its own still bound it fails. *)
Bind ==
    /\ Idle
    /\ ~server.listening
    /\ server' = [server EXCEPT !.listening = TRUE, !.accepting = TRUE]
    /\ UNCHANGED <<client, wires, backlog, handed, accepted>>

(* connect: accept answers the oldest connection. *)
Accept ==
    /\ server.accepting /\ backlog # <<>>
    /\ server' = [server EXCEPT !.accepting = FALSE, !.stream = Head(backlog)]
    /\ backlog' = Tail(backlog)
    /\ UNCHANGED <<client, wires, handed, accepted>>

(* connect is dropped while it waits: the listener stays. *)
CancelAccept ==
    /\ server.accepting
    /\ server' = [server EXCEPT !.accepting = FALSE]
    /\ UNCHANGED <<client, wires, backlog, handed, accepted>>

ServerAuthenticate ==
    /\ Idle
    /\ server' = [server EXCEPT !.authenticated = TRUE]
    /\ UNCHANGED <<client, wires, backlog, handed, accepted>>

BeginReceive ==
    /\ Idle
    /\ server.authenticated
    /\ server.stream # None
    /\ server' = [server EXCEPT !.reading = <<>>]
    /\ UNCHANGED <<client, wires, backlog, handed, accepted>>

(* decode_frame: the envelope, if the words are those of one, in order *)
Decode(words) == {e \in Envelopes : words = Body(e)}

(* read_frame takes a word; with the last one, receive decodes, verifies   *)
(* and validates. Every error ends the call and leaves the stream where it *)
(* is.                                                                     *)
ReadWord ==
    LET c == server.stream
        words == Append(server.reading, Head(wires[c].words))
        wrong == Head(words).kind # "length"
        full == Len(words) = 1 + BodyWords
        answers == {e \in Decode(Tail(words)) :
                       full /\ ~wrong /\ Verified(e) /\ Valid(e, Expected)}
    IN  /\ server.reading # NoCall
        /\ wires[c].words # <<>>
        /\ wires' = [wires EXCEPT ![c].words = Tail(@)]
        /\ server' = [server EXCEPT !.reading = IF wrong \/ full THEN NoCall ELSE words]
        /\ \/ \E e \in answers : accepted' = Append(accepted, e)
           \/ answers = {} /\ UNCHANGED accepted
        /\ UNCHANGED <<client, backlog, handed>>

(* The end of the stream, before a frame is complete. *)
ReadEnd ==
    /\ server.reading # NoCall
    /\ wires[server.stream].words = <<>> /\ ~wires[server.stream].open
    /\ server' = [server EXCEPT !.reading = NoCall]
    /\ UNCHANGED <<client, wires, backlog, handed, accepted>>

CancelReceive ==
    /\ server.reading # NoCall
    /\ server' = [server EXCEPT !.reading = NoCall]
    /\ UNCHANGED <<client, wires, backlog, handed, accepted>>

(* What was accepted, or waits to be, is reset. *)
Resets ==
    /\ wires' = [c \in DOMAIN wires |->
                    IF c = server.stream \/ Contains(backlog, c)
                    THEN [wires[c] EXCEPT !.words = <<>>, !.reset = TRUE]
                    ELSE wires[c]]
    /\ backlog' = <<>>

ServerClose ==
    /\ Idle
    /\ server' = [server EXCEPT !.stream = None, !.listening = FALSE]
    /\ Resets
    /\ UNCHANGED <<client, handed, accepted>>

NewListener ==
    [stream |-> None, authenticated |-> FALSE, listening |-> FALSE,
     accepting |-> FALSE, reading |-> NoCall]

ServerCrash ==
    /\ server' = NewListener
    /\ Resets
    /\ UNCHANGED <<client, handed, accepted>>

----------------------------------------------------------------------------
TransportInit ==
    /\ client = NewTransport
    /\ server = NewListener
    /\ wires = <<>>
    /\ backlog = <<>>
    /\ handed = <<>>
    /\ accepted = <<>>

TransportNext ==
    \/ ClientConnect \/ ClientAuthenticate \/ ClientClose \/ ClientCrash
    \/ \E e \in Envelopes : BeginSend(e)
    \/ WriteWord \/ CancelSend
    \/ Bind \/ Accept \/ CancelAccept \/ ServerAuthenticate
    \/ BeginReceive \/ ReadWord \/ ReadEnd \/ CancelReceive
    \/ ServerClose \/ ServerCrash

TransportSpec == TransportInit /\ [][TransportNext]_network

----------------------------------------------------------------------------
(* Properties *)

Subsequence(s, t) ==
    \E place \in [DOMAIN s -> DOMAIN t] :
        /\ \A i \in DOMAIN s : s[i] = t[place[i]]
        /\ \A i, j \in DOMAIN s : i < j => place[i] < place[j]

(* What receive answers, over every connection, crash and cancelled call,  *)
(* was handed to send, in that order and each no more often than it was;   *)
(* and all of it is the expected peer's own, of the expected session, in a *)
(* round of the protocol.                                                  *)
AcceptedInOrder ==
    /\ Subsequence(accepted, handed)
    /\ \A i \in DOMAIN accepted :
          LET e == accepted[i]
          IN  /\ e.participant = Peer /\ e.signer = Peer
              /\ e.session = Expected
              /\ e.round \in 1 .. 10
=============================================================================
