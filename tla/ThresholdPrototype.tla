------------------------- MODULE ThresholdPrototype -------------------------
(***************************************************************************)
(* The signing simulation of crates/keymesh-tss-proto and the parts of     *)
(* crates/keymesh-tss it shares: 2-of-3 key generation over the scalar     *)
(* field, interpolation of the group secret, sessions bound to a           *)
(* transaction, the handshake between coordinator and participant, and the *)
(* in-process transport that loses, repeats, reorders and alters messages. *)
(*                                                                         *)
(* Data: the field has P elements, P a small prime; a point of the curve   *)
(* is known by its discrete logarithm, a hash by what is hashed; a byte    *)
(* string is a sequence of byte values. A signature is known by the key    *)
(* and the digest it was made with: recovering the key over another digest *)
(* yields another key.                                                     *)
(***************************************************************************)
EXTENDS Integers, Sequences, FiniteSets, SequencesExt

CONSTANTS
    P,                  \* order of the scalar field
    SessionBindings,    \* bound: the bindings sessions are opened for
    Senders,            \* bound: participants that send
    Rounds,             \* bound: rounds they name
    LastRound,          \* rounds run from 1 to LastRound: 3, or 5 in keymesh-tss
    MaxMessages,        \* bound: messages in the transport
    MaxSent             \* bound: different messages sent

ASSUME PrototypeAssumption ==
    /\ P \in Nat \ {0, 1}
    /\ \A k \in 2 .. P - 1 : P % k # 0
    /\ LastRound \in Nat
    /\ IsFiniteSet(Senders)

(* A wallet, a digest and the random bytes have a fixed length; the name of *)
(* the protocol has not.                                                    *)
Bytes == Seq(Nat)

ASSUME BindingAssumption ==
    /\ \A b \in SessionBindings :
          /\ b.wallet \in Bytes /\ b.digest \in Bytes
          /\ b.random \in Bytes /\ b.protocol \in Bytes
          /\ b.chain \in Nat /\ b.nonce \in Nat /\ b.policyVersion \in Nat
    /\ \A b, c \in SessionBindings :
          /\ Len(b.wallet) = Len(c.wallet)
          /\ Len(b.digest) = Len(c.digest)
          /\ Len(b.random) = Len(c.random)

VARIABLES
    contributions,      \* <<a, b>> of each participant that has contributed
    material,           \* ThresholdKeyMaterial, once generated
    messages,           \* SimulatedTransport.messages
    sent                \* what was given to send: history only

vars == <<contributions, material, messages, sent>>

----------------------------------------------------------------------------
(* Key generation *)

Scalars == 0 .. P - 1

Indices == 1 .. 3

Inverted(k) == CHOOSE i \in Scalars : (k * i) % P = 1

(* A coefficient drawn as zero becomes one. *)
NonZero(draw) == IF draw = 0 THEN 1 ELSE draw

(* The sum of the contributed polynomials at j, of which the secret is the *)
(* value at zero and participant j's share the value at j.                 *)
SummedAt(pairs, j) ==
    ((pairs[1][1] + pairs[2][1] + pairs[3][1])
     + (pairs[1][2] + pairs[2][2] + pairs[3][2]) * j) % P

Secret(pairs) == SummedAt(pairs, 0)

Share(pairs, j) == [index |-> j, secret |-> SummedAt(pairs, j)]

NoMaterial == [shares |-> <<>>, groupKey |-> 0]

(* One turn of the loop that draws a_i and b_i. *)
Contribute(a, b) ==
    /\ material = NoMaterial
    /\ Len(contributions) < 3
    /\ contributions' = Append(contributions, <<NonZero(a), NonZero(b)>>)
    /\ UNCHANGED <<material, messages, sent>>

(* The rest of distributed_keygen. A sum of zero is no secret key: the     *)
(* call panics and nothing is generated.                                   *)
DistributedKeygen ==
    /\ Len(contributions) = 3
    /\ Secret(contributions) # 0
    /\ material' = [shares |-> [j \in Indices |-> Share(contributions, j)],
                    groupKey |-> Secret(contributions)]
    /\ contributions' = <<>>
    /\ UNCHANGED <<messages, sent>>

----------------------------------------------------------------------------
(* Signing *)

(* Mutant: the other index is taken with the wrong sign. *)
FactorWrongSign(shares, i, j) ==
    IF j = i THEN 1
    ELSE shares[j].index * Inverted((shares[i].index - shares[j].index) % P)

(* What share j contributes to the basis polynomial of share i at zero. *)
Factor(shares, i, j) ==
    IF j = i THEN 1
    ELSE -shares[j].index * Inverted((shares[i].index - shares[j].index) % P)

(* The product and the sum over the first n shares, for each n. *)
Products(shares, i) ==
    LET product[n \in 0 .. Len(shares)] ==
            IF n = 0 THEN 1 ELSE (product[n - 1] * Factor(shares, i, n)) % P
    IN  product

Sums(shares) ==
    LET sum[n \in 0 .. Len(shares)] ==
            IF n = 0 THEN 0
            ELSE (sum[n - 1] + Products(shares, n)[Len(shares)] * shares[n].secret) % P
    IN  sum

(* lagrange_interpolate_at_zero, for distinct indices *)
Interpolate(shares) == Sums(shares)[Len(shares)]

(* No element stands twice: what a HashSet's insert tells. *)
Distinct(s) == IsInjective(s)

(* write_u256_be, with words of two bytes *)
U256(n) == <<n \div 16, n % 16>>

(* Mutant: the integers are written without padding. *)
DeriveSessionIdUnpadded(b) ==
    LET Bare(n) == IF n < 16 THEN <<n>> ELSE U256(n)
    IN  b.wallet \o Bare(b.chain) \o Bare(b.nonce) \o b.digest
        \o Bare(b.policyVersion) \o b.protocol \o b.random

(* derive_session_id, known by what it hashes *)
DeriveSessionId(b) ==
    b.wallet \o U256(b.chain) \o U256(b.nonce) \o b.digest
    \o U256(b.policyVersion) \o b.protocol \o b.random

(* threshold_sign answers a signature. SigningKey::from_bytes refuses      *)
(* zero; the threshold is the caller's, not the material's.                *)
ThresholdSigns(shares, groupKey, b, session, threshold) ==
    /\ Len(shares) >= threshold
    /\ Distinct([i \in DOMAIN shares |-> shares[i].index])
    /\ session = DeriveSessionId(b)
    /\ Interpolate(shares) # 0
    /\ Interpolate(shares) = groupKey

(* The signature it answers: key and over are what (r, s, v) were made of. *)
ThresholdSign(shares, b, session) ==
    [key |-> Interpolate(shares), over |-> b.digest, digest |-> b.digest, session |-> session]

(* verify_signature *)
VerifySignature(digest, sig, groupKey) ==
    /\ sig.digest = digest
    /\ sig.over = digest /\ sig.key = groupKey

(* What the handshake compares by name; the random bytes are not among it. *)
HandshakeValidFields(ours, theirs) ==
    /\ ours.wallet = theirs.wallet
    /\ ours.chain = theirs.chain
    /\ ours.digest = theirs.digest
    /\ ours.nonce = theirs.nonce
    /\ ours.policyVersion = theirs.policyVersion
    /\ ours.protocol = theirs.protocol

(* handshake_validate answers the session id of both. The participants and *)
(* the threshold it is given are not looked at.                            *)
HandshakeValid(ours, theirs) ==
    /\ HandshakeValidFields(ours, theirs)
    /\ DeriveSessionId(ours) = DeriveSessionId(theirs)

----------------------------------------------------------------------------
(* SimulatedTransport *)

Generated == material # NoMaterial

Message(sender, round, b) ==
    [session |-> DeriveSessionId(b), sender |-> sender, round |-> round, digest |-> b.digest]

Transported(list) ==
    /\ Generated
    /\ messages' = list
    /\ UNCHANGED <<contributions, material>>

Send(sender, round, b) ==
    /\ Len(messages) < MaxMessages
    /\ Transported(Append(messages, Message(sender, round, b)))
    /\ sent' = sent \cup {Message(sender, round, b)}
    /\ Cardinality(sent') <= MaxSent

(* What is kept stays in its order. *)
DropFrom(sender) ==
    LET others == {i \in DOMAIN messages : messages[i].sender # sender}
    IN  /\ \E place \in [1 .. Cardinality(others) -> others] :
              /\ \A i, j \in DOMAIN place : i < j => place[i] < place[j]
              /\ Transported([i \in DOMAIN place |-> messages[place[i]]])
        /\ UNCHANGED sent

DuplicateFirst ==
    /\ messages # <<>> /\ Len(messages) < MaxMessages
    /\ Transported(Append(messages, Head(messages)))
    /\ UNCHANGED sent

Reorder ==
    /\ Len(messages) >= 2
    /\ Transported([messages EXCEPT ![1] = messages[2], ![2] = messages[1]])
    /\ UNCHANGED sent

ModifyFirstDigest(digest) ==
    /\ messages # <<>>
    /\ Transported([messages EXCEPT ![1].digest = digest])
    /\ UNCHANGED sent

(* Mutant: the digest of a message is not compared. *)
VerifyBindingSessionOnly(b) ==
    \A i \in DOMAIN messages : messages[i].session = DeriveSessionId(b)

VerifyBinding(b) ==
    \A i \in DOMAIN messages :
        /\ messages[i].session = DeriveSessionId(b)
        /\ messages[i].digest = b.digest

CheckNoDuplicate ==
    Distinct([i \in DOMAIN messages |-> <<messages[i].sender, messages[i].round>>])

CheckRoundOrder == \A i \in DOMAIN messages : messages[i].round \in 1 .. LastRound

----------------------------------------------------------------------------
Init ==
    /\ contributions = <<>>
    /\ material = NoMaterial
    /\ messages = <<>>
    /\ sent = {}

Next ==
    \/ \E a, b \in Scalars : Contribute(a, b)
    \/ DistributedKeygen
    \/ \E s \in Senders, r \in Rounds, b \in SessionBindings : Send(s, r, b)
    \/ \E s \in Senders : DropFrom(s)
    \/ DuplicateFirst
    \/ Reorder
    \/ \E b \in SessionBindings : ModifyFirstDigest(b.digest)

Spec == Init /\ [][Next]_vars

----------------------------------------------------------------------------
(* Properties *)

(* A share under an index nobody holds, with the first holder's secret. *)
Foreign == [index |-> 4, secret |-> material.shares[1].secret]

Presented == BoundedSeq({material.shares[j] : j \in Indices} \cup {Foreign}, 3)

(* Shares presented sign exactly if they are as many as the caller's       *)
(* threshold asks, at least one, of distinct indices, and two or more that *)
(* were all generated. The exception is a key whose polynomial came out    *)
(* constant (contributed slopes that cancel): any one share then signs,    *)
(* under any index.                                                        *)
ExactlyQuorumsSign ==
    LET b == CHOOSE any \in SessionBindings : TRUE
    IN  \A shares \in Presented, threshold \in 0 .. 3 :
        ThresholdSigns(shares, material.groupKey, b, DeriveSessionId(b), threshold)
        <=> /\ Len(shares) >= threshold
            /\ Distinct([i \in DOMAIN shares |-> shares[i].index])
            /\ \/ Len(shares) >= 2 /\ \A i \in DOMAIN shares : shares[i] # Foreign
               \/ shares # <<>> /\ material.shares[1].secret = material.shares[2].secret

(* It is so of every key generated. *)
QuorumsSign == [][material' # material => ExactlyQuorumsSign']_vars

(* What the handshake agrees on is what gets signed: a quorum signs the     *)
(* participant's binding under the coordinator's session id exactly if     *)
(* their handshake succeeds. The signature then verifies for the digest    *)
(* the coordinator opened the session with and for no other, and every     *)
(* binding with that session id has this digest.                           *)
AgreedIsSigned ==
    Generated => LET quorum == SubSeq(material.shares, 1, 2)
    IN  \A ours, theirs \in SessionBindings :
            LET session == DeriveSessionId(ours)
                sig == ThresholdSign(quorum, theirs, session)
            IN  /\ ThresholdSigns(quorum, material.groupKey, theirs, session, 2)
                   <=> HandshakeValid(ours, theirs)
                /\ HandshakeValid(ours, theirs) =>
                      \A other \in SessionBindings :
                          /\ VerifySignature(other.digest, sig, material.groupKey)
                             <=> other.digest = ours.digest
                          /\ DeriveSessionId(other) = session
                             => VerifySignature(other.digest, sig, material.groupKey)

(* When the three checks of the transport accept what it holds for a       *)
(* session, every message was sent, for that session, in a round of it,    *)
(* and none stands for two: repeating and altering is found. That none was *)
(* lost, and that they are in order, the checks do not say.                *)
ChecksCatchFaults ==
    \A b \in SessionBindings :
        VerifyBinding(b) /\ CheckNoDuplicate /\ CheckRoundOrder
        => /\ Len(messages) <= LastRound * Cardinality(Senders)
           /\ \A i \in DOMAIN messages :
                 /\ messages[i] \in sent
                 /\ messages[i] = Message(messages[i].sender, messages[i].round, b)
           /\ Distinct(messages)
=============================================================================
