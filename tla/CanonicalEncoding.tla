-------------------------- MODULE CanonicalEncoding --------------------------
(***************************************************************************)
(* The byte strings that stand for recovery requests, transactions and     *)
(* messages: Encoder and Decoder of crates/keymesh-core                    *)
(* (serialization/mod.rs), canonical_bytes of a recovery request,          *)
(* encode_canonical of a transaction, the mock signing service's composite *)
(* message, and canonical_bytes of a rotation request and to_sign_bytes of *)
(* an envelope of crates/keymesh-tss (governance.rs, envelope.rs).         *)
(*                                                                         *)
(* Widths are scaled down: a byte has Base values, and one byte is the     *)
(* whole of a u32, of a domain tag, of an address and of a hash, two bytes *)
(* are a u64, three a uint256. What stays is which fields have a fixed     *)
(* width, which carry a length, and which end at a zero byte.              *)
(***************************************************************************)
EXTENDS Integers, Sequences, FiniteSetsExt, SequencesExt

CONSTANTS
    Base,               \* values of a byte
    Numbers,            \* bound: integers encoded
    Texts,              \* bound: strings and byte strings encoded
    DomainTags,         \* SigningDomain::as_bytes of the three domains
    MaxDataBytes        \* MAX_DATA_BYTES

ASSUME EncodingAssumption ==
    /\ Base \in Nat \ {0, 1}
    /\ Numbers \subseteq 0 .. Base * Base - 1
    /\ Texts \subseteq Seq(0 .. Base - 1)
    /\ \A s \in Texts : Len(s) < Base

Bytes == 0 .. Base - 1

U32 == 1
U64 == 2
U256 == 3

(* Big-endian bytes of n in a field of a width, and back. *)
BigEndian(n, width) == [i \in 1 .. width |-> (n \div Base ^ (width - i)) % Base]

Number(bytes) == FoldLeft(LAMBDA n, byte : n * Base + byte, 0, bytes)

----------------------------------------------------------------------------
(* Encoder *)

(* Mutant: bytes of any length without their length. *)
WriteBytesRaw(s) == s

(* write_bytes *)
WriteBytes(s) == BigEndian(Len(s), U32) \o s

Write(kind, value) ==
    CASE kind = "u8" -> BigEndian(value, 1)
      [] kind = "u32" -> BigEndian(value, U32)
      [] kind = "u64" -> BigEndian(value, U64)
      [] kind = "bytes" -> WriteBytes(value)

----------------------------------------------------------------------------
(* Decoder: known by the bytes that remain. A read answers Ok with a value *)
(* or an error, and the decoder it leaves behind.                          *)

Ok(value, rest) == [ok |-> TRUE, value |-> value, rest |-> rest]
Error(rest) == [ok |-> FALSE, value |-> 0, rest |-> rest]

ReadNumber(d, width) ==
    IF Len(d) < width THEN Error(d)
    ELSE Ok(Number(SubSeq(d, 1, width)), SubSeq(d, width + 1, Len(d)))

(* read_bytes. Where the declared length exceeds what remains, the length  *)
(* itself has been read.                                                   *)
ReadBytes(d) ==
    LET length == ReadNumber(d, U32)
    IN  IF ~length.ok THEN length
        ELSE IF length.value > Len(length.rest) THEN Error(length.rest)
        ELSE Ok(SubSeq(length.rest, 1, length.value),
                SubSeq(length.rest, length.value + 1, Len(length.rest)))

Read(kind, d) ==
    CASE kind = "u8" -> ReadNumber(d, 1)
      [] kind = "u32" -> ReadNumber(d, U32)
      [] kind = "u64" -> ReadNumber(d, U64)
      [] kind = "bytes" -> ReadBytes(d)

(* finish *)
Finish(d) == d = <<>>

----------------------------------------------------------------------------
(* What is encoded *)

(* RecoveryRequest::canonical_bytes. A replaced device of None is written  *)
(* as the empty string; a quorum beyond a byte panics.                     *)
CanonicalBytes(r) ==
    <<1>> \o <<1>>
    \o BigEndian(r.id, U64)
    \o WriteBytes(r.wallet) \o WriteBytes(r.initiator)
    \o WriteBytes(r.replacedDevice) \o WriteBytes(r.newDevice)
    \o BigEndian(r.initiatedAt, U64)
    \o <<r.quorumSnapshot>>
    \o BigEndian(r.timelockSnapshot, U64)

(* KeymeshTransaction::validate *)
ValidTransaction(tx) == tx.chain # 0 /\ Len(tx.data) <= MaxDataBytes

(* encode_canonical *)
EncodeCanonical(tx) ==
    <<2>> \o <<tx.wallet>>
    \o BigEndian(tx.chain, U256) \o BigEndian(tx.nonce, U256)
    \o <<tx.to>>
    \o BigEndian(tx.value, U256)
    \o WriteBytes(tx.data)
    \o BigEndian(tx.expiry, U256)

(* TssRotationRequest::canonical_bytes: who proposed, and why, is left out. *)
RotationBytes(r) ==
    <<1>> \o BigEndian(r.id, U64) \o <<r.wallet>>
    \o BigEndian(r.version, U64)
    \o BigEndian(Len(r.participants), U64)
    \o FlattenSeq([i \in DOMAIN r.participants |->
                       BigEndian(Len(r.participants[i]), U64) \o r.participants[i]])
    \o BigEndian(r.threshold, U64) \o BigEndian(r.quorum, U64)
    \o BigEndian(r.timelock, U64) \o BigEndian(r.createdAt, U64)
    \o <<r.groupKey>>

(* MockSigningService::composite *)
Composite(m) == m.domain \o <<0>> \o m.payload

(* to_sign_bytes *)
ToSignBytes(e) ==
    e.version \o <<0>>
    \o <<e.session>> \o <<e.wallet>> \o BigEndian(e.chain, U64)
    \o <<e.participant>> \o <<e.round>>
    \o e.messageType \o <<0>>
    \o <<e.digest>> \o e.payload

----------------------------------------------------------------------------
(* What the encodings promise *)

Kinds == {"u8", "u32", "u64", "bytes"}

Values(kind) == IF kind = "bytes" THEN Texts ELSE Numbers

(* Reading kinds in order: the values read, and what reading leaves. *)
Decoded(kinds, buffer) ==
    FoldLeft(LAMBDA d, kind :
                 IF ~d.ok THEN d
                 ELSE LET read == Read(kind, d.rest)
                      IN  [ok |-> read.ok, rest |-> read.rest,
                           values |-> Append(d.values, read.value)],
             [ok |-> TRUE, rest |-> buffer, values |-> <<>>],
             kinds)

Encoded(kinds, values) ==
    FlattenSeq([i \in DOMAIN kinds |-> Write(kinds[i], values[i])])

(* A buffer of any bytes that is read to its end is what the values read   *)
(* are written as: nothing truncated or overlong is read, and no values    *)
(* have two encodings.                                                     *)
DecodesOnlyEncodings ==
    \A kinds \in BoundedSeq(Kinds, 2), buffer \in BoundedSeq(Bytes, 4) :
        LET d == Decoded(kinds, buffer)
        IN  d.ok /\ Finish(d.rest) => Encoded(kinds, d.values) = buffer

(* What is written is read again, in the order it was written.             *)
RoundTrips ==
    \A k1, k2 \in Kinds : \A v1 \in Values(k1), v2 \in Values(k2) :
        LET fits(k, v) == k \in {"u8", "u32"} => v \in Bytes
            d == Decoded(<<k1, k2>>, Encoded(<<k1, k2>>, <<v1, v2>>))
        IN  fits(k1, v1) /\ fits(k2, v2) =>
                d.ok /\ d.values = <<v1, v2>> /\ Finish(d.rest)

Injective(Encode(_), inputs) ==
    Cardinality({Encode(x) : x \in inputs}) = Cardinality(inputs)

Intents ==
    {r \in [id : Numbers, wallet : Texts, initiator : Texts, replacedDevice : Texts,
            newDevice : Texts \ {<<>>}, initiatedAt : {0}, quorumSnapshot : {1, 2},
            timelockSnapshot : Numbers] :
        r.newDevice # r.replacedDevice}

Txs ==
    [wallet : {0, 1}, chain : Numbers, nonce : Numbers, to : {0, 1},
     value : Numbers, data : Texts, expiry : Numbers]

Rotations ==
    [id : {1}, wallet : {0, 1}, version : {1, 5}, participants : BoundedSeq(Texts, 3),
     threshold : Numbers, quorum : {1, 2}, timelock : Numbers, createdAt : {0},
     groupKey : {0, 1}]

(* A string of an envelope has no zero byte. *)
NonZero == {s \in Texts : ~Contains(s, 0)}

EnvelopeFields ==
    [version : NonZero, session : {0, 1}, wallet : {0, 1}, chain : Numbers,
     participant : {0, 1}, round : {0, 1}, messageType : NonZero, digest : {0, 1},
     payload : Texts]

(* No two recovery intents, no two rotations, no two transactions, no two  *)
(* messages of the signing domains and no two envelopes (of versions and   *)
(* types without a zero byte) are one byte string; what the Encoder        *)
(* writes, and nothing else, the Decoder reads.                            *)
BytesDetermineMeaning ==
    /\ Injective(CanonicalBytes, Intents)
    /\ Injective(RotationBytes, Rotations)
    /\ Injective(EncodeCanonical, {tx \in Txs : ValidTransaction(tx)})
    /\ Injective(Composite, [domain : DomainTags, payload : Texts])
    /\ Injective(ToSignBytes, EnvelopeFields)
    /\ RoundTrips
    /\ DecodesOnlyEncodings
=============================================================================
