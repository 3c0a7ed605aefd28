----------------------- MODULE ThresholdPrototype_proofs -----------------------
(***************************************************************************)
(* Theorems about ThresholdPrototype, for any bindings, participants,      *)
(* bounds and order of the scalar field; which shares sign, for an order   *)
(* greater than the indices presented.                                     *)
(***************************************************************************)
EXTENDS ThresholdPrototype, SequenceTheorems, FiniteSetTheorems, WellFoundedInduction,
        TLAPS

----------------------------------------------------------------------------
(* Session ids *)

LEMMA SameFront ==
    ASSUME NEW s \in Bytes, NEW t \in Bytes, NEW u \in Bytes, NEW v \in Bytes,
           Len(s) = Len(u), s \o t = u \o v
    PROVE  s = u /\ t = v
<1>1. /\ Len(s \o t) = Len(s) + Len(t)
      /\ \A i \in 1 .. Len(s) + Len(t) :
            (s \o t)[i] = IF i <= Len(s) THEN s[i] ELSE t[i - Len(s)]
  BY ConcatProperties DEF Bytes
<1>2. /\ Len(u \o v) = Len(u) + Len(v)
      /\ \A i \in 1 .. Len(u) + Len(v) :
            (u \o v)[i] = IF i <= Len(u) THEN u[i] ELSE v[i - Len(u)]
  BY ConcatProperties DEF Bytes
<1>3. /\ Len(s) \in Nat /\ Len(t) \in Nat /\ Len(v) \in Nat
      /\ Len(u) \in Nat /\ Len(t) = Len(v)
  BY <1>1, <1>2, LenProperties DEF Bytes
<1>4. \A i \in 1 .. Len(s) : s[i] = u[i]
  BY <1>1, <1>2, <1>3
<1>5. \A i \in 1 .. Len(t) : t[i] = v[i]
  <2> SUFFICES ASSUME NEW i \in 1 .. Len(t) PROVE t[i] = v[i]
    OBVIOUS
  <2>1. PICK k \in Nat : k = Len(s)
    BY <1>3
  <2>2. i + k \in 1 .. k + Len(t) /\ ~(i + k <= k) /\ (i + k) - k = i
    BY <1>3
  <2>3. (s \o t)[i + k] = t[i]
    BY <1>1, <2>1, <2>2
  <2>4. (u \o v)[i + k] = v[i]
    BY <1>2, <1>3, <2>1, <2>2
  <2> QED
    BY <2>3, <2>4
<1>6. s = u
  BY <1>4, SeqEqual DEF Bytes
<1>7. t = v
  BY <1>3, <1>5, SeqEqual DEF Bytes
<1> QED
  BY <1>6, <1>7

LEMMA Joined ==
    ASSUME NEW s \in Bytes, NEW t \in Bytes
    PROVE  s \o t \in Bytes /\ Len(s \o t) = Len(s) + Len(t) /\ Len(s \o t) \in Nat
BY ConcatProperties, LenProperties DEF Bytes

LEMMA U256Bytes ==
    ASSUME NEW n \in Nat
    PROVE  U256(n) \in Bytes /\ Len(U256(n)) = 2
<1>1. n \div 16 \in Nat /\ n % 16 \in Nat
  OBVIOUS
<1> QED
  BY <1>1 DEF U256, Bytes

LEMMA U256Tells ==
    ASSUME NEW n \in Nat, NEW m \in Nat, U256(n) = U256(m)
    PROVE  n = m
<1>1. n \div 16 = m \div 16 /\ n % 16 = m % 16
  BY DEF U256
<1>2. n = 16 * (n \div 16) + (n % 16) /\ m = 16 * (m \div 16) + (m % 16)
  OBVIOUS
<1> QED
  BY <1>1, <1>2

(* What is hashed, up to and including a field. *)
UpToChain(b) == b.wallet \o U256(b.chain)
UpToNonce(b) == UpToChain(b) \o U256(b.nonce)
UpToDigest(b) == UpToNonce(b) \o b.digest
UpToVersion(b) == UpToDigest(b) \o U256(b.policyVersion)
UpToProtocol(b) == UpToVersion(b) \o b.protocol

LEMMA FieldBytes ==
    ASSUME NEW b \in SessionBindings
    PROVE  /\ b.wallet \in Bytes /\ b.digest \in Bytes
           /\ b.random \in Bytes /\ b.protocol \in Bytes
           /\ U256(b.chain) \in Bytes /\ Len(U256(b.chain)) = 2
           /\ U256(b.nonce) \in Bytes /\ Len(U256(b.nonce)) = 2
           /\ U256(b.policyVersion) \in Bytes /\ Len(U256(b.policyVersion)) = 2
BY BindingAssumption, U256Bytes

LEMMA PartBytes ==
    ASSUME NEW b \in SessionBindings
    PROVE  /\ UpToChain(b) \in Bytes /\ UpToNonce(b) \in Bytes
           /\ UpToDigest(b) \in Bytes /\ UpToVersion(b) \in Bytes
           /\ UpToProtocol(b) \in Bytes
           /\ Len(UpToChain(b)) = Len(b.wallet) + 2
           /\ Len(UpToNonce(b)) = Len(UpToChain(b)) + 2
           /\ Len(UpToDigest(b)) = Len(UpToNonce(b)) + Len(b.digest)
           /\ Len(UpToVersion(b)) = Len(UpToDigest(b)) + 2
<1>1. UpToChain(b) \in Bytes /\ Len(UpToChain(b)) = Len(b.wallet) + 2
  <2>1. b.wallet \in Bytes /\ U256(b.chain) \in Bytes /\ Len(U256(b.chain)) = 2
    BY FieldBytes
  <2> QED
    BY <2>1, Joined DEF UpToChain
<1>2. UpToNonce(b) \in Bytes /\ Len(UpToNonce(b)) = Len(UpToChain(b)) + 2
  BY <1>1, FieldBytes, Joined DEF UpToNonce
<1>3. UpToDigest(b) \in Bytes /\ Len(UpToDigest(b)) = Len(UpToNonce(b)) + Len(b.digest)
  BY <1>2, FieldBytes, Joined DEF UpToDigest
<1>4. UpToVersion(b) \in Bytes /\ Len(UpToVersion(b)) = Len(UpToDigest(b)) + 2
  BY <1>3, FieldBytes, Joined DEF UpToVersion
<1>5. UpToProtocol(b) \in Bytes
  BY <1>4, FieldBytes, Joined DEF UpToProtocol
<1> QED
  BY <1>1, <1>2, <1>3, <1>4, <1>5

(* A session id stands for one binding: every field of it, the random      *)
(* bytes included, can be read off what is hashed, although nothing marks  *)
(* where the name of the protocol ends.                                    *)
THEOREM SessionIdTellsBinding ==
    ASSUME NEW b \in SessionBindings, NEW c \in SessionBindings,
           DeriveSessionId(b) = DeriveSessionId(c)
    PROVE  /\ HandshakeValidFields(b, c)
           /\ b.random = c.random
<1>1. Len(b.digest) = Len(c.digest) /\ Len(b.random) = Len(c.random)
      /\ Len(b.wallet) = Len(c.wallet)
  BY BindingAssumption
<1>2. /\ Len(UpToChain(b)) = Len(UpToChain(c))
      /\ Len(UpToNonce(b)) = Len(UpToNonce(c))
      /\ Len(UpToDigest(b)) = Len(UpToDigest(c))
      /\ Len(UpToVersion(b)) = Len(UpToVersion(c))
  BY <1>1, PartBytes
<1>3. UpToProtocol(b) \o b.random = UpToProtocol(c) \o c.random
  BY DEF DeriveSessionId, UpToProtocol, UpToVersion, UpToDigest, UpToNonce, UpToChain
<1>4. b.random = c.random /\ UpToProtocol(b) = UpToProtocol(c)
  <2>1. /\ UpToProtocol(b) \in Bytes /\ UpToProtocol(c) \in Bytes
        /\ b.random \in Bytes /\ c.random \in Bytes
    BY FieldBytes, PartBytes
  <2>2. /\ Len(UpToProtocol(b) \o b.random) = Len(UpToProtocol(b)) + Len(b.random)
        /\ Len(UpToProtocol(c) \o c.random) = Len(UpToProtocol(c)) + Len(c.random)
        /\ Len(UpToProtocol(b)) \in Nat /\ Len(UpToProtocol(c)) \in Nat
        /\ Len(b.random) \in Nat /\ Len(c.random) \in Nat
    BY <2>1, Joined, LenProperties DEF Bytes
  <2>3. Len(UpToProtocol(b)) = Len(UpToProtocol(c))
    BY <1>1, <1>3, <2>2
  <2> QED
    BY <1>3, <2>1, <2>3, SameFront
<1>5. b.protocol = c.protocol /\ UpToVersion(b) = UpToVersion(c)
  <2>1. /\ UpToVersion(b) \in Bytes /\ UpToVersion(c) \in Bytes
        /\ b.protocol \in Bytes /\ c.protocol \in Bytes
        /\ Len(UpToVersion(b)) = Len(UpToVersion(c))
    BY FieldBytes, PartBytes, <1>2
  <2>2. UpToVersion(b) \o b.protocol = UpToVersion(c) \o c.protocol
    BY <1>4 DEF UpToProtocol
  <2> QED
    BY <2>1, <2>2, SameFront
<1>6. U256(b.policyVersion) = U256(c.policyVersion) /\ UpToDigest(b) = UpToDigest(c)
  <2>1. /\ UpToDigest(b) \in Bytes /\ UpToDigest(c) \in Bytes
        /\ U256(b.policyVersion) \in Bytes /\ U256(c.policyVersion) \in Bytes
        /\ Len(UpToDigest(b)) = Len(UpToDigest(c))
    BY FieldBytes, PartBytes, <1>2
  <2>2. UpToDigest(b) \o U256(b.policyVersion) = UpToDigest(c) \o U256(c.policyVersion)
    BY <1>5 DEF UpToVersion
  <2> QED
    BY <2>1, <2>2, SameFront
<1>7. b.digest = c.digest /\ UpToNonce(b) = UpToNonce(c)
  <2>1. /\ UpToNonce(b) \in Bytes /\ UpToNonce(c) \in Bytes
        /\ b.digest \in Bytes /\ c.digest \in Bytes
        /\ Len(UpToNonce(b)) = Len(UpToNonce(c))
    BY FieldBytes, PartBytes, <1>2
  <2>2. UpToNonce(b) \o b.digest = UpToNonce(c) \o c.digest
    BY <1>6 DEF UpToDigest
  <2> QED
    BY <2>1, <2>2, SameFront
<1>8. U256(b.nonce) = U256(c.nonce) /\ UpToChain(b) = UpToChain(c)
  <2>1. /\ UpToChain(b) \in Bytes /\ UpToChain(c) \in Bytes
        /\ U256(b.nonce) \in Bytes /\ U256(c.nonce) \in Bytes
        /\ Len(UpToChain(b)) = Len(UpToChain(c))
    BY FieldBytes, PartBytes, <1>2
  <2>2. UpToChain(b) \o U256(b.nonce) = UpToChain(c) \o U256(c.nonce)
    BY <1>7 DEF UpToNonce
  <2> QED
    BY <2>1, <2>2, SameFront
<1>9. U256(b.chain) = U256(c.chain) /\ b.wallet = c.wallet
  <2>1. /\ b.wallet \in Bytes /\ c.wallet \in Bytes
        /\ U256(b.chain) \in Bytes /\ U256(c.chain) \in Bytes
        /\ Len(b.wallet) = Len(c.wallet)
    BY FieldBytes, <1>1
  <2>2. b.wallet \o U256(b.chain) = c.wallet \o U256(c.chain)
    BY <1>8 DEF UpToChain
  <2> QED
    BY <2>1, <2>2, SameFront
<1>10. b.chain = c.chain /\ b.nonce = c.nonce /\ b.policyVersion = c.policyVersion
  BY <1>6, <1>8, <1>9, U256Tells, BindingAssumption
<1> QED
  BY <1>4, <1>5, <1>7, <1>9, <1>10 DEF HandshakeValidFields
----------------------------------------------------------------------------
(* The transport *)

SessionIds == {DeriveSessionId(b) : b \in SessionBindings}

Digests == {b.digest : b \in SessionBindings}

MessageType == [session: SessionIds, sender: Senders, round: Rounds, digest: Digests]

(* What the transport holds was sent, but for its digest. *)
TransportInv ==
    /\ messages \in Seq(MessageType)
    /\ sent \subseteq {Message(s, r, b) : s \in Senders, r \in Rounds, b \in SessionBindings}
    /\ \A i \in DOMAIN messages : \E m \in sent :
          /\ m.session = messages[i].session
          /\ m.sender = messages[i].sender
          /\ m.round = messages[i].round

LEMMA MessageTyped ==
    ASSUME NEW s \in Senders, NEW r \in Rounds, NEW b \in SessionBindings
    PROVE  Message(s, r, b) \in MessageType
BY DEF Message, MessageType, SessionIds, Digests

(* A list of messages each of which has, but for its digest, the fields of *)
(* one held before was sent too.                                           *)
LEMMA HeldKept ==
    ASSUME TransportInv, messages' \in Seq(MessageType), UNCHANGED sent,
           \A i \in DOMAIN messages' : \E j \in DOMAIN messages :
               /\ messages'[i].session = messages[j].session
               /\ messages'[i].sender = messages[j].sender
               /\ messages'[i].round = messages[j].round
    PROVE  TransportInv'
<1> SUFFICES ASSUME NEW i \in DOMAIN messages'
             PROVE  \E m \in sent : /\ m.session = messages'[i].session
                                    /\ m.sender = messages'[i].sender
                                    /\ m.round = messages'[i].round
  BY DEF TransportInv
<1>1. PICK j \in DOMAIN messages : /\ messages'[i].session = messages[j].session
                                   /\ messages'[i].sender = messages[j].sender
                                   /\ messages'[i].round = messages[j].round
  OBVIOUS
<1> QED
  BY <1>1 DEF TransportInv

LEMMA SendKept ==
    ASSUME TransportInv, NEW s \in Senders, NEW r \in Rounds, NEW b \in SessionBindings,
           Send(s, r, b)
    PROVE  TransportInv'
<1> DEFINE m == Message(s, r, b)
<1>1. m \in MessageType
  BY MessageTyped
<1>2. sent' = sent \cup {m} /\ messages' = Append(messages, m)
  BY DEF Send, Transported
<1>3. m \in {Message(x, y, z) : x \in Senders, y \in Rounds, z \in SessionBindings}
  OBVIOUS
<1> HIDE DEF m
<1>4. /\ messages' \in Seq(MessageType)
      /\ DOMAIN messages' = 1 .. Len(messages) + 1
      /\ DOMAIN messages = 1 .. Len(messages)
      /\ messages'[Len(messages) + 1] = m
      /\ \A i \in 1 .. Len(messages) : messages'[i] = messages[i]
  BY <1>1, <1>2 DEF TransportInv
<1>5. \A i \in DOMAIN messages' : \E n \in sent' :
          /\ n.session = messages'[i].session
          /\ n.sender = messages'[i].sender
          /\ n.round = messages'[i].round
  <2> SUFFICES ASSUME NEW i \in DOMAIN messages'
               PROVE  \E n \in sent' : /\ n.session = messages'[i].session
                                       /\ n.sender = messages'[i].sender
                                       /\ n.round = messages'[i].round
    OBVIOUS
  <2>1. CASE i = Len(messages) + 1
    BY <1>2, <1>4, <2>1
  <2>2. CASE i \in 1 .. Len(messages)
    BY <1>2, <1>4, <2>2 DEF TransportInv
  <2>3. Len(messages) \in Nat
    BY DEF TransportInv
  <2> QED
    BY <1>4, <2>1, <2>2, <2>3
<1> QED
  BY <1>2, <1>3, <1>4, <1>5 DEF TransportInv

LEMMA DropKept ==
    ASSUME TransportInv, NEW s, DropFrom(s)
    PROVE  TransportInv'
<1> DEFINE others == {i \in DOMAIN messages : messages[i].sender # s}
<1>1. PICK place \in [1 .. Cardinality(others) -> others] :
          Transported([i \in DOMAIN place |-> messages[place[i]]])
  BY DEF DropFrom
<1>2. messages' = [i \in 1 .. Cardinality(others) |-> messages[place[i]]]
  BY <1>1 DEF Transported
<1>3. UNCHANGED sent
  BY DEF DropFrom
<1>4. messages \in Seq(MessageType) /\ DOMAIN messages = 1 .. Len(messages)
      /\ Len(messages) \in Nat
  BY DEF TransportInv
<1>5. others \subseteq 1 .. Len(messages)
  BY <1>4
<1>6. Cardinality(others) \in Nat
  <2>1. IsFiniteSet(1 .. Len(messages))
    BY <1>4, FS_Interval
  <2>2. IsFiniteSet(others)
    BY <1>5, <2>1, FS_Subset
  <2> QED
    BY <2>2, FS_CardinalityType
<1>7. \A i \in 1 .. Cardinality(others) : place[i] \in DOMAIN messages
  BY <1>1, <1>4, <1>5
<1> HIDE DEF others
<1>8. \A i \in 1 .. Cardinality(others) : messages[place[i]] \in MessageType
  BY <1>4, <1>7
<1>9. messages' \in Seq(MessageType)
  BY <1>2, <1>6, <1>8
<1> QED
  BY <1>2, <1>3, <1>7, <1>9, HeldKept

LEMMA DuplicateKept ==
    ASSUME TransportInv, DuplicateFirst
    PROVE  TransportInv'
<1>1. /\ messages # <<>> /\ messages' = Append(messages, Head(messages)) /\ UNCHANGED sent
  BY DEF DuplicateFirst, Transported
<1>2. messages \in Seq(MessageType)
  BY DEF TransportInv
<1>3. /\ Len(messages) \in Nat /\ Len(messages) >= 1
      /\ DOMAIN messages = 1 .. Len(messages)
      /\ Head(messages) = messages[1] /\ messages[1] \in MessageType
  BY <1>1, <1>2
<1>4. /\ messages' \in Seq(MessageType)
      /\ DOMAIN messages' = 1 .. Len(messages) + 1
      /\ messages'[Len(messages) + 1] = messages[1]
      /\ \A i \in 1 .. Len(messages) : messages'[i] = messages[i]
  BY <1>1, <1>2, <1>3
<1>5. \A i \in DOMAIN messages' : \E j \in DOMAIN messages : messages'[i] = messages[j]
  BY <1>3, <1>4
<1> QED
  BY <1>1, <1>4, <1>5, HeldKept

LEMMA ReorderKept ==
    ASSUME TransportInv, Reorder
    PROVE  TransportInv'
<1>1. /\ Len(messages) >= 2 /\ UNCHANGED sent
      /\ messages' = [messages EXCEPT ![1] = messages[2], ![2] = messages[1]]
  BY DEF Reorder, Transported
<1>2. messages \in Seq(MessageType) /\ DOMAIN messages = 1 .. Len(messages)
      /\ Len(messages) \in Nat
  BY DEF TransportInv
<1>3. 1 \in DOMAIN messages /\ 2 \in DOMAIN messages
  BY <1>1, <1>2
<1>4. messages' = [i \in 1 .. Len(messages) |->
                      IF i = 2 THEN messages[1] ELSE IF i = 1 THEN messages[2] ELSE messages[i]]
  BY <1>1, <1>2, <1>3
<1>5. \A i \in 1 .. Len(messages) : messages'[i] \in MessageType
  BY <1>2, <1>3, <1>4
<1>6. messages' \in Seq(MessageType)
  BY <1>2, <1>4, <1>5
<1>7. ASSUME NEW i \in DOMAIN messages'
      PROVE  \E j \in DOMAIN messages : messages'[i] = messages[j]
  <2>1. i \in DOMAIN messages
    BY <1>2, <1>4, <1>7
  <2>2. CASE i = 1
    BY <1>2, <1>3, <1>4, <2>1, <2>2
  <2>3. CASE i = 2
    BY <1>2, <1>3, <1>4, <2>1, <2>3
  <2>4. CASE i # 1 /\ i # 2
    BY <1>2, <1>4, <2>1, <2>4
  <2> QED
    BY <2>2, <2>3, <2>4
<1>8. \A i \in DOMAIN messages' : \E j \in DOMAIN messages :
          /\ messages'[i].session = messages[j].session
          /\ messages'[i].sender = messages[j].sender
          /\ messages'[i].round = messages[j].round
  BY <1>7
<1> QED
  BY <1>1, <1>6, <1>8, HeldKept

LEMMA ModifyKept ==
    ASSUME TransportInv, NEW b \in SessionBindings, ModifyFirstDigest(b.digest)
    PROVE  TransportInv'
<1>1. /\ messages # <<>> /\ UNCHANGED sent
      /\ messages' = [messages EXCEPT ![1].digest = b.digest]
  BY DEF ModifyFirstDigest, Transported
<1>2. messages \in Seq(MessageType) /\ DOMAIN messages = 1 .. Len(messages)
      /\ Len(messages) \in Nat /\ b.digest \in Digests
  BY DEF TransportInv, Digests
<1>3. 1 \in DOMAIN messages
  BY <1>1, <1>2
<1>4. messages' = [i \in 1 .. Len(messages) |->
                      IF i = 1 THEN [messages[1] EXCEPT !.digest = b.digest] ELSE messages[i]]
  BY <1>1, <1>2, <1>3
<1>5. messages[1] \in MessageType
  BY <1>2, <1>3
<1>6. /\ [messages[1] EXCEPT !.digest = b.digest] \in MessageType
      /\ [messages[1] EXCEPT !.digest = b.digest].session = messages[1].session
      /\ [messages[1] EXCEPT !.digest = b.digest].sender = messages[1].sender
      /\ [messages[1] EXCEPT !.digest = b.digest].round = messages[1].round
  BY <1>2, <1>5 DEF MessageType
<1>7. \A i \in 1 .. Len(messages) : messages'[i] \in MessageType
  BY <1>2, <1>4, <1>6
<1>8. messages' \in Seq(MessageType)
  BY <1>2, <1>4, <1>7
<1>9. \A i \in DOMAIN messages' :
          /\ messages'[i].session = messages[i].session
          /\ messages'[i].sender = messages[i].sender
          /\ messages'[i].round = messages[i].round
  BY <1>2, <1>3, <1>4, <1>6
<1>10. DOMAIN messages' = DOMAIN messages
  BY <1>2, <1>4
<1> QED
  BY <1>1, <1>8, <1>9, <1>10, HeldKept
LEMMA TransportInvariance == Spec => []TransportInv
<1>1. Init => TransportInv
  <2> SUFFICES ASSUME Init PROVE TransportInv
    OBVIOUS
  <2>1. messages = <<>> /\ sent = {}
    BY DEF Init
  <2>2. messages \in Seq(MessageType) /\ DOMAIN messages = {}
    BY <2>1
  <2> QED
    BY <2>1, <2>2 DEF TransportInv
<1>2. TransportInv /\ [Next]_vars => TransportInv'
  <2> SUFFICES ASSUME TransportInv, [Next]_vars PROVE TransportInv'
    OBVIOUS
  <2>1. CASE UNCHANGED <<messages, sent>>
    BY <2>1 DEF TransportInv
  <2>2. ASSUME NEW a \in Scalars, NEW b \in Scalars, Contribute(a, b) PROVE TransportInv'
    BY <2>1, <2>2 DEF Contribute
  <2>3. CASE DistributedKeygen
    BY <2>1, <2>3 DEF DistributedKeygen
  <2>4. ASSUME NEW s \in Senders, NEW r \in Rounds, NEW b \in SessionBindings, Send(s, r, b)
        PROVE  TransportInv'
    BY <2>4, SendKept
  <2>5. ASSUME NEW s \in Senders, DropFrom(s) PROVE TransportInv'
    BY <2>5, DropKept
  <2>6. ASSUME NEW b \in SessionBindings, ModifyFirstDigest(b.digest) PROVE TransportInv'
    BY <2>6, ModifyKept
  <2>7. CASE UNCHANGED vars
    BY <2>1, <2>7 DEF vars
  <2> QED
    BY <2>2, <2>3, <2>4, <2>5, <2>6, <2>7, DuplicateKept, ReorderKept DEF Next
<1> QED
  BY <1>1, <1>2, PTL DEF Spec

(* Different senders or rounds leave room for so many messages only. *)
LEMMA RoundsBound ==
    ASSUME messages \in Seq(MessageType), CheckNoDuplicate, CheckRoundOrder
    PROVE  Len(messages) <= LastRound * Cardinality(Senders)
<1> DEFINE n == Len(messages)
           places == (1 .. LastRound) \X Senders
           at == [i \in 1 .. n |-> <<messages[i].round, messages[i].sender>>]
<1>1. n \in Nat /\ DOMAIN messages = 1 .. n
  OBVIOUS
<1>2. at \in [1 .. n -> places]
  <2> SUFFICES ASSUME NEW i \in 1 .. n
               PROVE  <<messages[i].round, messages[i].sender>> \in places
    OBVIOUS
  <2>1. messages[i] \in MessageType
    BY <1>1
  <2>2. messages[i].round \in 1 .. LastRound
    BY <1>1 DEF CheckRoundOrder
  <2> QED
    BY <2>1, <2>2 DEF MessageType
<1>3. \A i, j \in 1 .. n : at[i] = at[j] => i = j
  <2> SUFFICES ASSUME NEW i \in 1 .. n, NEW j \in 1 .. n, at[i] = at[j] PROVE i = j
    OBVIOUS
  <2>1. messages[i].round = messages[j].round /\ messages[i].sender = messages[j].sender
    OBVIOUS
  <2> QED
    BY <1>1, <2>1 DEF CheckNoDuplicate, Distinct, IsInjective
<1>4. at \in Injection(1 .. n, places)
  <2>1. DOMAIN at = 1 .. n
    OBVIOUS
  <2>2. IsInjective(at)
    BY <1>3, <2>1 DEF IsInjective
  <2> QED
    BY <1>2, <2>2 DEF Injection
<1>5. IsFiniteSet(1 .. LastRound) /\ Cardinality(1 .. LastRound) = LastRound
  <2>1. LastRound \in Nat
    BY PrototypeAssumption
  <2> QED
    BY <2>1, FS_Interval
<1>6. IsFiniteSet(places) /\ Cardinality(places) = LastRound * Cardinality(Senders)
  BY <1>5, PrototypeAssumption, FS_Product
<1>7. Cardinality(1 .. n) = n
  BY <1>1, FS_Interval
<1> HIDE DEF at, places, n
<1>8. Cardinality(1 .. n) <= Cardinality(places)
  BY <1>4, <1>6, FS_Injection
<1> QED
  BY <1>6, <1>7, <1>8 DEF n

(* What the checks accept for a session is a part of what was sent for it, *)
(* each message once and as it was sent: an altered digest differs from    *)
(* the one the session id stands for.                                      *)
THEOREM CheckedWasSent == Spec => []ChecksCatchFaults
<1>1. TransportInv => ChecksCatchFaults
  <2> SUFFICES ASSUME TransportInv, NEW b \in SessionBindings,
                      VerifyBinding(b), CheckNoDuplicate, CheckRoundOrder
               PROVE  /\ Len(messages) <= LastRound * Cardinality(Senders)
                      /\ \A i \in DOMAIN messages :
                            /\ messages[i] \in sent
                            /\ messages[i] = Message(messages[i].sender, messages[i].round, b)
                      /\ Distinct(messages)
    BY DEF ChecksCatchFaults
  <2>1. messages \in Seq(MessageType)
    BY DEF TransportInv
  <2>2. ASSUME NEW i \in DOMAIN messages
        PROVE  /\ messages[i] \in sent
               /\ messages[i] = Message(messages[i].sender, messages[i].round, b)
    <3>1. messages[i] \in MessageType
      BY <2>1, <2>2
    <3>2. messages[i].session = DeriveSessionId(b) /\ messages[i].digest = b.digest
      BY <2>2 DEF VerifyBinding
    <3>3. messages[i] = Message(messages[i].sender, messages[i].round, b)
      BY <3>1, <3>2 DEF MessageType, Message
    <3>4. PICK m \in sent : /\ m.session = messages[i].session
                            /\ m.sender = messages[i].sender
                            /\ m.round = messages[i].round
      BY <2>2 DEF TransportInv
    <3>5. PICK s \in Senders, r \in Rounds, c \in SessionBindings : m = Message(s, r, c)
      BY <3>4 DEF TransportInv
    <3>6. m.session = DeriveSessionId(c) /\ m.digest = c.digest
          /\ m.sender = s /\ m.round = r
      BY <3>5 DEF Message
    <3>7. c.digest = b.digest
      BY <3>2, <3>4, <3>5, <3>6, SessionIdTellsBinding DEF HandshakeValidFields
    <3>8. m = messages[i]
      BY <3>2, <3>3, <3>4, <3>5, <3>6, <3>7 DEF Message
    <3> QED
      BY <3>3, <3>4, <3>8
  <2>3. Distinct(messages)
    <3> SUFFICES ASSUME NEW i \in DOMAIN messages, NEW j \in DOMAIN messages,
                        messages[i] = messages[j]
                 PROVE  i = j
      BY DEF Distinct, IsInjective
    <3> DEFINE at == [k \in DOMAIN messages |-> <<messages[k].sender, messages[k].round>>]
    <3>1. at[i] = at[j] /\ DOMAIN at = DOMAIN messages
      OBVIOUS
    <3>2. IsInjective(at)
      BY DEF CheckNoDuplicate, Distinct
    <3> HIDE DEF at
    <3> QED
      BY <3>1, <3>2 DEF IsInjective
  <2> QED
    BY <2>1, <2>2, <2>3, RoundsBound
<1> QED
  BY <1>1, TransportInvariance, PTL
----------------------------------------------------------------------------
(* Arithmetic in the scalar field *)

Congruent(a, b) == \E k \in Int : a = b + P * k

LEMMA FieldOrder == P \in Nat /\ P > 1 /\ P > 0
BY PrototypeAssumption

LEMMA Divided ==
    ASSUME NEW a \in Int, NEW p \in Nat, p > 0
    PROVE  /\ a \div p \in Int /\ a % p \in Int /\ a = p * (a \div p) + (a % p)
           /\ 0 <= a % p /\ a % p < p
OBVIOUS

LEMMA Reduced ==
    ASSUME NEW a \in Int
    PROVE  a % P \in Int /\ 0 <= a % P /\ a % P < P /\ a % P \in Scalars /\ Congruent(a % P, a)
<1>1. /\ a \div P \in Int /\ a % P \in Int /\ a = P * (a \div P) + (a % P)
      /\ 0 <= a % P /\ a % P < P
  BY Divided, FieldOrder
<1>2. PICK q \in Int, r \in Int : q = a \div P /\ r = a % P
  BY <1>1
<1>3. -q \in Int /\ r = a + P * (-q)
  BY <1>1, <1>2, FieldOrder
<1>4. Congruent(r, a)
  BY <1>3 DEF Congruent
<1> QED
  BY <1>1, <1>2, <1>4, FieldOrder DEF Scalars

LEMMA OfDifference ==
    ASSUME NEW a \in Int, NEW b \in Int, NEW k \in Int, a = b + P * k
    PROVE  Congruent(a, b)
BY DEF Congruent

LEMMA Itself ==
    ASSUME NEW a \in Int
    PROVE  Congruent(a, a)
<1>1. 0 \in Int /\ a = a + P * 0
  BY FieldOrder
<1> QED
  BY <1>1 DEF Congruent

LEMMA Symmetric ==
    ASSUME NEW a \in Int, NEW b \in Int, Congruent(a, b)
    PROVE  Congruent(b, a)
<1>1. PICK k \in Int : a = b + P * k
  BY DEF Congruent
<1>2. -k \in Int /\ b = a + P * (-k)
  BY <1>1, FieldOrder
<1> QED
  BY <1>2 DEF Congruent

LEMMA Transitive ==
    ASSUME NEW a \in Int, NEW b \in Int, NEW c \in Int, Congruent(a, b), Congruent(b, c)
    PROVE  Congruent(a, c)
<1>1. PICK k \in Int : a = b + P * k
  BY DEF Congruent
<1>2. PICK m \in Int : b = c + P * m
  BY DEF Congruent
<1>3. k + m \in Int /\ a = c + P * (k + m)
  BY <1>1, <1>2, FieldOrder
<1> QED
  BY <1>3 DEF Congruent

LEMMA SumsAgree ==
    ASSUME NEW a \in Int, NEW b \in Int, NEW c \in Int, NEW d \in Int,
           Congruent(a, b), Congruent(c, d)
    PROVE  Congruent(a + c, b + d) /\ Congruent(a - c, b - d)
<1>1. PICK k \in Int : a = b + P * k
  BY DEF Congruent
<1>2. PICK m \in Int : c = d + P * m
  BY DEF Congruent
<1>3. k + m \in Int /\ a + c = (b + d) + P * (k + m)
  BY <1>1, <1>2, FieldOrder
<1>4. k - m \in Int /\ a - c = (b - d) + P * (k - m)
  BY <1>1, <1>2, FieldOrder
<1> QED
  BY <1>3, <1>4 DEF Congruent

LEMMA ProductsAgree ==
    ASSUME NEW a \in Int, NEW b \in Int, NEW c \in Int, NEW d \in Int,
           Congruent(a, b), Congruent(c, d)
    PROVE  Congruent(a * c, b * d)
<1>1. PICK k \in Int : a = b + P * k
  BY DEF Congruent
<1>2. PICK m \in Int : c = d + P * m
  BY DEF Congruent
<1>3. /\ b * m + k * d + P * (k * m) \in Int
      /\ (b + P * k) * (d + P * m) = b * d + P * (b * m + k * d + P * (k * m))
  BY <1>1, <1>2, FieldOrder
<1>4. a * c = b * d + P * (b * m + k * d + P * (k * m))
  BY <1>1, <1>2, <1>3
<1> QED
  BY <1>3, <1>4 DEF Congruent

LEMMA NoMultiple ==
    ASSUME NEW a \in Int, -P < a, a < P, Congruent(a, 0)
    PROVE  a = 0
<1>1. PICK k \in Int : a = 0 + P * k
  BY DEF Congruent
<1>2. k < 1 /\ k > -1
  BY <1>1, FieldOrder
<1> QED
  BY <1>1, <1>2, FieldOrder

LEMMA SameRemainder ==
    ASSUME NEW a \in Int, NEW b \in Int
    PROVE  Congruent(a, b) <=> a % P = b % P
<1>1. /\ a % P \in Int /\ 0 <= a % P /\ a % P < P /\ Congruent(a % P, a)
      /\ b % P \in Int /\ 0 <= b % P /\ b % P < P /\ Congruent(b % P, b)
  BY Reduced
<1>2. PICK r \in Int, t \in Int : r = a % P /\ t = b % P
  BY <1>1
<1>3. ASSUME Congruent(a, b) PROVE r = t
  <2>1. Congruent(r, b)
    BY <1>1, <1>2, <1>3, Transitive
  <2>2. Congruent(b, t)
    BY <1>1, <1>2, Symmetric
  <2>3. Congruent(r, t) /\ Congruent(t, t)
    BY <2>1, <2>2, Transitive, Itself
  <2>4. Congruent(r - t, t - t)
    BY <2>3, SumsAgree
  <2>5. r - t \in Int /\ -P < r - t /\ r - t < P /\ t - t = 0
    BY <1>1, <1>2, FieldOrder
  <2>6. r - t = 0
    BY <2>4, <2>5, NoMultiple
  <2> QED
    BY <2>6
<1>4. ASSUME r = t PROVE Congruent(a, b)
  <2>1. Congruent(a, r)
    BY <1>1, <1>2, Symmetric
  <2> QED
    BY <1>1, <1>2, <1>4, <2>1, Transitive
<1> QED
  BY <1>2, <1>3, <1>4

LEMMA NatMin ==
    ASSUME NEW T, T \subseteq Nat, T # {}
    PROVE  \E x \in T : \A y \in T : x <= y
<1>1. IsWellFoundedOn(OpToRel(<, Nat), Nat)
  BY NatLessThanWellFounded
<1>2. PICK x \in T : \A y \in T : ~(<<y, x>> \in OpToRel(<, Nat))
  BY <1>1, WFMin
<1>3. ASSUME NEW y \in T PROVE x <= y
  <2>1. ~(<<y, x>> \in {pair \in Nat \X Nat : pair[1] < pair[2]})
    BY <1>2 DEF OpToRel
  <2> QED
    BY <2>1
<1> QED
  BY <1>3

(* In a field of prime order whatever is not zero has an inverse: the      *)
(* least positive multiple of it divides the order.                        *)
LEMMA InverseExists ==
    ASSUME NEW k \in Int, ~Congruent(k, 0)
    PROVE  \E e \in Int : Congruent(1, k * e)
<1> DEFINE T == {n \in 1 .. P - 1 : \E e \in Int : Congruent(n, k * e)}
<1>1. T \subseteq Nat /\ T # {}
  <2>1. k % P \in Int /\ 0 <= k % P /\ k % P < P /\ Congruent(k % P, k)
    BY Reduced
  <2>2. PICK r \in Int : r = k % P
    BY <2>1
  <2>3. r # 0
    BY <2>1, <2>2, Symmetric
  <2>4. r \in 1 .. P - 1 /\ 1 \in Int /\ k * 1 = k
    BY <2>1, <2>2, <2>3, FieldOrder
  <2>5. r \in T
    BY <2>1, <2>2, <2>4
  <2>6. T \subseteq Nat
    BY FieldOrder
  <2> QED
    BY <2>5, <2>6
<1>2. PICK d \in T : \A n \in T : d <= n
  <2> HIDE DEF T
  <2> QED
    BY <1>1, NatMin
<1>3. PICK e \in Int : Congruent(d, k * e)
  BY <1>2
<1>4. d \in Nat /\ d > 0 /\ d < P
  BY <1>2, FieldOrder
<1>5. /\ P \div d \in Int /\ P % d \in Int /\ P = d * (P \div d) + (P % d)
      /\ 0 <= P % d /\ P % d < d
  BY <1>4, FieldOrder, Divided
<1>6. PICK q \in Int, r \in Int : q = P \div d /\ r = P % d
  BY <1>5
<1>7. Congruent(r, k * (-(e * q)))
  <2>1. r \in Int /\ d * (-q) \in Int /\ r = d * (-q) + P * 1
    BY <1>4, <1>5, <1>6, FieldOrder
  <2>2. Congruent(r, d * (-q))
    BY <2>1, OfDifference
  <2>3. d \in Int /\ k * e \in Int /\ -q \in Int
    BY <1>4
  <2>4. Congruent(d * (-q), (k * e) * (-q))
    BY <1>3, <2>3, Itself, ProductsAgree
  <2>5. (k * e) * (-q) = k * (-(e * q)) /\ (k * e) * (-q) \in Int
    OBVIOUS
  <2> QED
    BY <2>1, <2>2, <2>4, <2>5, Transitive
<1>8. r = 0
  <2> SUFFICES ASSUME r # 0 PROVE FALSE
    OBVIOUS
  <2>1. r \in 1 .. P - 1 /\ ~(d <= r)
    BY <1>4, <1>5, <1>6, FieldOrder
  <2>2. -(e * q) \in Int
    OBVIOUS
  <2>3. r \in T
    BY <1>7, <2>1, <2>2
  <2> QED
    BY <1>2, <2>1, <2>3
<1>9. d = 1
  <2> SUFFICES ASSUME d # 1 PROVE FALSE
    OBVIOUS
  <2>1. d \in 2 .. P - 1
    BY <1>4, FieldOrder
  <2> QED
    BY <1>6, <1>8, <2>1, PrototypeAssumption
<1> QED
  BY <1>3, <1>9

LEMMA InverseWorks ==
    ASSUME NEW k \in Int, ~Congruent(k, 0)
    PROVE  Inverted(k % P) \in Int /\ Congruent(k * Inverted(k % P), 1)
<1>1. PICK e \in Int : Congruent(1, k * e)
  BY InverseExists
<1>2. PICK r \in Int : r = k % P /\ Congruent(r, k)
  BY Reduced
<1>3. PICK i \in Scalars : i = e % P /\ Congruent(i, e) /\ i \in Int
  BY Reduced
<1>4. r * i \in Int /\ k * e \in Int /\ 1 \in Int
  BY <1>2, <1>3
<1>5. Congruent(r * i, k * e)
  BY <1>2, <1>3, ProductsAgree
<1>6. Congruent(k * e, 1)
  BY <1>1, <1>4, Symmetric
<1>7. Congruent(r * i, 1)
  BY <1>4, <1>5, <1>6, Transitive
<1>8. 1 % P = 1
  BY FieldOrder
<1>9. (r * i) % P = 1
  BY <1>4, <1>7, <1>8, SameRemainder
<1>10. PICK j \in Scalars : j = Inverted(r) /\ (r * j) % P = 1
  BY <1>3, <1>9 DEF Inverted
<1>11. j \in Int /\ r * j \in Int /\ k * j \in Int
  BY FieldOrder DEF Scalars
<1>12. Congruent(r * j, 1)
  BY <1>4, <1>8, <1>10, <1>11, SameRemainder
<1>13. Congruent(k, r) /\ Congruent(j, j)
  BY <1>2, <1>11, Symmetric, Itself
<1>14. Congruent(k * j, r * j)
  BY <1>11, <1>13, ProductsAgree
<1>15. Congruent(k * j, 1)
  BY <1>4, <1>11, <1>12, <1>14, Transitive
<1> QED
  BY <1>2, <1>10, <1>11, <1>15

LEMMA NoZeroDivisors ==
    ASSUME NEW a \in Int, NEW b \in Int, Congruent(a * b, 0), ~Congruent(a, 0)
    PROVE  Congruent(b, 0)
<1>1. PICK i \in Int : Congruent(a * i, 1)
  BY InverseWorks
<1>2. /\ (a * b) * i \in Int /\ (a * i) * b \in Int /\ a * i \in Int /\ a * b \in Int
      /\ 1 * b = b /\ 0 * i = 0 /\ (a * b) * i = (a * i) * b /\ 0 \in Int /\ 1 \in Int
  OBVIOUS
<1>3. Congruent((a * i) * b, 1 * b)
  BY <1>1, <1>2, Itself, ProductsAgree
<1>4. Congruent((a * b) * i, 0 * i)
  BY <1>2, Itself, ProductsAgree
<1>5. Congruent(b, (a * i) * b)
  BY <1>2, <1>3, Symmetric
<1> QED
  BY <1>2, <1>4, <1>5, Transitive

----------------------------------------------------------------------------
(* Interpolation *)

LEMMA ProductStep ==
    ASSUME NEW s, NEW i, NEW m \in 0 .. 3, Len(s) = m
    PROVE  Products(s, i) =
               [n \in 0 .. m |->
                   IF n = 0 THEN 1 ELSE (Products(s, i)[n - 1] * Factor(s, i, n)) % P]
<1> DEFINE f1 == (1 * Factor(s, i, 1)) % P
           f2 == (f1 * Factor(s, i, 2)) % P
           f3 == (f2 * Factor(s, i, 3)) % P
           f == [n \in 0 .. m |->
                    IF n = 0 THEN 1 ELSE IF n = 1 THEN f1 ELSE IF n = 2 THEN f2 ELSE f3]
           G(g) == [n \in 0 .. m |-> IF n = 0 THEN 1 ELSE (g[n - 1] * Factor(s, i, n)) % P]
<1>1. ASSUME NEW n \in 0 .. m, n # 0
      PROVE  f[n] = (f[n - 1] * Factor(s, i, n)) % P
  <2>1. n - 1 \in 0 .. m /\ n \in {1, 2, 3}
    BY <1>1
  <2> HIDE DEF f1, f2, f3
  <2>2. f[n] = (IF n = 1 THEN f1 ELSE IF n = 2 THEN f2 ELSE f3)
    BY <1>1, <2>1
  <2>3. f[n - 1] = (IF n = 1 THEN 1 ELSE IF n = 2 THEN f1 ELSE f2)
    BY <2>1
  <2> USE DEF f1, f2, f3
  <2> HIDE DEF f
  <2>4. CASE n = 1
    BY <2>2, <2>3, <2>4
  <2>5. CASE n = 2
    BY <2>2, <2>3, <2>5
  <2>6. CASE n = 3
    BY <2>2, <2>3, <2>6
  <2> QED
    BY <2>1, <2>4, <2>5, <2>6
<1>2. f = G(f)
  <2>1. \A n \in 0 .. m :
            f[n] = IF n = 0 THEN 1 ELSE (f[n - 1] * Factor(s, i, n)) % P
    BY <1>1
  <2>2. f = [n \in 0 .. m |-> f[n]]
    OBVIOUS
  <2> HIDE DEF f
  <2> QED
    BY <2>1, <2>2
<1>3. Products(s, i) = CHOOSE g : g = G(g)
  BY DEF Products
<1> HIDE DEF f
<1>4. Products(s, i) = G(Products(s, i))
  <2> HIDE DEF G
  <2> QED
    BY <1>2, <1>3
<1> QED
  BY <1>4

LEMMA SumStep ==
    ASSUME NEW s, NEW m \in 0 .. 3, Len(s) = m
    PROVE  Sums(s) =
               [n \in 0 .. m |->
                   IF n = 0 THEN 0
                   ELSE (Sums(s)[n - 1] + Products(s, n)[m] * s[n].secret) % P]
<1> DEFINE T(n) == Products(s, n)[m] * s[n].secret
           f1 == (0 + T(1)) % P
           f2 == (f1 + T(2)) % P
           f3 == (f2 + T(3)) % P
           f == [n \in 0 .. m |->
                    IF n = 0 THEN 0 ELSE IF n = 1 THEN f1 ELSE IF n = 2 THEN f2 ELSE f3]
           G(g) == [n \in 0 .. m |-> IF n = 0 THEN 0 ELSE (g[n - 1] + T(n)) % P]
<1>1. ASSUME NEW n \in 0 .. m, n # 0
      PROVE  f[n] = (f[n - 1] + T(n)) % P
  <2> HIDE DEF T
  <2>1. n - 1 \in 0 .. m /\ n \in {1, 2, 3}
    BY <1>1
  <2> HIDE DEF f1, f2, f3
  <2>2. f[n] = (IF n = 1 THEN f1 ELSE IF n = 2 THEN f2 ELSE f3)
    BY <1>1, <2>1
  <2>3. f[n - 1] = (IF n = 1 THEN 0 ELSE IF n = 2 THEN f1 ELSE f2)
    BY <2>1
  <2> USE DEF f1, f2, f3
  <2> HIDE DEF f
  <2>4. CASE n = 1
    BY <2>2, <2>3, <2>4
  <2>5. CASE n = 2
    BY <2>2, <2>3, <2>5
  <2>6. CASE n = 3
    BY <2>2, <2>3, <2>6
  <2> QED
    BY <2>1, <2>4, <2>5, <2>6
<1>2. f = G(f)
  <2> HIDE DEF T
  <2>1. \A n \in 0 .. m : f[n] = IF n = 0 THEN 0 ELSE (f[n - 1] + T(n)) % P
    BY <1>1
  <2>2. f = [n \in 0 .. m |-> f[n]]
    OBVIOUS
  <2> HIDE DEF f
  <2> QED
    BY <2>1, <2>2
<1>3. Sums(s) = CHOOSE g : g = G(g)
  BY DEF Sums
<1> HIDE DEF f
<1>4. Sums(s) = G(Sums(s))
  <2> HIDE DEF G
  <2> QED
    BY <1>2, <1>3
<1> QED
  BY <1>4

LEMMA Times ==
    ASSUME NEW a \in Int, NEW b \in Int, NEW c \in Int, Congruent(a, b)
    PROVE  (a * c) % P \in Int /\ Congruent((a * c) % P, b * c)
<1>1. PICK x \in Int, y \in Int : x = a * c /\ y = b * c
  OBVIOUS
<1>2. Congruent(x, y)
  BY <1>1, Itself, ProductsAgree
<1>3. PICK r \in Int : r = x % P /\ Congruent(r, x)
  BY Reduced
<1>4. Congruent(r, y)
  BY <1>2, <1>3, Transitive
<1> QED
  BY <1>1, <1>3, <1>4

LEMMA Plus ==
    ASSUME NEW a \in Int, NEW b \in Int, NEW c \in Int, NEW d \in Int,
           Congruent(a, b), Congruent(c, d)
    PROVE  (a + c) % P \in Int /\ Congruent((a + c) % P, b + d)
<1>1. PICK x \in Int, y \in Int : x = a + c /\ y = b + d
  OBVIOUS
<1>2. Congruent(x, y)
  BY <1>1, SumsAgree
<1>3. PICK r \in Int : r = x % P /\ Congruent(r, x)
  BY Reduced
<1>4. Congruent(r, y)
  BY <1>2, <1>3, Transitive
<1> QED
  BY <1>1, <1>3, <1>4

LEMMA First ==
    ASSUME NEW f \in Int
    PROVE  (1 * f) % P \in Int /\ Congruent((1 * f) % P, f)
<1>1. PICK x \in Int : x = 1 * f /\ x = f
  OBVIOUS
<1>2. x % P \in Int /\ Congruent(x % P, x)
  BY Reduced
<1> QED
  BY <1>1, <1>2

(* The value at zero of the basis polynomial of share i. *)
LEMMA ProductOfOne ==
    ASSUME NEW s, NEW i, Len(s) = 1, NEW f \in Int, f = Factor(s, i, 1)
    PROVE  Products(s, i)[1] \in Int /\ Congruent(Products(s, i)[1], f)
<1>1. PICK g : g = Products(s, i)
  OBVIOUS
<1>2. g = [n \in 0 .. 1 |-> IF n = 0 THEN 1 ELSE (g[n - 1] * Factor(s, i, n)) % P]
  <2>1. 1 \in 0 .. 3
    OBVIOUS
  <2>2. Products(s, i) =
          [n \in 0 .. 1 |->
              IF n = 0 THEN 1 ELSE (Products(s, i)[n - 1] * Factor(s, i, n)) % P]
    BY <2>1, ProductStep
  <2> QED
    BY <1>1, <2>2
<1>3. g[0] = 1
  BY <1>2
<1>4. g[1] = (1 * f) % P
  BY <1>2, <1>3
<1>5. (1 * f) % P \in Int /\ Congruent((1 * f) % P, f)
  BY First
<1> QED
  BY <1>1, <1>4, <1>5

LEMMA ProductOfTwo ==
    ASSUME NEW s, NEW i, Len(s) = 2,
           NEW f \in Int, NEW h \in Int, f = Factor(s, i, 1), h = Factor(s, i, 2)
    PROVE  Products(s, i)[2] \in Int /\ Congruent(Products(s, i)[2], f * h)
<1>1. PICK g : g = Products(s, i)
  OBVIOUS
<1>2. g = [n \in 0 .. 2 |-> IF n = 0 THEN 1 ELSE (g[n - 1] * Factor(s, i, n)) % P]
  <2>1. 2 \in 0 .. 3
    OBVIOUS
  <2>2. Products(s, i) =
          [n \in 0 .. 2 |->
              IF n = 0 THEN 1 ELSE (Products(s, i)[n - 1] * Factor(s, i, n)) % P]
    BY <2>1, ProductStep
  <2> QED
    BY <1>1, <2>2
<1>3. g[0] = 1
  BY <1>2
<1>4. g[1] = (1 * f) % P
  BY <1>2, <1>3
<1>5. g[2] = (g[1] * h) % P
  BY <1>2
<1>6. (1 * f) % P \in Int /\ Congruent((1 * f) % P, f)
  BY First
<1>7. g[1] \in Int /\ Congruent(g[1], f)
  BY <1>4, <1>6
<1>8. (g[1] * h) % P \in Int /\ Congruent((g[1] * h) % P, f * h)
  BY <1>7, Times
<1> QED
  BY <1>1, <1>5, <1>8

LEMMA ProductOfThree ==
    ASSUME NEW s, NEW i, Len(s) = 3,
           NEW f \in Int, NEW h \in Int, NEW k \in Int,
           f = Factor(s, i, 1), h = Factor(s, i, 2), k = Factor(s, i, 3)
    PROVE  Products(s, i)[3] \in Int /\ Congruent(Products(s, i)[3], (f * h) * k)
<1>1. PICK g : g = Products(s, i)
  OBVIOUS
<1>2. g = [n \in 0 .. 3 |-> IF n = 0 THEN 1 ELSE (g[n - 1] * Factor(s, i, n)) % P]
  <2>1. 3 \in 0 .. 3
    OBVIOUS
  <2>2. Products(s, i) =
          [n \in 0 .. 3 |->
              IF n = 0 THEN 1 ELSE (Products(s, i)[n - 1] * Factor(s, i, n)) % P]
    BY <2>1, ProductStep
  <2> QED
    BY <1>1, <2>2
<1>3. g[0] = 1
  BY <1>2
<1>4. g[1] = (1 * f) % P
  BY <1>2, <1>3
<1>5. g[2] = (g[1] * h) % P
  BY <1>2
<1>6. g[3] = (g[2] * k) % P
  BY <1>2
<1>7. (1 * f) % P \in Int /\ Congruent((1 * f) % P, f)
  BY First
<1>8. PICK p \in Int : p = g[1] /\ Congruent(p, f)
  BY <1>4, <1>7
<1>9. (p * h) % P \in Int /\ Congruent((p * h) % P, f * h)
  BY <1>8, Times
<1>10. PICK c \in Int : c = f * h
  OBVIOUS
<1>11. PICK q \in Int : q = g[2] /\ Congruent(q, c)
  BY <1>5, <1>8, <1>9, <1>10
<1>12. (q * k) % P \in Int /\ Congruent((q * k) % P, c * k)
  BY <1>11, Times
<1> QED
  BY <1>1, <1>6, <1>10, <1>11, <1>12

(* What a share weighs in the sum. *)
Weighs(s, m, n, b, y) ==
    /\ Products(s, n)[m] \in Int
    /\ Congruent(Products(s, n)[m], b)
    /\ s[n].secret = y

LEMMA Weight ==
    ASSUME NEW s, NEW m, NEW n, NEW b \in Int, NEW y \in Int, Weighs(s, m, n, b, y)
    PROVE  \E t \in Int : /\ t = Products(s, n)[m] * s[n].secret
                          /\ Congruent(t, b * y)
<1>1. PICK x \in Int : x = Products(s, n)[m]
  BY DEF Weighs
<1>2. Congruent(x, b) /\ Congruent(y, y)
  BY <1>1, Itself DEF Weighs
<1>3. Congruent(x * y, b * y)
  BY <1>2, ProductsAgree
<1>4. x * y \in Int /\ s[n].secret = y
  BY DEF Weighs
<1> QED
  BY <1>1, <1>3, <1>4

LEMMA SumOfNone ==
    ASSUME NEW s, Len(s) = 0
    PROVE  Interpolate(s) = 0
<1>1. PICK g : g = Sums(s)
  OBVIOUS
<1>2. g = [n \in 0 .. 0 |-> IF n = 0 THEN 0
               ELSE (g[n - 1] + Products(s, n)[0] * s[n].secret) % P]
  <2>1. 0 \in 0 .. 3
    OBVIOUS
  <2>2. Sums(s) =
          [n \in 0 .. 0 |->
              IF n = 0 THEN 0 ELSE (Sums(s)[n - 1] + Products(s, n)[0] * s[n].secret) % P]
    BY <2>1, SumStep
  <2> QED
    BY <1>1, <2>2
<1>3. g[0] = 0
  BY <1>2
<1> QED
  BY <1>1, <1>3 DEF Interpolate

LEMMA SumOfOne ==
    ASSUME NEW s, Len(s) = 1, NEW b \in Int, NEW y \in Int, Weighs(s, 1, 1, b, y)
    PROVE  Interpolate(s) \in Scalars /\ Congruent(Interpolate(s), b * y)
<1>1. PICK t \in Int : /\ t = Products(s, 1)[1] * s[1].secret
                       /\ Congruent(t, b * y)
  BY Weight
<1>2. PICK g : g = Sums(s)
  OBVIOUS
<1>3. g = [n \in 0 .. 1 |-> IF n = 0 THEN 0
               ELSE (g[n - 1] + Products(s, n)[1] * s[n].secret) % P]
  <2>1. 1 \in 0 .. 3
    OBVIOUS
  <2>2. Sums(s) =
          [n \in 0 .. 1 |->
              IF n = 0 THEN 0 ELSE (Sums(s)[n - 1] + Products(s, n)[1] * s[n].secret) % P]
    BY <2>1, SumStep
  <2> QED
    BY <1>2, <2>2
<1>4. g[0] = 0
  BY <1>3
<1>5. g[1] = (0 + t) % P
  BY <1>1, <1>3, <1>4
<1>6. g[1] = t % P
  BY <1>5
<1>7. t % P \in Int /\ t % P \in Scalars /\ Congruent(t % P, t)
  BY Reduced
<1>8. PICK r \in Int, c \in Int : r = t % P /\ c = b * y
  BY <1>7
<1>9. Congruent(r, c)
  BY <1>1, <1>7, <1>8, Transitive
<1>10. Interpolate(s) = r
  BY <1>2, <1>6, <1>8 DEF Interpolate
<1> QED
  BY <1>7, <1>8, <1>9, <1>10

LEMMA SumOfTwo ==
    ASSUME NEW s, Len(s) = 2,
           NEW b \in Int, NEW y \in Int, Weighs(s, 2, 1, b, y),
           NEW c \in Int, NEW z \in Int, Weighs(s, 2, 2, c, z)
    PROVE  Interpolate(s) \in Scalars /\ Congruent(Interpolate(s), b * y + c * z)
<1>1. PICK t \in Int : /\ t = Products(s, 1)[2] * s[1].secret
                       /\ Congruent(t, b * y)
  BY Weight
<1>2. PICK u \in Int : /\ u = Products(s, 2)[2] * s[2].secret
                       /\ Congruent(u, c * z)
  BY Weight
<1>3. PICK g : g = Sums(s)
  OBVIOUS
<1>4. g = [n \in 0 .. 2 |-> IF n = 0 THEN 0
               ELSE (g[n - 1] + Products(s, n)[2] * s[n].secret) % P]
  <2>1. 2 \in 0 .. 3
    OBVIOUS
  <2>2. Sums(s) =
          [n \in 0 .. 2 |->
              IF n = 0 THEN 0 ELSE (Sums(s)[n - 1] + Products(s, n)[2] * s[n].secret) % P]
    BY <2>1, SumStep
  <2> QED
    BY <1>3, <2>2
<1>5. g[0] = 0
  BY <1>4
<1>6. g[1] = (0 + t) % P
  BY <1>1, <1>4, <1>5
<1>7. g[2] = (g[1] + u) % P
  BY <1>2, <1>4
<1>8. PICK d \in Int, e \in Int : d = b * y /\ e = c * z
  OBVIOUS
<1>9. Congruent(0, 0) /\ 0 + d = d /\ 0 \in Int
  BY Itself
<1>10. Congruent(t, d) /\ Congruent(u, e)
  BY <1>1, <1>2, <1>8
<1>11. (0 + t) % P \in Int /\ Congruent((0 + t) % P, 0 + d)
  BY <1>9, <1>10, Plus
<1>12. PICK p \in Int : p = g[1] /\ Congruent(p, d)
  BY <1>6, <1>9, <1>11
<1>13. Congruent((p + u) % P, d + e)
  BY <1>10, <1>12, Plus
<1>14. p + u \in Int
  OBVIOUS
<1>15. (p + u) % P \in Scalars
  BY <1>14, Reduced
<1>16. Interpolate(s) = (p + u) % P
  BY <1>3, <1>7, <1>12 DEF Interpolate
<1> QED
  BY <1>8, <1>13, <1>15, <1>16

LEMMA SumOfThree ==
    ASSUME NEW s, Len(s) = 3,
           NEW b \in Int, NEW y \in Int, Weighs(s, 3, 1, b, y),
           NEW c \in Int, NEW z \in Int, Weighs(s, 3, 2, c, z),
           NEW h \in Int, NEW w \in Int, Weighs(s, 3, 3, h, w)
    PROVE  Interpolate(s) \in Scalars /\ Congruent(Interpolate(s), (b * y + c * z) + h * w)
<1>1. PICK t \in Int : /\ t = Products(s, 1)[3] * s[1].secret
                       /\ Congruent(t, b * y)
  BY Weight
<1>2. PICK u \in Int : /\ u = Products(s, 2)[3] * s[2].secret
                       /\ Congruent(u, c * z)
  BY Weight
<1>3. PICK v \in Int : /\ v = Products(s, 3)[3] * s[3].secret
                       /\ Congruent(v, h * w)
  BY Weight
<1>4. PICK g : g = Sums(s)
  OBVIOUS
<1>5. g = [n \in 0 .. 3 |-> IF n = 0 THEN 0
               ELSE (g[n - 1] + Products(s, n)[3] * s[n].secret) % P]
  <2>1. 3 \in 0 .. 3
    OBVIOUS
  <2>2. Sums(s) =
          [n \in 0 .. 3 |->
              IF n = 0 THEN 0 ELSE (Sums(s)[n - 1] + Products(s, n)[3] * s[n].secret) % P]
    BY <2>1, SumStep
  <2> QED
    BY <1>4, <2>2
<1>6. g[0] = 0
  BY <1>5
<1>7. g[1] = (0 + t) % P
  BY <1>1, <1>5, <1>6
<1>8. g[2] = (g[1] + u) % P
  BY <1>2, <1>5
<1>9. g[3] = (g[2] + v) % P
  BY <1>3, <1>5
<1>10. PICK d \in Int, e \in Int, f \in Int : d = b * y /\ e = c * z /\ f = h * w
  OBVIOUS
<1>11. Congruent(0, 0) /\ 0 + d = d /\ 0 \in Int
  BY Itself
<1>12. Congruent(t, d) /\ Congruent(u, e) /\ Congruent(v, f)
  BY <1>1, <1>2, <1>3, <1>10
<1>13. (0 + t) % P \in Int /\ Congruent((0 + t) % P, 0 + d)
  BY <1>11, <1>12, Plus
<1>14. PICK p \in Int : p = g[1] /\ Congruent(p, d)
  BY <1>7, <1>11, <1>13
<1>15. (p + u) % P \in Int /\ Congruent((p + u) % P, d + e)
  BY <1>12, <1>14, Plus
<1>16. PICK q \in Int, m \in Int : q = g[2] /\ m = d + e /\ Congruent(q, m)
  BY <1>8, <1>14, <1>15
<1>17. Congruent((q + v) % P, m + f)
  BY <1>12, <1>16, Plus
<1>18. q + v \in Int
  OBVIOUS
<1>19. (q + v) % P \in Scalars
  BY <1>18, Reduced
<1>20. Interpolate(s) = (q + v) % P
  BY <1>4, <1>9, <1>16 DEF Interpolate
<1> QED
  BY <1>10, <1>16, <1>17, <1>19, <1>20

----------------------------------------------------------------------------
(* The shares' weights *)

(* The factor of a share of index x at one of index y. *)
LEMMA FactorIs ==
    ASSUME NEW s, NEW i, NEW j, i # j, NEW x \in Int, NEW y \in Int,
           x = s[i].index, y = s[j].index, ~Congruent(x - y, 0)
    PROVE  \E f \in Int : /\ f = Factor(s, i, j)
                          /\ Congruent((x - y) * f, -y)
                          /\ Congruent(f, 0) => Congruent(y, 0)
<1>1. PICK d \in Int, m \in Int : d = x - y /\ m = -y
  OBVIOUS
<1>2. PICK z \in Int : z = Inverted(d % P) /\ Congruent(d * z, 1)
  BY <1>1, InverseWorks
<1>3. PICK f \in Int : f = m * z
  OBVIOUS
<1>4. f = Factor(s, i, j)
  BY <1>1, <1>2, <1>3 DEF Factor
<1>5. Congruent(d * f, m)
  <2>1. PICK p \in Int : p = d * z
    OBVIOUS
  <2>2. Congruent(m * p, m * 1) /\ m * 1 = m
    BY <1>2, <2>1, Itself, ProductsAgree
  <2>3. m * p = d * f
    BY <1>3, <2>1
  <2> QED
    BY <2>2, <2>3
<1>6. ASSUME Congruent(f, 0) PROVE Congruent(y, 0)
  <2>1. PICK p \in Int : p = d * f
    OBVIOUS
  <2>2. Congruent(p, 0)
    <3>1. Congruent(d, d) /\ 0 \in Int /\ d * 0 = 0
      BY Itself
    <3>2. Congruent(d * f, d * 0)
      BY <1>6, <3>1, ProductsAgree
    <3> QED
      BY <2>1, <3>1, <3>2
  <2>3. Congruent(m, p)
    BY <1>5, <2>1, Symmetric
  <2>4. Congruent(m, 0)
    BY <2>2, <2>3, Transitive
  <2>5. PICK k \in Int : m = 0 + P * k
    BY <2>4 DEF Congruent
  <2>6. y = 0 + P * (-k) /\ -k \in Int
    BY <1>1, <2>5, FieldOrder
  <2> QED
    BY <2>6 DEF Congruent
<1> QED
  BY <1>1, <1>4, <1>5, <1>6

LEMMA FactorOf ==
    ASSUME NEW s, NEW i, NEW j, i # j, s[i].index \in Int, s[j].index \in Int,
           ~Congruent(s[i].index - s[j].index, 0)
    PROVE  /\ Factor(s, i, j) \in Int
           /\ Congruent((s[i].index - s[j].index) * Factor(s, i, j), -s[j].index)
           /\ Congruent(Factor(s, i, j), 0) => Congruent(s[j].index, 0)
<1>1. PICK x \in Int, y \in Int : x = s[i].index /\ y = s[j].index
  OBVIOUS
<1>2. i # j /\ ~Congruent(x - y, 0)
  BY <1>1
<1>3. \E f \in Int : /\ f = Factor(s, i, j)
                     /\ Congruent((x - y) * f, -y)
                     /\ Congruent(f, 0) => Congruent(y, 0)
  BY <1>1, <1>2, FactorIs
<1> QED
  BY <1>1, <1>3

LEMMA NoZeroProduct ==
    ASSUME NEW a \in Int, NEW b \in Int, ~Congruent(a, 0), ~Congruent(b, 0)
    PROVE  ~Congruent(a * b, 0)
BY NoZeroDivisors

(* What a number other than zero makes equal is equal. *)
LEMMA Cancel ==
    ASSUME NEW c \in Int, NEW a \in Int, NEW b \in Int,
           NEW p \in Int, NEW q \in Int, p = c * a, q = c * b,
           ~Congruent(c, 0), Congruent(p, q)
    PROVE  Congruent(a, b)
<1>1. PICK k \in Int : p = q + P * k
  BY DEF Congruent
<1>2. PICK d \in Int : d = a - b
  OBVIOUS
<1>3. c * d = 0 + P * k
  <2>1. c * d = c * a - c * b
    BY <1>2
  <2>2. PICK w \in Int : w = P * k
    BY FieldOrder
  <2>3. p = q + w
    BY <1>1, <2>2
  <2>4. PICK t \in Int : t = c * d /\ t = p - q
    BY <2>1, <2>2
  <2>5. t = 0 + w
    BY <2>3, <2>4
  <2> QED
    BY <2>2, <2>4, <2>5
<1>4. Congruent(c * d, 0)
  BY <1>3 DEF Congruent
<1>5. Congruent(d, 0)
  BY <1>4, NoZeroDivisors
<1>6. PICK m \in Int : d = 0 + P * m
  BY <1>5 DEF Congruent
<1>7. a = b + P * m
  BY <1>2, <1>6, FieldOrder
<1> QED
  BY <1>7 DEF Congruent

LEMMA OtherWay ==
    ASSUME NEW x \in Int, NEW y \in Int, ~Congruent(x - y, 0)
    PROVE  ~Congruent(y - x, 0)
<1> SUFFICES ASSUME Congruent(y - x, 0) PROVE FALSE
  OBVIOUS
<1>1. PICK k \in Int : y - x = 0 + P * k
  BY DEF Congruent
<1>2. -k \in Int /\ x - y = 0 + P * (-k)
  BY <1>1, FieldOrder
<1> QED
  BY <1>2 DEF Congruent

(* The basis polynomials of two shares add up to the one that is one       *)
(* everywhere, and weighted with the indices to the one that is zero at    *)
(* zero.                                                                   *)
LEMMA TwoBases ==
    ASSUME NEW x \in Int, NEW y \in Int, NEW f \in Int, NEW g \in Int,
           ~Congruent(x - y, 0),
           Congruent((x - y) * f, -y), Congruent((y - x) * g, -x)
    PROVE  Congruent(f + g, 1) /\ Congruent(f * x + g * y, 0)
<1>1. PICK k \in Int : (x - y) * f = -y + P * k
  BY DEF Congruent
<1>2. PICK m \in Int : (y - x) * g = -x + P * m
  BY DEF Congruent
<1>3. Congruent((x - y) * (f + g), (x - y) * 1)
  <2>1. (x - y) * (f + g) = (x - y) * f - (y - x) * g
    OBVIOUS
  <2>2. P * k - P * m = P * (k - m) /\ P * k \in Int /\ P * m \in Int /\ k - m \in Int
    BY FieldOrder
  <2>3. PICK u \in Int, v \in Int : u = P * k /\ v = P * m
    BY <2>2
  <2>4. (x - y) * f - (y - x) * g = (x - y) * 1 + (u - v)
    BY <1>1, <1>2, <2>3
  <2>5. (x - y) * (f + g) = (x - y) * 1 + P * (k - m)
    BY <2>1, <2>2, <2>3, <2>4
  <2> QED
    BY <2>2, <2>5 DEF Congruent
<1>4. Congruent((x - y) * (f * x + g * y), (x - y) * 0)
  <2>1. (x - y) * (f * x + g * y) = ((x - y) * f) * x - ((y - x) * g) * y
    OBVIOUS
  <2>2. (-y + P * k) * x - (-x + P * m) * y = (x - y) * 0 + P * (k * x - m * y)
    BY FieldOrder
  <2>3. (x - y) * (f * x + g * y) = (x - y) * 0 + P * (k * x - m * y)
    BY <1>1, <1>2, <2>1, <2>2
  <2> QED
    BY <2>3 DEF Congruent
<1>5. PICK d \in Int, u \in Int, v \in Int : d = x - y /\ u = f + g /\ v = f * x + g * y
  OBVIOUS
<1>6. ~Congruent(d, 0) /\ Congruent(d * u, d * 1) /\ Congruent(d * v, d * 0)
  BY <1>3, <1>4, <1>5
<1>7. PICK p \in Int, q \in Int : p = d * u /\ q = d * v
  OBVIOUS
<1>8. Congruent(p, d) /\ Congruent(q, 0) /\ d = d * 1 /\ 0 = d * 0
  BY <1>6, <1>7
<1>9. Congruent(u, 1)
  BY <1>6, <1>7, <1>8, Cancel
<1>10. Congruent(v, 0)
  BY <1>6, <1>7, <1>8, NoZeroDivisors
<1> QED
  BY <1>5, <1>9, <1>10

(* The same of three shares. *)
LEMMA ThreeBases ==
    ASSUME NEW x \in Int, NEW y \in Int, NEW z \in Int,
           NEW f \in Int, NEW g \in Int, NEW h \in Int,
           ~Congruent(((x - y) * (x - z)) * (y - z), 0),
           Congruent(((x - y) * (x - z)) * f, y * z),
           Congruent(((y - x) * (y - z)) * g, x * z),
           Congruent(((z - x) * (z - y)) * h, x * y)
    PROVE  Congruent((f + g) + h, 1) /\ Congruent((f * x + g * y) + h * z, 0)
<1>1. PICK k \in Int : ((x - y) * (x - z)) * f = y * z + P * k
  BY DEF Congruent
<1>2. PICK m \in Int : ((y - x) * (y - z)) * g = x * z + P * m
  BY DEF Congruent
<1>3. PICK n \in Int : ((z - x) * (z - y)) * h = x * y + P * n
  BY DEF Congruent
<1>4. PICK d \in Int, u \in Int, v \in Int :
          /\ d = ((x - y) * (x - z)) * (y - z)
          /\ u = (f + g) + h /\ v = (f * x + g * y) + h * z
  OBVIOUS
<1>5. PICK a \in Int, b \in Int, c \in Int :
          /\ a = ((x - y) * (x - z)) * f
          /\ b = ((y - x) * (y - z)) * g
          /\ c = ((z - x) * (z - y)) * h
  OBVIOUS
<1>6. Congruent(d * u, d * 1)
  <2>1. d * u = a * (y - z) - b * (x - z) + c * (x - y)
    BY <1>4, <1>5
  <2>2. (y * z + P * k) * (y - z) - (x * z + P * m) * (x - z) + (x * y + P * n) * (x - y)
        = ((x - y) * (x - z)) * (y - z) * 1
          + P * (k * (y - z) - m * (x - z) + n * (x - y))
    BY FieldOrder
  <2>3. d * u = d * 1 + P * (k * (y - z) - m * (x - z) + n * (x - y))
    BY <1>1, <1>2, <1>3, <1>4, <1>5, <2>1, <2>2
  <2> QED
    BY <2>3 DEF Congruent
<1>7. Congruent(d * v, d * 0)
  <2>1. d * v = (a * x) * (y - z) - (b * y) * (x - z) + (c * z) * (x - y)
    BY <1>4, <1>5
  <2>2. ((y * z + P * k) * x) * (y - z) - ((x * z + P * m) * y) * (x - z)
        + ((x * y + P * n) * z) * (x - y)
        = 0 + P * ((k * x) * (y - z) - (m * y) * (x - z) + (n * z) * (x - y))
    BY FieldOrder
  <2>3. d * v = d * 0 + P * ((k * x) * (y - z) - (m * y) * (x - z) + (n * z) * (x - y))
    BY <1>1, <1>2, <1>3, <1>4, <1>5, <2>1, <2>2
  <2> QED
    BY <2>3 DEF Congruent
<1>8. PICK p \in Int, q \in Int : p = d * u /\ q = d * v
  OBVIOUS
<1>9. Congruent(p, d) /\ Congruent(q, 0) /\ d = d * 1 /\ ~Congruent(d, 0)
  BY <1>4, <1>6, <1>7, <1>8
<1>10. Congruent(u, 1)
  BY <1>8, <1>9, Cancel
<1>11. Congruent(v, 0)
  BY <1>8, <1>9, NoZeroDivisors
<1> QED
  BY <1>4, <1>10, <1>11

(* A basis polynomial of three shares, from its two factors. *)
LEMMA BasisOfTwo ==
    ASSUME NEW u \in Int, NEW v \in Int, NEW y \in Int, NEW z \in Int,
           NEW f \in Int, NEW g \in Int,
           Congruent(u * f, -y), Congruent(v * g, -z)
    PROVE  Congruent((u * v) * (f * g), y * z)
<1>1. PICK a \in Int, b \in Int, c \in Int, d \in Int : a = u * f /\ b = -y /\ c = v * g /\ d = -z
  OBVIOUS
<1>2. Congruent(a * c, b * d)
  BY <1>1, ProductsAgree
<1>3. a * c = (u * v) * (f * g) /\ b * d = y * z
  BY <1>1
<1> QED
  BY <1>2, <1>3

(* Shares that lie on a line, one of them moved off it. *)
LEMMA TwoOnLine ==
    ASSUME NEW a \in Int, NEW b \in Int, NEW f \in Int, NEW g \in Int,
           NEW x \in Int, NEW y \in Int, NEW d \in Int, NEW e \in Int,
           NEW v \in Int, NEW w \in Int,
           Congruent(v, (a + b * x) + d), Congruent(w, (a + b * y) + e),
           Congruent(f + g, 1), Congruent(f * x + g * y, 0)
    PROVE  Congruent(f * v + g * w, a + (f * d + g * e))
<1>1. PICK k \in Int : v = ((a + b * x) + d) + P * k
  BY DEF Congruent
<1>2. PICK m \in Int : w = ((a + b * y) + e) + P * m
  BY DEF Congruent
<1>3. PICK n \in Int : f + g = 1 + P * n
  BY DEF Congruent
<1>4. PICK o \in Int : f * x + g * y = 0 + P * o
  BY DEF Congruent
<1>5. f * v + g * w = a * (f + g) + b * (f * x + g * y) + (f * d + g * e) + P * (f * k + g * m)
  <2>1. f * (((a + b * x) + d) + P * k) + g * (((a + b * y) + e) + P * m)
        = a * (f + g) + b * (f * x + g * y) + (f * d + g * e) + P * (f * k + g * m)
    BY FieldOrder
  <2> QED
    BY <1>1, <1>2, <2>1
<1>6. a * (1 + P * n) + b * (0 + P * o) + (f * d + g * e) + P * (f * k + g * m)
      = (a + (f * d + g * e)) + P * (a * n + b * o + f * k + g * m)
  BY FieldOrder
<1>7. f * v + g * w = (a + (f * d + g * e)) + P * (a * n + b * o + f * k + g * m)
  BY <1>3, <1>4, <1>5, <1>6
<1> QED
  BY <1>7 DEF Congruent

LEMMA ThreeOnLine ==
    ASSUME NEW a \in Int, NEW b \in Int, NEW f \in Int, NEW g \in Int, NEW h \in Int,
           NEW x \in Int, NEW y \in Int, NEW z \in Int, NEW c \in Int, NEW d \in Int, NEW e \in Int,
           NEW u \in Int, NEW v \in Int, NEW w \in Int,
           Congruent(u, (a + b * x) + c), Congruent(v, (a + b * y) + d),
           Congruent(w, (a + b * z) + e),
           Congruent((f + g) + h, 1), Congruent((f * x + g * y) + h * z, 0)
    PROVE  Congruent((f * u + g * v) + h * w, a + ((f * c + g * d) + h * e))
<1>1. PICK k \in Int : u = ((a + b * x) + c) + P * k
  BY DEF Congruent
<1>2. PICK m \in Int : v = ((a + b * y) + d) + P * m
  BY DEF Congruent
<1>3. PICK l \in Int : w = ((a + b * z) + e) + P * l
  BY DEF Congruent
<1>4. PICK n \in Int : (f + g) + h = 1 + P * n
  BY DEF Congruent
<1>5. PICK o \in Int : (f * x + g * y) + h * z = 0 + P * o
  BY DEF Congruent
<1>6. (f * u + g * v) + h * w
      = a * ((f + g) + h) + b * ((f * x + g * y) + h * z) + ((f * c + g * d) + h * e)
        + P * (f * k + g * m + h * l)
  <2>1. (f * (((a + b * x) + c) + P * k) + g * (((a + b * y) + d) + P * m))
        + h * (((a + b * z) + e) + P * l)
        = a * ((f + g) + h) + b * ((f * x + g * y) + h * z) + ((f * c + g * d) + h * e)
          + P * (f * k + g * m + h * l)
    BY FieldOrder
  <2> QED
    BY <1>1, <1>2, <1>3, <2>1
<1>7. a * (1 + P * n) + b * (0 + P * o) + ((f * c + g * d) + h * e) + P * (f * k + g * m + h * l)
      = (a + ((f * c + g * d) + h * e)) + P * (a * n + b * o + f * k + g * m + h * l)
  BY FieldOrder
<1>8. (f * u + g * v) + h * w
      = (a + ((f * c + g * d) + h * e)) + P * (a * n + b * o + f * k + g * m + h * l)
  BY <1>4, <1>5, <1>6, <1>7
<1> QED
  BY <1>8 DEF Congruent

(* Share i of those presented. *)
Presents(s, i, x, v) == s[i].index = x /\ s[i].secret = v

LEMMA TwoShares ==
    ASSUME NEW s, Len(s) = 2, NEW x \in Int, NEW y \in Int, NEW v \in Int, NEW w \in Int,
           Presents(s, 1, x, v), Presents(s, 2, y, w),
           ~Congruent(x - y, 0)
    PROVE  /\ Interpolate(s) \in Scalars
           /\ \E f \in Int, g \in Int :
                 /\ Congruent(Interpolate(s), f * v + g * w)
                 /\ Congruent(f + g, 1) /\ Congruent(f * x + g * y, 0)
                 /\ Congruent(f, 0) => Congruent(y, 0)
                 /\ Congruent(g, 0) => Congruent(x, 0)
<1>1. x = s[1].index /\ y = s[2].index /\ v = s[1].secret /\ w = s[2].secret
  BY DEF Presents
<1>2. ~Congruent(y - x, 0)
  BY OtherWay
<1>3. PICK f \in Int : /\ f = Factor(s, 1, 2) /\ Congruent((x - y) * f, -y)
                       /\ Congruent(f, 0) => Congruent(y, 0)
  <2>1. /\ Factor(s, 1, 2) \in Int
        /\ Congruent((s[1].index - s[2].index) * Factor(s, 1, 2), -s[2].index)
        /\ Congruent(Factor(s, 1, 2), 0) => Congruent(s[2].index, 0)
    BY <1>1, FactorOf
  <2> QED
    BY <1>1, <2>1
<1>4. PICK g \in Int : /\ g = Factor(s, 2, 1) /\ Congruent((y - x) * g, -x)
                       /\ Congruent(g, 0) => Congruent(x, 0)
  <2>1. /\ Factor(s, 2, 1) \in Int
        /\ Congruent((s[2].index - s[1].index) * Factor(s, 2, 1), -s[1].index)
        /\ Congruent(Factor(s, 2, 1), 0) => Congruent(s[1].index, 0)
    BY <1>1, <1>2, FactorOf
  <2> QED
    BY <1>1, <2>1
<1>5. Factor(s, 1, 1) = 1 /\ Factor(s, 2, 2) = 1 /\ 1 * f = f /\ g * 1 = g /\ 1 \in Int
  BY DEF Factor
<1>6. Weighs(s, 2, 1, f, v)
  <2>1. Products(s, 1)[2] \in Int /\ Congruent(Products(s, 1)[2], 1 * f)
    BY <1>3, <1>5, ProductOfTwo
  <2> QED
    BY <1>5, <1>1, <2>1 DEF Weighs
<1>7. Weighs(s, 2, 2, g, w)
  <2>1. Products(s, 2)[2] \in Int /\ Congruent(Products(s, 2)[2], g * 1)
    BY <1>4, <1>5, ProductOfTwo
  <2> QED
    BY <1>5, <1>1, <2>1 DEF Weighs
<1>8. Interpolate(s) \in Scalars /\ Congruent(Interpolate(s), f * v + g * w)
  BY <1>6, <1>7, SumOfTwo
<1>9. Congruent(f + g, 1) /\ Congruent(f * x + g * y, 0)
  BY <1>3, <1>4, TwoBases
<1> QED
  BY <1>3, <1>4, <1>8, <1>9

LEMMA ThreeShares ==
    ASSUME NEW s, Len(s) = 3, NEW x \in Int, NEW y \in Int, NEW z \in Int,
           NEW u \in Int, NEW v \in Int, NEW w \in Int,
           Presents(s, 1, x, u), Presents(s, 2, y, v), Presents(s, 3, z, w),
           ~Congruent(x - y, 0), ~Congruent(x - z, 0), ~Congruent(y - z, 0),
           ~Congruent(x, 0), ~Congruent(y, 0), ~Congruent(z, 0)
    PROVE  /\ Interpolate(s) \in Scalars
           /\ \E f \in Int, g \in Int, h \in Int :
                 /\ Congruent(Interpolate(s), (f * u + g * v) + h * w)
                 /\ Congruent((f + g) + h, 1) /\ Congruent((f * x + g * y) + h * z, 0)
                 /\ ~Congruent(f, 0) /\ ~Congruent(g, 0) /\ ~Congruent(h, 0)
<1>1. /\ x = s[1].index /\ y = s[2].index /\ z = s[3].index
      /\ u = s[1].secret /\ v = s[2].secret /\ w = s[3].secret
  BY DEF Presents
<1>2. ~Congruent(y - x, 0) /\ ~Congruent(z - x, 0) /\ ~Congruent(z - y, 0)
  BY OtherWay
<1>3. PICK i \in Int : /\ i = Factor(s, 1, 2) /\ Congruent((x - y) * i, -y)
                       /\ ~Congruent(i, 0)
  <2>1. /\ Factor(s, 1, 2) \in Int
        /\ Congruent((s[1].index - s[2].index) * Factor(s, 1, 2), -s[2].index)
        /\ Congruent(Factor(s, 1, 2), 0) => Congruent(s[2].index, 0)
    BY <1>1, FactorOf
  <2> QED
    BY <1>1, <2>1
<1>4. PICK j \in Int : /\ j = Factor(s, 1, 3) /\ Congruent((x - z) * j, -z)
                       /\ ~Congruent(j, 0)
  <2>1. /\ Factor(s, 1, 3) \in Int
        /\ Congruent((s[1].index - s[3].index) * Factor(s, 1, 3), -s[3].index)
        /\ Congruent(Factor(s, 1, 3), 0) => Congruent(s[3].index, 0)
    BY <1>1, FactorOf
  <2> QED
    BY <1>1, <2>1
<1>5. PICK k \in Int : /\ k = Factor(s, 2, 1) /\ Congruent((y - x) * k, -x)
                       /\ ~Congruent(k, 0)
  <2>1. /\ Factor(s, 2, 1) \in Int
        /\ Congruent((s[2].index - s[1].index) * Factor(s, 2, 1), -s[1].index)
        /\ Congruent(Factor(s, 2, 1), 0) => Congruent(s[1].index, 0)
    BY <1>1, <1>2, FactorOf
  <2> QED
    BY <1>1, <2>1
<1>6. PICK l \in Int : /\ l = Factor(s, 2, 3) /\ Congruent((y - z) * l, -z)
                       /\ ~Congruent(l, 0)
  <2>1. /\ Factor(s, 2, 3) \in Int
        /\ Congruent((s[2].index - s[3].index) * Factor(s, 2, 3), -s[3].index)
        /\ Congruent(Factor(s, 2, 3), 0) => Congruent(s[3].index, 0)
    BY <1>1, FactorOf
  <2> QED
    BY <1>1, <2>1
<1>7. PICK m \in Int : /\ m = Factor(s, 3, 1) /\ Congruent((z - x) * m, -x)
                       /\ ~Congruent(m, 0)
  <2>1. /\ Factor(s, 3, 1) \in Int
        /\ Congruent((s[3].index - s[1].index) * Factor(s, 3, 1), -s[1].index)
        /\ Congruent(Factor(s, 3, 1), 0) => Congruent(s[1].index, 0)
    BY <1>1, <1>2, FactorOf
  <2> QED
    BY <1>1, <2>1
<1>8. PICK n \in Int : /\ n = Factor(s, 3, 2) /\ Congruent((z - y) * n, -y)
                       /\ ~Congruent(n, 0)
  <2>1. /\ Factor(s, 3, 2) \in Int
        /\ Congruent((s[3].index - s[2].index) * Factor(s, 3, 2), -s[2].index)
        /\ Congruent(Factor(s, 3, 2), 0) => Congruent(s[2].index, 0)
    BY <1>1, <1>2, FactorOf
  <2> QED
    BY <1>1, <2>1
<1>9. Factor(s, 1, 1) = 1 /\ Factor(s, 2, 2) = 1 /\ Factor(s, 3, 3) = 1 /\ 1 \in Int
  BY DEF Factor
<1>10. PICK f \in Int, g \in Int, h \in Int : f = i * j /\ g = k * l /\ h = m * n
  OBVIOUS
<1>11. ~Congruent(f, 0) /\ ~Congruent(g, 0) /\ ~Congruent(h, 0)
  BY <1>3, <1>4, <1>5, <1>6, <1>7, <1>8, <1>10, NoZeroProduct
<1>12. Weighs(s, 3, 1, f, u)
  <2>1. Products(s, 1)[3] \in Int /\ Congruent(Products(s, 1)[3], (1 * i) * j)
    BY <1>3, <1>4, <1>9, ProductOfThree
  <2>2. (1 * i) * j = f
    BY <1>10
  <2> QED
    BY <1>1, <2>1, <2>2 DEF Weighs
<1>13. Weighs(s, 3, 2, g, v)
  <2>1. Products(s, 2)[3] \in Int /\ Congruent(Products(s, 2)[3], (k * 1) * l)
    BY <1>5, <1>6, <1>9, ProductOfThree
  <2>2. (k * 1) * l = g
    BY <1>10
  <2> QED
    BY <1>1, <2>1, <2>2 DEF Weighs
<1>14. Weighs(s, 3, 3, h, w)
  <2>1. Products(s, 3)[3] \in Int /\ Congruent(Products(s, 3)[3], (m * n) * 1)
    BY <1>7, <1>8, <1>9, ProductOfThree
  <2>2. (m * n) * 1 = h
    BY <1>10
  <2> QED
    BY <1>1, <2>1, <2>2 DEF Weighs
<1>15. Interpolate(s) \in Scalars /\ Congruent(Interpolate(s), (f * u + g * v) + h * w)
  BY <1>12, <1>13, <1>14, SumOfThree
<1>16. Congruent((f + g) + h, 1) /\ Congruent((f * x + g * y) + h * z, 0)
  <2>1. ~Congruent(((x - y) * (x - z)) * (y - z), 0)
    <3>1. PICK a \in Int, b \in Int, c \in Int, d \in Int :
              a = x - y /\ b = x - z /\ c = y - z /\ d = a * b
      OBVIOUS
    <3>2. ~Congruent(d, 0)
      BY <3>1, NoZeroProduct
    <3>3. ~Congruent(d * c, 0)
      BY <3>1, <3>2, NoZeroProduct
    <3> QED
      BY <3>1, <3>3
  <2>2. Congruent(((x - y) * (x - z)) * f, y * z)
    <3>1. PICK a \in Int, b \in Int : a = x - y /\ b = x - z
      OBVIOUS
    <3>2. Congruent(a * i, -y) /\ Congruent(b * j, -z)
      BY <1>3, <1>4, <3>1
    <3>3. Congruent((a * b) * (i * j), y * z)
      BY <3>2, BasisOfTwo
    <3> QED
      BY <1>10, <3>1, <3>3
  <2>3. Congruent(((y - x) * (y - z)) * g, x * z)
    <3>1. PICK a \in Int, b \in Int : a = y - x /\ b = y - z
      OBVIOUS
    <3>2. Congruent(a * k, -x) /\ Congruent(b * l, -z)
      BY <1>5, <1>6, <3>1
    <3>3. Congruent((a * b) * (k * l), x * z)
      BY <3>2, BasisOfTwo
    <3> QED
      BY <1>10, <3>1, <3>3
  <2>4. Congruent(((z - x) * (z - y)) * h, x * y)
    <3>1. PICK a \in Int, b \in Int : a = z - x /\ b = z - y
      OBVIOUS
    <3>2. Congruent(a * m, -x) /\ Congruent(b * n, -y)
      BY <1>7, <1>8, <3>1
    <3>3. Congruent((a * b) * (m * n), x * y)
      BY <3>2, BasisOfTwo
    <3> QED
      BY <1>10, <3>1, <3>3
  <2> QED
    BY <2>1, <2>2, <2>3, <2>4, ThreeBases
<1> QED
  BY <1>11, <1>15, <1>16

LEMMA OneShare ==
    ASSUME NEW s, Len(s) = 1, NEW v \in Int, v = s[1].secret
    PROVE  Interpolate(s) \in Scalars /\ Congruent(Interpolate(s), v)
<1>1. Factor(s, 1, 1) = 1 /\ 1 \in Int /\ 1 * v = v
  BY DEF Factor
<1>2. Products(s, 1)[1] \in Int /\ Congruent(Products(s, 1)[1], 1)
  BY <1>1, ProductOfOne
<1>3. Weighs(s, 1, 1, 1, v)
  BY <1>2 DEF Weighs
<1>4. Interpolate(s) \in Scalars /\ Congruent(Interpolate(s), 1 * v)
  BY <1>1, <1>3, SumOfOne
<1> QED
  BY <1>1, <1>4

LEMMA SmallNotZero ==
    ASSUME P > 4, NEW x \in Int, -5 < x, x < 5, x # 0
    PROVE  ~Congruent(x, 0)
BY FieldOrder, NoMultiple

(* Three times the slope off the line: only a level line hides it. *)
LEMMA OffLine ==
    ASSUME P > 4, NEW r \in Int, NEW a \in Int, NEW b \in Int, NEW f \in Int,
           ~Congruent(f, 0), Congruent(r, a + f * (-(3 * b)))
    PROVE  Congruent(r, a) <=> Congruent(b, 0)
<1>1. PICK k \in Int : r = (a + f * (-(3 * b))) + P * k
  BY DEF Congruent
<1>2. ASSUME Congruent(b, 0) PROVE Congruent(r, a)
  <2>1. PICK m \in Int : b = 0 + P * m
    BY <1>2 DEF Congruent
  <2>2. (a + f * (-(3 * (0 + P * m)))) + P * k = a + P * (k - 3 * f * m)
    BY FieldOrder
  <2>3. r = a + P * (k - 3 * f * m)
    BY <1>1, <2>1, <2>2
  <2> QED
    BY <2>3 DEF Congruent
<1>3. ASSUME Congruent(r, a) PROVE Congruent(b, 0)
  <2>1. PICK m \in Int : r = a + P * m
    BY <1>3 DEF Congruent
  <2>2. f * (3 * b) = 0 + P * (k - m)
    <3>1. PICK p \in Int, q \in Int, t \in Int : p = f * (3 * b) /\ q = P * k /\ t = P * m
      BY FieldOrder
    <3>2. f * (-(3 * b)) = -p /\ P * (k - m) = q - t
      BY <3>1, FieldOrder
    <3>3. r = (a + (-p)) + q /\ r = a + t
      BY <1>1, <2>1, <3>1, <3>2
    <3>4. p = 0 + (q - t)
      BY <3>3
    <3> QED
      BY <3>1, <3>2, <3>4
  <2>3. Congruent(f * (3 * b), 0)
    BY <2>2 DEF Congruent
  <2>4. PICK c \in Int : c = 3 * b
    OBVIOUS
  <2>5. Congruent(c, 0)
    BY <2>3, <2>4, NoZeroDivisors
  <2>6. ~Congruent(3, 0)
    BY SmallNotZero
  <2> QED
    BY <2>4, <2>5, <2>6, NoZeroDivisors
<1> QED
  BY <1>2, <1>3

----------------------------------------------------------------------------
(* Lines *)

(* Where a share lies that is presented: on the line, or three times the   *)
(* slope beside it.                                                        *)
Aside(x, b) == IF x = 4 THEN -(3 * b) ELSE 0

(* The line a + b x through the shares. *)
Line(a, b) ==
    /\ material.groupKey = a % P /\ material.groupKey # 0
    /\ \A j \in 1 .. 3 : material.shares[j] = [index |-> j, secret |-> (a + b * j) % P]

Lying == {material.shares[j] : j \in Indices} \cup {Foreign}

LEMMA PresentedShare ==
    ASSUME NEW a \in Int, NEW b \in Int, Line(a, b), NEW h \in Lying
    PROVE  /\ h.index \in 1 .. 4 /\ h.secret \in Int
           /\ Congruent(h.secret, (a + b * h.index) + Aside(h.index, b))
           /\ h = Foreign <=> h.index = 4
<1>1. CASE h = Foreign
  <2>1. h.index = 4 /\ h.secret = (a + b * 1) % P
    <3>1. material.shares[1] = [index |-> 1, secret |-> (a + b * 1) % P]
      BY DEF Line
    <3> QED
      BY <1>1, <3>1 DEF Foreign
  <2>2. PICK t \in Int : t = a + b * 1 /\ t = (a + b * 4) + (-(3 * b))
    OBVIOUS
  <2>3. t % P \in Int /\ Congruent(t % P, t)
    BY Reduced
  <2>4. Aside(4, b) = -(3 * b)
    BY DEF Aside
  <2> QED
    BY <1>1, <2>1, <2>2, <2>3, <2>4
<1>2. ASSUME NEW j \in 1 .. 3, h = material.shares[j]
      PROVE  /\ h.index \in 1 .. 4 /\ h.secret \in Int
             /\ Congruent(h.secret, (a + b * h.index) + Aside(h.index, b))
             /\ h = Foreign <=> h.index = 4
  <2>1. h.index = j /\ h.secret = (a + b * j) % P
    BY <1>2 DEF Line
  <2>2. PICK t \in Int : t = a + b * j /\ t = (a + b * j) + 0
    OBVIOUS
  <2>3. t % P \in Int /\ Congruent(t % P, t)
    BY Reduced
  <2>4. Aside(j, b) = 0
    BY DEF Aside
  <2>5. Foreign.index = 4
    BY DEF Foreign
  <2>6. h # Foreign
    BY <2>1, <2>5
  <2> QED
    BY <2>1, <2>2, <2>3, <2>4, <2>6
<1> QED
  BY <1>1, <1>2 DEF Lying, Indices

LEMMA IndicesApart ==
    ASSUME P > 4, NEW x \in 1 .. 4, NEW y \in 1 .. 4, x # y
    PROVE  ~Congruent(x - y, 0)
<1>1. PICK d \in Int : d = x - y /\ -5 < d /\ d < 5 /\ d # 0
  OBVIOUS
<1>2. ~Congruent(d, 0)
  BY <1>1, SmallNotZero
<1> QED
  BY <1>1, <1>2

LEMMA IndexNotZero ==
    ASSUME P > 4, NEW x \in 1 .. 4
    PROVE  ~Congruent(x, 0)
BY SmallNotZero

LEMMA OneDecides ==
    ASSUME P > 4, NEW a \in Int, NEW b \in Int, Line(a, b),
           NEW s, Len(s) = 1, s[1] \in Lying
    PROVE  Interpolate(s) \in Scalars /\ (Congruent(Interpolate(s), a) <=> Congruent(b, 0))
<1>1. PICK x \in 1 .. 4, v \in Int :
          x = s[1].index /\ v = s[1].secret /\ Congruent(v, (a + b * x) + Aside(x, b))
  BY PresentedShare
<1>2. Interpolate(s) \in Scalars /\ Congruent(Interpolate(s), v)
  BY <1>1, OneShare
<1>3. PICK j \in 1 .. 3, t \in Int :
          t = (a + b * x) + Aside(x, b) /\ t = a + j * b
  <2>1. CASE x = 4
    <3>1. a + b * 1 \in Int /\ (a + b * 4) + (-(3 * b)) = a + 1 * b /\ 1 \in 1 .. 3
      OBVIOUS
    <3> QED
      BY <2>1, <3>1 DEF Aside
  <2>2. CASE x \in 1 .. 3
    <3>1. (a + b * x) + 0 = a + x * b /\ a + x * b \in Int
      OBVIOUS
    <3> QED
      BY <2>2, <3>1 DEF Aside
  <2> QED
    BY <2>1, <2>2
<1>4. PICK r \in Int : r = Interpolate(s)
  BY <1>2, FieldOrder DEF Scalars
<1>5. Congruent(r, t)
  BY <1>1, <1>2, <1>3, <1>4, Transitive
<1>6. PICK k \in Int : r = t + P * k
  BY <1>5 DEF Congruent
<1>7. ASSUME Congruent(r, a) PROVE Congruent(b, 0)
  <2>1. PICK m \in Int : r = a + P * m
    BY <1>7 DEF Congruent
  <2>2. PICK u \in Int, w \in Int, c \in Int : u = P * k /\ w = P * m /\ c = j * b
    BY FieldOrder
  <2>3. c = 0 + (w - u)
    <3>1. r = t + u /\ t = a + c /\ r = a + w
      BY <1>3, <1>6, <2>1, <2>2
    <3> QED
      BY <3>1
  <2>4. w - u = P * (m - k)
    BY <2>2, FieldOrder
  <2>5. Congruent(c, 0)
    BY <2>3, <2>4 DEF Congruent
  <2>6. ~Congruent(j, 0) /\ j \in Int
    BY SmallNotZero
  <2> QED
    BY <2>2, <2>5, <2>6, NoZeroDivisors
<1>8. ASSUME Congruent(b, 0) PROVE Congruent(r, a)
  <2>1. PICK m \in Int : b = 0 + P * m
    BY <1>8 DEF Congruent
  <2>2. (a + j * (0 + P * m)) + P * k = a + P * (j * m + k) /\ j * m + k \in Int
    BY FieldOrder
  <2>3. r = a + P * (j * m + k)
    BY <1>3, <1>6, <2>1, <2>2
  <2> QED
    BY <2>2, <2>3 DEF Congruent
<1> QED
  BY <1>2, <1>4, <1>7, <1>8

LEMMA TwoDecide ==
    ASSUME P > 4, NEW a \in Int, NEW b \in Int, Line(a, b),
           NEW s, Len(s) = 2, s[1] \in Lying, s[2] \in Lying, s[1].index # s[2].index
    PROVE  /\ Interpolate(s) \in Scalars
           /\ Congruent(Interpolate(s), a)
              <=> (s[1] # Foreign /\ s[2] # Foreign) \/ Congruent(b, 0)
<1>1. PICK x \in 1 .. 4, v \in Int, d \in Int :
          /\ x = s[1].index /\ v = s[1].secret /\ d = Aside(x, b)
          /\ Congruent(v, (a + b * x) + d)
          /\ s[1] = Foreign <=> x = 4
  BY PresentedShare DEF Aside
<1>2. PICK y \in 1 .. 4, w \in Int, e \in Int :
          /\ y = s[2].index /\ w = s[2].secret /\ e = Aside(y, b)
          /\ Congruent(w, (a + b * y) + e)
          /\ s[2] = Foreign <=> y = 4
  BY PresentedShare DEF Aside
<1>3. /\ ~Congruent(x - y, 0) /\ ~Congruent(x, 0) /\ ~Congruent(y, 0)
      /\ x \in Int /\ y \in Int /\ x # y
  BY <1>1, <1>2, IndicesApart, IndexNotZero
<1>4. /\ Interpolate(s) \in Scalars
      /\ \E f \in Int, g \in Int :
            /\ Congruent(Interpolate(s), f * v + g * w)
            /\ Congruent(f + g, 1) /\ Congruent(f * x + g * y, 0)
            /\ Congruent(f, 0) => Congruent(y, 0)
            /\ Congruent(g, 0) => Congruent(x, 0)
  <2>1. Presents(s, 1, x, v) /\ Presents(s, 2, y, w)
    BY <1>1, <1>2 DEF Presents
  <2> QED
    BY <1>3, <2>1, TwoShares
<1>5. PICK f \in Int, g \in Int :
          /\ Congruent(Interpolate(s), f * v + g * w)
          /\ Congruent(f + g, 1) /\ Congruent(f * x + g * y, 0)
          /\ Congruent(f, 0) => Congruent(y, 0)
          /\ Congruent(g, 0) => Congruent(x, 0)
  BY <1>4
<1>6. Congruent(f * v + g * w, a + (f * d + g * e))
  <2>1. Congruent(v, (a + b * x) + d) /\ Congruent(w, (a + b * y) + e)
    BY <1>1, <1>2
  <2> QED
    BY <1>3, <1>5, <2>1, TwoOnLine
<1>7. PICK r \in Int, p \in Int, q \in Int :
          r = Interpolate(s) /\ p = f * v + g * w /\ q = a + (f * d + g * e)
  BY <1>4, FieldOrder DEF Scalars
<1>8. Congruent(r, q)
  BY <1>5, <1>6, <1>7, Transitive
<1>9. CASE x # 4 /\ y # 4
  <2>1. d = 0 /\ e = 0
    BY <1>1, <1>2, <1>9 DEF Aside
  <2>2. q = a
    BY <1>7, <2>1
  <2> QED
    BY <1>1, <1>2, <1>4, <1>7, <1>8, <1>9, <2>2
<1>10. CASE x = 4
  <2>1. d = -(3 * b) /\ e = 0
    BY <1>1, <1>2, <1>3, <1>10 DEF Aside
  <2>2. q = a + f * (-(3 * b))
    BY <1>7, <2>1
  <2>3. Congruent(r, a) <=> Congruent(b, 0)
    BY <1>3, <1>5, <1>8, <2>2, OffLine
  <2> QED
    BY <1>1, <1>4, <1>7, <1>10, <2>3
<1>11. CASE y = 4
  <2>1. d = 0 /\ e = -(3 * b)
    BY <1>1, <1>2, <1>3, <1>11 DEF Aside
  <2>2. q = a + g * (-(3 * b))
    BY <1>7, <2>1
  <2>3. Congruent(r, a) <=> Congruent(b, 0)
    BY <1>3, <1>5, <1>8, <2>2, OffLine
  <2> QED
    BY <1>2, <1>4, <1>7, <1>11, <2>3
<1> QED
  BY <1>9, <1>10, <1>11

LEMMA ThreeDecide ==
    ASSUME P > 4, NEW a \in Int, NEW b \in Int, Line(a, b),
           NEW s, Len(s) = 3, s[1] \in Lying, s[2] \in Lying, s[3] \in Lying,
           s[1].index # s[2].index, s[1].index # s[3].index, s[2].index # s[3].index
    PROVE  /\ Interpolate(s) \in Scalars
           /\ Congruent(Interpolate(s), a)
              <=> (s[1] # Foreign /\ s[2] # Foreign /\ s[3] # Foreign) \/ Congruent(b, 0)
<1>1. PICK x \in 1 .. 4, u \in Int, c \in Int :
          /\ x = s[1].index /\ u = s[1].secret /\ c = Aside(x, b)
          /\ Congruent(u, (a + b * x) + c)
          /\ s[1] = Foreign <=> x = 4
  BY PresentedShare DEF Aside
<1>2. PICK y \in 1 .. 4, v \in Int, d \in Int :
          /\ y = s[2].index /\ v = s[2].secret /\ d = Aside(y, b)
          /\ Congruent(v, (a + b * y) + d)
          /\ s[2] = Foreign <=> y = 4
  BY PresentedShare DEF Aside
<1>3. PICK z \in 1 .. 4, w \in Int, e \in Int :
          /\ z = s[3].index /\ w = s[3].secret /\ e = Aside(z, b)
          /\ Congruent(w, (a + b * z) + e)
          /\ s[3] = Foreign <=> z = 4
  BY PresentedShare DEF Aside
<1>4. x # y /\ x # z /\ y # z
  BY <1>1, <1>2, <1>3
<1>5. /\ ~Congruent(x - y, 0) /\ ~Congruent(x - z, 0) /\ ~Congruent(y - z, 0)
      /\ ~Congruent(x, 0) /\ ~Congruent(y, 0) /\ ~Congruent(z, 0)
      /\ x \in Int /\ y \in Int /\ z \in Int
  BY <1>4, IndicesApart, IndexNotZero
<1>6. /\ Interpolate(s) \in Scalars
      /\ \E f \in Int, g \in Int, h \in Int :
            /\ Congruent(Interpolate(s), (f * u + g * v) + h * w)
            /\ Congruent((f + g) + h, 1) /\ Congruent((f * x + g * y) + h * z, 0)
            /\ ~Congruent(f, 0) /\ ~Congruent(g, 0) /\ ~Congruent(h, 0)
  <2>1. Presents(s, 1, x, u) /\ Presents(s, 2, y, v) /\ Presents(s, 3, z, w)
    BY <1>1, <1>2, <1>3 DEF Presents
  <2> QED
    BY <1>5, <2>1, ThreeShares
<1>7. PICK f \in Int, g \in Int, h \in Int :
          /\ Congruent(Interpolate(s), (f * u + g * v) + h * w)
          /\ Congruent((f + g) + h, 1) /\ Congruent((f * x + g * y) + h * z, 0)
          /\ ~Congruent(f, 0) /\ ~Congruent(g, 0) /\ ~Congruent(h, 0)
  BY <1>6
<1>8. Congruent((f * u + g * v) + h * w, a + ((f * c + g * d) + h * e))
  <2>1. /\ Congruent(u, (a + b * x) + c) /\ Congruent(v, (a + b * y) + d)
        /\ Congruent(w, (a + b * z) + e)
    BY <1>1, <1>2, <1>3
  <2> QED
    BY <1>5, <1>7, <2>1, ThreeOnLine
<1>9. PICK r \in Int, p \in Int, q \in Int :
          /\ r = Interpolate(s) /\ p = (f * u + g * v) + h * w
          /\ q = a + ((f * c + g * d) + h * e)
  BY <1>6, FieldOrder DEF Scalars
<1>10. Congruent(r, q)
  BY <1>7, <1>8, <1>9, Transitive
<1>11. CASE x # 4 /\ y # 4 /\ z # 4
  <2>1. c = 0 /\ d = 0 /\ e = 0
    BY <1>1, <1>2, <1>3, <1>11 DEF Aside
  <2>2. q = a
    BY <1>9, <2>1
  <2> QED
    BY <1>1, <1>2, <1>3, <1>6, <1>9, <1>10, <1>11, <2>2
<1>12. CASE x = 4
  <2>1. c = -(3 * b) /\ d = 0 /\ e = 0
    BY <1>1, <1>2, <1>3, <1>4, <1>12 DEF Aside
  <2>2. q = a + f * (-(3 * b))
    BY <1>9, <2>1
  <2>3. Congruent(r, a) <=> Congruent(b, 0)
    BY <1>7, <1>10, <2>2, OffLine
  <2> QED
    BY <1>1, <1>6, <1>9, <1>12, <2>3
<1>13. CASE y = 4
  <2>1. c = 0 /\ d = -(3 * b) /\ e = 0
    BY <1>1, <1>2, <1>3, <1>4, <1>13 DEF Aside
  <2>2. q = a + g * (-(3 * b))
    BY <1>9, <2>1
  <2>3. Congruent(r, a) <=> Congruent(b, 0)
    BY <1>7, <1>10, <2>2, OffLine
  <2> QED
    BY <1>2, <1>6, <1>9, <1>13, <2>3
<1>14. CASE z = 4
  <2>1. c = 0 /\ d = 0 /\ e = -(3 * b)
    BY <1>1, <1>2, <1>3, <1>4, <1>14 DEF Aside
  <2>2. q = a + h * (-(3 * b))
    BY <1>9, <2>1
  <2>3. Congruent(r, a) <=> Congruent(b, 0)
    BY <1>7, <1>10, <2>2, OffLine
  <2> QED
    BY <1>3, <1>6, <1>9, <1>14, <2>3
<1> QED
  BY <1>11, <1>12, <1>13, <1>14

----------------------------------------------------------------------------
(* Which shares meet at the key. *)

(* What is presented is a sequence of at most three. *)
LEMMA PresentedSequences ==
    ASSUME NEW s \in Presented
    PROVE  /\ Len(s) \in 0 .. 3 /\ DOMAIN s = 1 .. Len(s)
           /\ \A i \in 1 .. Len(s) : s[i] \in Lying
<1>1. PICK m \in 0 .. 3 : s \in [1 .. m -> Lying]
  BY DEF Presented, BoundedSeq, SeqOf, Lying
<1>2. m \in Nat /\ DOMAIN s = 1 .. m
  BY <1>1
<1>3. Len(s) = m
  BY <1>1, <1>2
<1> QED
  BY <1>1, <1>2, <1>3

LEMMA MeetAtKey ==
    ASSUME P > 4, NEW a \in Int, NEW b \in Int, Line(a, b), NEW s \in Presented,
           Distinct([i \in DOMAIN s |-> s[i].index])
    PROVE  (Interpolate(s) # 0 /\ Interpolate(s) = material.groupKey)
           <=> \/ Len(s) >= 2 /\ \A i \in DOMAIN s : s[i] # Foreign
               \/ s # <<>> /\ Congruent(b, 0)
<1>1. /\ Len(s) \in 0 .. 3 /\ DOMAIN s = 1 .. Len(s)
      /\ \A i \in 1 .. Len(s) : s[i] \in Lying
  BY PresentedSequences
<1>2. \A i, j \in 1 .. Len(s) : s[i].index = s[j].index => i = j
  BY <1>1 DEF Distinct, IsInjective
<1>3. ASSUME Interpolate(s) \in Scalars
      PROVE  (Interpolate(s) # 0 /\ Interpolate(s) = material.groupKey)
             <=> Congruent(Interpolate(s), a)
  <2>1. PICK r \in Int : r = Interpolate(s) /\ 0 <= r /\ r < P
    BY <1>3, FieldOrder DEF Scalars
  <2>2. r % P = r
    BY <2>1, FieldOrder
  <2>3. Congruent(r, a) <=> r = a % P
    BY <2>2, SameRemainder
  <2> QED
    BY <2>1, <2>3 DEF Line
<1>4. CASE Len(s) = 0
  <2>1. Interpolate(s) = 0 /\ s = <<>>
    BY <1>1, <1>4, SumOfNone
  <2> QED
    BY <1>4, <2>1
<1>5. CASE Len(s) = 1
  <2>1. s[1] \in Lying /\ s # <<>>
    BY <1>1, <1>5
  <2>2. Interpolate(s) \in Scalars /\ (Congruent(Interpolate(s), a) <=> Congruent(b, 0))
    BY <1>5, <2>1, OneDecides
  <2> QED
    BY <1>3, <1>5, <2>1, <2>2
<1>6. CASE Len(s) = 2
  <2>1. s[1] \in Lying /\ s[2] \in Lying /\ s # <<>>
    BY <1>1, <1>6
  <2>2. s[1].index # s[2].index
    BY <1>2, <1>6
  <2>3. /\ Interpolate(s) \in Scalars
        /\ Congruent(Interpolate(s), a)
           <=> (s[1] # Foreign /\ s[2] # Foreign) \/ Congruent(b, 0)
    BY <1>6, <2>1, <2>2, TwoDecide
  <2>4. (\A i \in DOMAIN s : s[i] # Foreign) <=> s[1] # Foreign /\ s[2] # Foreign
    BY <1>1, <1>6
  <2> QED
    BY <1>3, <1>6, <2>1, <2>3, <2>4
<1>7. CASE Len(s) = 3
  <2>1. s[1] \in Lying /\ s[2] \in Lying /\ s[3] \in Lying /\ s # <<>>
    <3>1. \A i \in 1 .. 3 : s[i] \in Lying
      BY <1>1, <1>7
    <3>2. 1 \in 1 .. 3 /\ 2 \in 1 .. 3 /\ 3 \in 1 .. 3
      OBVIOUS
    <3>3. s # <<>>
      BY <1>7
    <3> QED
      BY <3>1, <3>2, <3>3
  <2>2. s[1].index # s[2].index /\ s[1].index # s[3].index /\ s[2].index # s[3].index
    BY <1>2, <1>7
  <2>3. /\ Interpolate(s) \in Scalars
        /\ Congruent(Interpolate(s), a)
           <=> (s[1] # Foreign /\ s[2] # Foreign /\ s[3] # Foreign) \/ Congruent(b, 0)
    BY <1>7, <2>1, <2>2, ThreeDecide
  <2>4. (\A i \in DOMAIN s : s[i] # Foreign)
        <=> s[1] # Foreign /\ s[2] # Foreign /\ s[3] # Foreign
    <3>1. 1 .. 3 = {1, 2, 3} /\ DOMAIN s = 1 .. 3
      <4>1. 1 .. 3 = {1, 2, 3}
        OBVIOUS
      <4>2. DOMAIN s = 1 .. 3
        BY <1>1, <1>7
      <4> QED
        BY <4>1, <4>2
    <3> QED
      BY <3>1
  <2> QED
    BY <1>3, <1>7, <2>1, <2>3, <2>4
<1> QED
  BY <1>1, <1>4, <1>5, <1>6, <1>7

(* Two holders have the same secret if the line is level. *)
LEMMA LevelLine ==
    ASSUME NEW a \in Int, NEW b \in Int, Line(a, b)
    PROVE  material.shares[1].secret = material.shares[2].secret <=> Congruent(b, 0)
<1>1. /\ material.shares[1].secret = (a + b * 1) % P
      /\ material.shares[2].secret = (a + b * 2) % P
  BY DEF Line
<1>2. PICK u \in Int, v \in Int : u = a + b * 1 /\ v = a + b * 2 /\ v = u + b
  OBVIOUS
<1>3. Congruent(u, v) <=> u % P = v % P
  BY SameRemainder
<1>4. ASSUME Congruent(u, v) PROVE Congruent(b, 0)
  <2>1. PICK k \in Int : u = v + P * k
    BY <1>4 DEF Congruent
  <2>2. b = 0 + P * (-k) /\ -k \in Int
    BY <1>2, <2>1, FieldOrder
  <2> QED
    BY <2>2 DEF Congruent
<1>5. ASSUME Congruent(b, 0) PROVE Congruent(u, v)
  <2>1. PICK k \in Int : b = 0 + P * k
    BY <1>5 DEF Congruent
  <2>2. u = v + P * (-k) /\ -k \in Int
    BY <1>2, <2>1, FieldOrder
  <2> QED
    BY <2>2 DEF Congruent
<1> QED
  BY <1>1, <1>2, <1>3, <1>4, <1>5

LEMMA LineSigns ==
    ASSUME P > 4, NEW a \in Int, NEW b \in Int, Line(a, b)
    PROVE  ExactlyQuorumsSign
<1> SUFFICES ASSUME NEW c, c = CHOOSE any \in SessionBindings : TRUE,
                    NEW s \in Presented, NEW threshold \in 0 .. 3
             PROVE  ThresholdSigns(s, material.groupKey, c, DeriveSessionId(c), threshold)
                    <=> /\ Len(s) >= threshold
                        /\ Distinct([i \in DOMAIN s |-> s[i].index])
                        /\ \/ Len(s) >= 2 /\ \A i \in DOMAIN s : s[i] # Foreign
                           \/ /\ s # <<>>
                              /\ material.shares[1].secret = material.shares[2].secret
  BY DEF ExactlyQuorumsSign
<1>1. material.shares[1].secret = material.shares[2].secret <=> Congruent(b, 0)
  BY LevelLine
<1>2. ThresholdSigns(s, material.groupKey, c, DeriveSessionId(c), threshold)
      <=> /\ Len(s) >= threshold
          /\ Distinct([i \in DOMAIN s |-> s[i].index])
          /\ Interpolate(s) # 0 /\ Interpolate(s) = material.groupKey
  BY DEF ThresholdSigns
<1>3. CASE Distinct([i \in DOMAIN s |-> s[i].index])
  BY <1>1, <1>2, <1>3, MeetAtKey
<1>4. CASE ~Distinct([i \in DOMAIN s |-> s[i].index])
  BY <1>2, <1>4
<1> QED
  BY <1>3, <1>4

----------------------------------------------------------------------------
(* Keys *)

Pairs == Scalars \X Scalars

(* A key's shares lie on one polynomial, whose value at zero is the key. *)
KeyInv ==
    /\ contributions \in Seq(Pairs)
    /\ \/ material = NoMaterial
       \/ \E pairs \in Seq(Pairs) :
             /\ Len(pairs) = 3 /\ Secret(pairs) # 0
             /\ material = [shares |-> [j \in Indices |-> Share(pairs, j)],
                            groupKey |-> Secret(pairs)]

LEMMA KeyInvariance == Spec => []KeyInv
<1>1. Init => KeyInv
  BY DEF Init, KeyInv
<1>2. KeyInv /\ [Next]_vars => KeyInv'
  <2> SUFFICES ASSUME KeyInv, [Next]_vars PROVE KeyInv'
    OBVIOUS
  <2>1. CASE UNCHANGED <<contributions, material>>
    BY <2>1 DEF KeyInv
  <2>2. ASSUME NEW a \in Scalars, NEW b \in Scalars, Contribute(a, b) PROVE KeyInv'
    <3>1. <<NonZero(a), NonZero(b)>> \in Pairs
      BY PrototypeAssumption DEF NonZero, Scalars, Pairs
    <3>2. contributions' = Append(contributions, <<NonZero(a), NonZero(b)>>)
          /\ UNCHANGED material
      BY <2>2 DEF Contribute
    <3> QED
      BY <3>1, <3>2 DEF KeyInv
  <2>3. CASE DistributedKeygen
    <3>1. contributions \in Seq(Pairs) /\ Len(contributions) = 3 /\ Secret(contributions) # 0
      BY <2>3 DEF DistributedKeygen, KeyInv
    <3>2. /\ contributions' = <<>>
          /\ material' = [shares |-> [j \in Indices |-> Share(contributions, j)],
                          groupKey |-> Secret(contributions)]
      BY <2>3 DEF DistributedKeygen
    <3>3. contributions' \in Seq(Pairs)
      BY <3>2
    <3> QED
      BY <3>1, <3>2, <3>3 DEF KeyInv
  <2>4. ASSUME NEW s \in Senders, NEW r \in Rounds, NEW b \in SessionBindings, Send(s, r, b)
        PROVE  KeyInv'
    BY <2>1, <2>4 DEF Send, Transported
  <2>5. ASSUME NEW s \in Senders, DropFrom(s) PROVE KeyInv'
    BY <2>1, <2>5 DEF DropFrom, Transported
  <2>6. ASSUME NEW b \in SessionBindings, ModifyFirstDigest(b.digest) PROVE KeyInv'
    BY <2>1, <2>6 DEF ModifyFirstDigest, Transported
  <2>7. CASE DuplicateFirst \/ Reorder
    BY <2>1, <2>7 DEF DuplicateFirst, Reorder, Transported
  <2>8. CASE UNCHANGED vars
    BY <2>1, <2>8 DEF vars
  <2> QED
    BY <2>2, <2>3, <2>4, <2>5, <2>6, <2>7, <2>8 DEF Next
<1> QED
  BY <1>1, <1>2, PTL DEF Spec

LEMMA IntSum ==
    ASSUME NEW x \in Int, NEW y \in Int, NEW z \in Int
    PROVE  x + y + z \in Int
OBVIOUS

(* The shares of a key lie on a line. *)
LEMMA KeyLine ==
    ASSUME KeyInv, Generated
    PROVE  \E a \in Int, b \in Int : Line(a, b)
<1>1. PICK pairs \in Seq(Pairs) :
          /\ Len(pairs) = 3 /\ Secret(pairs) # 0
          /\ material = [shares |-> [j \in Indices |-> Share(pairs, j)],
                         groupKey |-> Secret(pairs)]
  BY DEF KeyInv, Generated
<1>2. PICK a \in Int, b \in Int : \A j \in Int : SummedAt(pairs, j) = (a + b * j) % P
  <2>1. /\ pairs[1] \in Pairs /\ pairs[2] \in Pairs /\ pairs[3] \in Pairs
    BY <1>1
  <2>2. /\ pairs[1][1] \in Int /\ pairs[2][1] \in Int /\ pairs[3][1] \in Int
        /\ pairs[1][2] \in Int /\ pairs[2][2] \in Int /\ pairs[3][2] \in Int
    <3>1. \A t \in Scalars : t \in Int
      BY FieldOrder DEF Scalars
    <3>2. \A pair \in Pairs : pair[1] \in Scalars /\ pair[2] \in Scalars
      BY DEF Pairs
    <3> QED
      BY <2>1, <3>1, <3>2
  <2>3. /\ pairs[1][1] + pairs[2][1] + pairs[3][1] \in Int
        /\ pairs[1][2] + pairs[2][2] + pairs[3][2] \in Int
    BY <2>2, IntSum
  <2>4. \A j \in Int :
            SummedAt(pairs, j) = ((pairs[1][1] + pairs[2][1] + pairs[3][1])
                                  + (pairs[1][2] + pairs[2][2] + pairs[3][2]) * j) % P
    BY DEF SummedAt
  <2> QED
    BY <2>3, <2>4
<1>3. a + b * 0 = a
  OBVIOUS
<1>4. material.groupKey = a % P /\ material.groupKey # 0
  BY <1>1, <1>2, <1>3 DEF Secret
<1>5. \A j \in 1 .. 3 : material.shares[j] = [index |-> j, secret |-> (a + b * j) % P]
  <2> SUFFICES ASSUME NEW j \in 1 .. 3
               PROVE  material.shares[j] = [index |-> j, secret |-> (a + b * j) % P]
    OBVIOUS
  <2>1. material.shares[j] = Share(pairs, j)
    BY <1>1 DEF Indices
  <2> QED
    BY <1>2, <2>1 DEF Share
<1> QED
  BY <1>4, <1>5 DEF Line

(* The first two meet at the key, over a field of any order. *)
LEMMA FirstTwoMeet ==
    ASSUME NEW a \in Int, NEW b \in Int, Line(a, b),
           NEW q, Len(q) = 2, q[1] = material.shares[1], q[2] = material.shares[2]
    PROVE  Interpolate(q) = material.groupKey
<1>1. PICK v \in Int, w \in Int :
          /\ v = (a + b * 1) % P /\ Congruent(v, (a + b * 1) + 0)
          /\ w = (a + b * 2) % P /\ Congruent(w, (a + b * 2) + 0)
  <2>1. PICK t \in Int, u \in Int : /\ t = a + b * 1 /\ t = (a + b * 1) + 0
                                    /\ u = a + b * 2 /\ u = (a + b * 2) + 0
    OBVIOUS
  <2>2. /\ t % P \in Int /\ Congruent(t % P, t)
        /\ u % P \in Int /\ Congruent(u % P, u)
    BY Reduced
  <2> QED
    BY <2>1, <2>2
<1>2. Presents(q, 1, 1, v) /\ Presents(q, 2, 2, w)
  BY <1>1 DEF Line, Presents
<1>3. ~Congruent(1 - 2, 0)
  <2>1. PICK d \in Int : d = 1 - 2 /\ -P < d /\ d < P /\ d # 0
    BY FieldOrder
  <2>2. ~Congruent(d, 0)
    BY <2>1, NoMultiple
  <2> QED
    BY <2>1, <2>2
<1>4. PICK x \in Int, y \in Int : x = 1 /\ y = 2
  OBVIOUS
<1>5. Presents(q, 1, x, v) /\ Presents(q, 2, y, w) /\ ~Congruent(x - y, 0)
  BY <1>2, <1>3, <1>4
<1>6. /\ Interpolate(q) \in Scalars
      /\ \E f \in Int, g \in Int :
            /\ Congruent(Interpolate(q), f * v + g * w)
            /\ Congruent(f + g, 1) /\ Congruent(f * x + g * y, 0)
  BY <1>5, TwoShares
<1>7. PICK f \in Int, g \in Int :
          /\ Congruent(Interpolate(q), f * v + g * w)
          /\ Congruent(f + g, 1) /\ Congruent(f * x + g * y, 0)
  BY <1>6
<1>8. Congruent(f * v + g * w, a + (f * 0 + g * 0))
  <2>1. Congruent(v, (a + b * x) + 0) /\ Congruent(w, (a + b * y) + 0) /\ 0 \in Int
    BY <1>1, <1>4
  <2> QED
    BY <1>7, <2>1, TwoOnLine
<1>9. PICK r \in Int, p \in Int : r = Interpolate(q) /\ p = f * v + g * w
  BY <1>6, FieldOrder DEF Scalars
<1>10. a + (f * 0 + g * 0) = a
  OBVIOUS
<1>11. Congruent(r, a)
  BY <1>7, <1>8, <1>9, <1>10, Transitive
<1>12. 0 <= r /\ r < P /\ r % P = r
  BY <1>6, <1>9, FieldOrder DEF Scalars
<1>13. r = a % P
  BY <1>11, <1>12, SameRemainder
<1> QED
  BY <1>9, <1>13 DEF Line

(* The quorum of the first two participants holds the key. *)
LEMMA QuorumHoldsKey ==
    ASSUME KeyInv, Generated,
           NEW quorum, quorum = SubSeq(material.shares, 1, 2)
    PROVE  /\ Len(quorum) = 2
           /\ Distinct([i \in DOMAIN quorum |-> quorum[i].index])
           /\ Interpolate(quorum) = material.groupKey
           /\ material.groupKey # 0
<1>1. PICK a \in Int, b \in Int : Line(a, b)
  BY KeyLine
<1>2. \A i \in 1 .. 2 : material.shares[i] \in Lying
  BY DEF Lying, Indices
<1>3. /\ quorum \in Seq(Lying) /\ Len(quorum) = 2
      /\ \A i \in 1 .. 2 : quorum[i] = material.shares[1 + i - 1]
  BY <1>2, SubSeqProperties
<1>4. /\ quorum[1] = material.shares[1] /\ quorum[2] = material.shares[2]
      /\ DOMAIN quorum = 1 .. 2
  BY <1>3
<1>5. Interpolate(quorum) = material.groupKey
  BY <1>1, <1>3, <1>4, FirstTwoMeet
<1>6. Distinct([i \in DOMAIN quorum |-> quorum[i].index])
  <2>1. quorum[1].index = 1 /\ quorum[2].index = 2
    BY <1>1, <1>4 DEF Line
  <2> QED
    BY <1>4, <2>1 DEF Distinct, IsInjective
<1> QED
  BY <1>1, <1>3, <1>5, <1>6 DEF Line

(* Over a field whose order is greater than the indices presented, as that *)
(* of the curve is: whatever polynomials were drawn, the shares presented  *)
(* make a signature of the key exactly if they are a quorum.               *)
THEOREM OnlyQuorumsSign ==
    ASSUME P > 4
    PROVE  Spec => QuorumsSign
<1> DEFINE Signing == Generated => ExactlyQuorumsSign
<1>1. KeyInv => Signing
  BY KeyLine, LineSigns
<1>2. [Next]_vars /\ Signing' => [material' # material => ExactlyQuorumsSign']_vars
  <2> SUFFICES ASSUME [Next]_vars, Signing', material' # material
               PROVE  ExactlyQuorumsSign'
    BY DEF vars
  <2>1. CASE DistributedKeygen
    <3>1. material'.groupKey # 0
      BY <2>1 DEF DistributedKeygen
    <3>2. Generated'
      BY <3>1 DEF Generated, NoMaterial
    <3> QED
      BY <3>2
  <2>2. CASE UNCHANGED material
    BY <2>2
  <2>3. DistributedKeygen \/ UNCHANGED material
    BY DEF Next, Contribute, Send, DropFrom, DuplicateFirst, Reorder, ModifyFirstDigest,
           Transported, vars
  <2> QED
    BY <2>1, <2>2, <2>3
<1> HIDE DEF Signing
<1> QED
  BY <1>1, <1>2, KeyInvariance, PTL DEF Spec, QuorumsSign

(* Over a field of any order, with whatever polynomials the participants   *)
(* drew and whatever bindings there are: the handshake and the signers     *)
(* agree on the session, and the signature is good for the digest agreed   *)
(* on, which is that of every binding with the session's id, and no other. *)
THEOREM AgreedBindingSigned == Spec => []AgreedIsSigned
<1>1. KeyInv => AgreedIsSigned
  <2> SUFFICES ASSUME KeyInv, Generated PROVE AgreedIsSigned
    BY DEF AgreedIsSigned
  <2> DEFINE quorum == SubSeq(material.shares, 1, 2)
  <2> SUFFICES ASSUME NEW ours \in SessionBindings, NEW theirs \in SessionBindings
               PROVE  LET session == DeriveSessionId(ours)
                          sig == ThresholdSign(quorum, theirs, session)
                      IN  /\ ThresholdSigns(quorum, material.groupKey, theirs, session, 2)
                             <=> HandshakeValid(ours, theirs)
                          /\ HandshakeValid(ours, theirs) =>
                                \A other \in SessionBindings :
                                    /\ VerifySignature(other.digest, sig, material.groupKey)
                                       <=> other.digest = ours.digest
                                    /\ DeriveSessionId(other) = session
                                       => VerifySignature(other.digest, sig, material.groupKey)
    BY Zenon DEF AgreedIsSigned
  <2> DEFINE session == DeriveSessionId(ours)
             sig == ThresholdSign(quorum, theirs, session)
  <2>1. /\ Len(quorum) = 2
        /\ Distinct([i \in DOMAIN quorum |-> quorum[i].index])
        /\ Interpolate(quorum) = material.groupKey
        /\ material.groupKey # 0
    BY QuorumHoldsKey
  <2>2. ThresholdSigns(quorum, material.groupKey, theirs, session, 2)
        <=> session = DeriveSessionId(theirs)
    BY <2>1 DEF ThresholdSigns
  <2>3. HandshakeValid(ours, theirs) <=> session = DeriveSessionId(theirs)
    BY SessionIdTellsBinding DEF HandshakeValid
  <2>4. ASSUME NEW digest
        PROVE  VerifySignature(digest, sig, material.groupKey) <=> digest = theirs.digest
    BY <2>1 DEF VerifySignature, ThresholdSign
  <2>5. HandshakeValid(ours, theirs) => theirs.digest = ours.digest
    BY DEF HandshakeValid, HandshakeValidFields
  <2>6. ASSUME NEW other \in SessionBindings, DeriveSessionId(other) = session
        PROVE  other.digest = ours.digest
    BY <2>6, SessionIdTellsBinding DEF HandshakeValidFields
  <2>7. /\ ThresholdSigns(quorum, material.groupKey, theirs, session, 2)
           <=> HandshakeValid(ours, theirs)
        /\ HandshakeValid(ours, theirs) =>
              \A other \in SessionBindings :
                  /\ VerifySignature(other.digest, sig, material.groupKey)
                     <=> other.digest = ours.digest
                  /\ DeriveSessionId(other) = session
                     => VerifySignature(other.digest, sig, material.groupKey)
    <3> HIDE DEF session, sig, quorum
    <3> QED
      BY <2>2, <2>3, <2>4, <2>5, <2>6
  <2> QED
    BY <2>7, Zenon
<1> QED
  BY <1>1, KeyInvariance, PTL
=============================================================================
