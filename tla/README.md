# KeyMesh: a verification project

TLA+ models of KeyMesh, checked with TLC on small instances and, for the
on-chain protocol, its reference machine, the lifecycle of threshold keys, the
providers that sign with them and the store of their shares, proved with TLAPS
for every value of the constants.
Paths below are relative to the repository.

## 1. The system

KeyMesh protects a smart-contract wallet by three independent powers:

* **devices** sign transactions (who authorizes a request),
* a **policy** decides whether a device suffices or guardians must consent to
  that very transaction (what authorization is required),
* **guardians** replace a lost or stolen device after a timelock (who controls
  the wallet).

| component | source | state | operations | interacts with |
|---|---|---|---|---|
| Wallet device set | `contracts/ethereum/src/KeymeshWallet.sol` | `_devices`, `_deviceCount`, `_recoveryInitialized` | `registerDevice`, `revokeDevice`, `applyRecoveredDevice`, `initializeRecoveryGovernance` | called by manager, devices and the RecoveryManager |
| Wallet execution | same file, `KeymeshTx.sol` | `_nonce` | `execute` | asks and consumes at the PolicyManager, then calls any target |
| RecoveryManager | `RecoveryManager.sol` | requests by global id, latest id, quorum, timelock, approvals | bootstrap, guardian governance, initiate, approve, cancel, finalize | reads devices, writes them at finalization, owns the registry |
| GuardianRegistry | `GuardianRegistry.sol` | mapping, list and counter per wallet | add, remove | called by the RecoveryManager only, read by the PolicyManager |
| PolicyManager | `PolicyManager.sol` | configuration and restricted sets per wallet, authorization records by digest | six settings, request, approve, cancel, consume, classify | reads devices and guardians; settings come through `execute` |
| Reference recovery machine | `crates/keymesh-core/src/recovery/mod.rs` | one request value | initiate, approve, cancel, finalize, effective status | documented as the semantics of the contract |
| Core policy, transactions, encodings | `crates/keymesh-core/src/{policy,transaction,signing,serialization}` | none (values) | classification, canonical bytes, encoder and decoder | mirrors of the contracts; what is hashed and signed |
| Threshold key lifecycle | `crates/keymesh-tss/src/lifecycle.rs` | key state, material, set version, lock | dkg, refresh, begin/apply rotation, rotate with request, retire | takes approved rotation requests |
| Signing providers | `crates/keymesh-tss/src/provider.rs` | a clone of the key material | sign | built from a key, never updated |
| Rotation governance | `crates/keymesh-tss/src/governance.rs` | one rotation request | initiate, approve, cancel, mark resharing/completed/failed | guardians, key lifecycle |
| Sessions, handshake, transports | `crates/keymesh-tss/src/{session,transport,network,handshake,envelope}.rs`, `crates/keymesh-tss-proto` | session status, message queue, sockets and listeners | handshake, connect, send, receive, close, checks | participants over an unreliable transport |
| Share storage | `crates/keymesh-tss/src/storage.rs` | one file per share | store, load, delete | file system |
| TypeScript protocol, SDK | `packages/protocol`, `packages/sdk` | mirrors of the state machines; view of the chain | read nonce, sign, submit, watch | contracts through a node |
| Dashboard, scripts, docs | `apps`, `contracts/ethereum/script`, `docs` | demo data | - | - |

What is hard: on chain, every transaction is atomic, but transactions of
managers, devices, guardians and relayers interleave freely, several in one
block, and each of four contracts trusts counters and snapshots kept by
another. Requests and authorizations live across many transactions while the
guardians, quorums and policies they were opened under change. Two wallets
share one set of managers, one request counter and one digest space. Off chain
the hazards are partial failure (a rotation that fails half-way), stale copies
(a provider's clone of the key), an unreliable transport, and crashes while
shares are written. `PROJECT.json` lists each hazard at its line with the
properties that watch it.

What makes each component correct:

* *device set*: never empty, counted exactly, changed after bootstrap only by
  a device leaving by itself or by an earned recovery;
* *recovery*: at most one live request per wallet, exact counting of distinct
  guardians, a public warning window of at least the minimum timelock, terms
  that never change, and an end for every approved recovery;
* *registry*: the three representations agree;
* *policy*: no setting changes without the consent of the guardians; consent
  is to one transaction, under one policy version, and is used once;
* *reference machine*: the contract implements it;
* *key lifecycle and rotation*: a rotation is earned, happens whole or not at
  all, and each version of the key is replaced by one request at most;
* *providers*: after a version check, what signs is a quorum of the present
  participants, and always for the wallet's one key;
* *sessions and transports*: what was agreed on is what is signed, no message
  stands for two, and what arrives is what the peer sent, in order;
* *share storage*: what is loaded is a share as it was stored, or an error;
* *encodings*: what is signed says exactly what was meant;
* *policy preview*: off-chain code foresees what the contract decides as long as
  the policy version it read stands.

## 2. The modules

| module | models | proofs |
|---|---|---|
| `RecoveryGovernance` | device set, guardian set, recovery lifecycle of all wallets | `RecoveryGovernance_proofs` |
| `RequestLifecycle` | keymesh-core's request, the abstract specification | `RequestLifecycle_proofs` |
| `RecoveryRefinement` | the mapping of the first to the second | `RecoveryGovernance_proofs` |
| `GuardianRegistry` | mapping, list and counter of a guardian set | `GuardianRegistry_proofs` |
| `TransactionPolicy` | execution and policy, composed with `RecoveryGovernance` | `TransactionPolicy_proofs` |
| `PolicyPreview` | keymesh-core's classification, beside `TransactionPolicy` | `TransactionPolicy_proofs` |
| `CanonicalEncoding` | Encoder, Decoder and the byte strings of everything signed | - |
| `RequestEncoding` | the bytes of a request of `RequestLifecycle` through its life | - |
| `RotationGovernance` | the requests that govern rotations of a threshold key | in the next but one |
| `KeyMaterial` | key generation and re-sharing: who takes part, with what result | in the next |
| `KeyLifecycle` | the key, composed with `RotationGovernance` and `KeyMaterial` | `KeyLifecycle_proofs` |
| `ThresholdSigning` | providers and `threshold_sign`, on top of `KeyLifecycle` | `KeyLifecycle_proofs` |
| `ThresholdPrototype` | keymesh-tss-proto: key generation, signing, session ids, handshake, faulty transport | `ThresholdPrototype_proofs` |
| `ShareStore` | shares in files, written piece by piece | `ShareStore_proofs` |
| `PeerTransport` | envelopes over TCP, with cancelled calls and crashes | `PeerTransport_proofs` |

`MC<module>` declares the model values of the instance TLC checks, and the
`.cfg` files give the constants.

### Correspondence

**A step is a transaction.** A call that reverts leaves no trace, so each action
is a whole successful call, its guard the conjunction of the checks on the way,
calls into other contracts included: `FinalizeRecovery` contains
`applyRecoveredDevice`, `BootstrapRecoveryGovernance` the registry additions and
`initializeRecoveryGovernance`, `Execute` the classification, the consumption
and whatever the target does. `Tick` moves the block timestamp; transactions
between two ticks share a block.

**Callers.** `Callers` is every account and every wallet: a wallet is a
`msg.sender` too, through `execute`. One account may hold several roles; in the
instances the manager or a guardian can also become a device.

**Guardian sets** are sets in `RecoveryGovernance`, and a count is a
cardinality. `GuardianRegistry` shows (and proves) that the counter the code
reads is that cardinality.

**Lazy promotion.** `QuorumReached` becomes `Executable` by reading the clock.
`_refresh` also writes it, but only in a transaction that then overwrites it or
reverts; `Executable` is therefore never stored, which is part of the invariant
proved (`Snapshots`).

**Transactions.** In `TransactionPolicy` a transaction record is its own digest:
the encoding is injective in wallet, nonce, call and expiry (`EncodingCanonical`
of the run `RequestLifecycle`), and the hash is taken to be. `Transactions`, what devices sign in an instance, is a constant.
`Execute` takes the signer that `ECDSA.recover` would return; anyone submits.
Guardian and policy governance have no other way in than `Execute`.
`ExternalCall` is any other target. A target that fails reverts everything. The
`nonReentrant` guard and consumption-before-call mean a call back into the
protocol is, to this state, a later step of whoever is called.

**Abstractions.** Left out: events, views, `initiator`, `requester` and
`requestedAt` (never read), `chainId` (one chain), ether balances, the
`uint32` casts of quorums and guardian counts (they would need 2^32 guardians).
`execute` towards `initiateRecovery`, `approveRecovery` and `cancelRecovery`,
where the wallet itself is the caller, is covered in `RecoveryGovernance`
(wallets are in `Callers`) and not repeated in `TransactionPolicy`. The
counters of the restricted sets are the sets' cardinalities. `execute_after` of
the Rust request is an `Option`; it is `Some` exactly from `QuorumReached` on.

**Threshold keys.** `dkg`, `refresh`, the rotation calls and `retire` take the key
(and `rotate_with_request` the request) by exclusive reference, so a step is one
call of the library; between two calls anything else may happen. `driver` fixes
in `KeyInit` how the application rotates: "governed", by
`rotate_with_request` alone, or "stepwise", by `begin_rotation`,
`apply_rotation` and the request's marks in any order and with any request.
Key material is the list of participants (verifier numbers), its threshold, its
group key and how often its shares were re-shared; `Resolve` is the code's mapping
of names to participants, and `EntryPoints` who takes part in a re-sharing, in
which roles, by their places in it. KeyInit, KeyResharing and AuxGen are external: a
`ProtocolRun` is any outcome they may have, a new group key included, and the
code's checks of it decide whether the key is replaced. A failed DKG or refresh,
or a refused call, leaves everything as it was and is no step. The fields the
Rust structs make public are written by these calls only. `now` is what callers
pass as `now_seconds`, taken to be one clock; `begun` and `failedApply` are
history. The pair `requested_by`, `governance_reference` is never read and left
out.

**Providers.** Signing and asking whether one may sign change no state, so
`CanSign` and `SigningAllowed` are operators, and the properties speak of every
provider at every moment. The version a provider was made under is noted by the
application, as `check_signing_allowed` expects. `InteractiveSigning` is external:
shares of fewer holders than the threshold yield a signature that does not
recover to the group key, which `threshold_sign` finds.

**The prototype** (`keymesh-tss-proto`) keeps its arithmetic, over a field of `P`
elements: polynomials of degree one from three contributions, Lagrange
interpolation at zero, and the comparison of the interpolated point with the
group key. A point is its scalar. Its hashes are the byte strings hashed, so that
two bindings whose bytes run together share a session id.

**The transports.** The simulated transport of the tests has its faults as
actions (`Send`, `DropFrom`, `DuplicateFirst`, `Reorder`, `ModifyFirstDigest`) and
its three checks as operators. The TCP transport is modelled from its two ends;
`send`, `receive` and `connect` are futures, so each await is a point at which the
call may be dropped (`CancelSend`, `CancelReceive`, `CancelAccept`), and either
process may die. TCP delivers a prefix of what was written, in order. It carries
words: one for the length, `BodyWords` for the JSON.

**Share storage.** `std::fs::write` truncates, then writes at its own offset; two
processes may be in it at once on one file and die anywhere. A sealed blob has two
pieces, and opens only if both are pieces of it.

**Encodings.** A byte has `Base` values; a u32, an address and a hash are one
byte, a u64 two, a uint256 three. What is kept is which fields have a fixed width,
which carry their length and which end at a zero byte.

**Named bounds.** `MaxTime` (last timestamp), `MaxRequests` (requests ever
opened), `MaxAuthorizations` (records ever opened), `Transactions`,
`Timelocks` (timelocks asked for), `Proposals` (rotations asked for), `ApplyThresholds`
(thresholds given to `apply_rotation`), `MaxRefreshes`, `Bindings` and `Subsets`
(what is asked to be signed, and by whom), `SessionBindings`, `Rounds`,
`MaxMessages` and `MaxSent` of the simulated transport, `MaxStores`,
`Envelopes`, `MaxSends` and `MaxConnections` of the TCP transport, `Numbers` and
`Texts` encoded. They appear in guards and in the ranges of quantifiers only. The limits 256
and 64 of the restricted sets are the constants
`MAX_RESTRICTED_DESTINATIONS` and `MAX_RESTRICTED_SELECTORS`; the width of
`executeAfter` is `UINT64_MAX`.

## 3. The runs

| run | instance | what it shows |
|---|---|---|
| `Recovery` | one wallet, two requests, three keys that may be devices, two guardians, timelocks 0 and 1, `UINT64_MAX` 2 | seven invariants and two action properties over all interleavings of manager, device, guardian and relayer calls |
| `RecoveryRefinement` | one wallet, one request, under fairness | every step is a step of keymesh-core's machine; an approved recovery is settled |
| `RequestLifecycle` | one request, three guardians, timelocks 0..3, `U64_MAX` 5, overflow checked; bytes of four values, six texts, all buffers of up to four bytes | nothing is executed without quorum and window; a request's bytes never change and give back its intent, and the other encodings are injective |
| `GuardianRegistry` | the registry alone, all orders of additions and removals | mapping, list and counter agree |
| `Policy` | one wallet, two guardians, three authorizations open while every setting changes and a guardian leaves | exact counting, anti-downgrade, outdated records inert, the off-chain preview right while its version stands |
| `PolicyWallets` | two wallets, shared managers, two authorizations, two requests | single consumption, isolation of ids and approvals, implementation of `RecoveryGovernance` |
| `KeyLifecycle` | one key, two rotation requests, two guardians, nine proposals of which five must be refused or never match, time to 2, `U64_MAX` 3, both ways of driving; one provider of any age, six choices of signers | rotations are earned and one history, failures harmless, retirement final, identifiers tell sets apart; checked signatures are the present quorum's, one group key for ever, every holder takes part once |
| `Prototype` | every contribution over five scalars, four bindings differing in one field each, three messages of two senders in three rounds, one invalid | exactly quorums sign; handshake and signature agree, for the agreed digest and no other; the checks find repeated and altered messages |
| `ShareStore` | two processes, two participants, three stores | every load is a stored share of that participant, or an error |
| `PeerTransport` | two connections, three sends of six envelopes of which four must be refused, frames of three words | what is received was sent, in order, by the peer, for the session |
| `PolicyCancel` | two wallets with different devices | finding 1 below |
| `FailedRotation` | as `KeyLifecycle` | finding 2 |

*Why the bounds are enough for the interesting cases.* Two requests per wallet
let a second recovery follow a cancelled or an executed one, the point at which
stale approvals or ids could return. Two guardians separate "approved twice"
from "approved by two", and let one be removed while the other stays. A wallet
may hold up to three devices, so the last-device check, replacement, self-removal
of the replaced device and addition without replacement all occur. Timelock 0 is
below the minimum; `UINT64_MAX` 2 makes the deadline addition overflow within
the modelled time. Three transactions per wallet with two nonces of policy
changes let a record be opened under version 0, 1 or 2 and approved or executed
under a later one. Two rotation requests for one key can
ask to replace the same version, or consecutive ones, or one of them the version
0 before generation; timelocks 1 and 2 let the first requested be due last; the
proposal of a set of one participant leaves the names B to D without a position
in it. Over five scalars contributed slopes can cancel, which over 256 bits only
chance could bring about. Frames of three words can be cut after the length and
in the body, so that a later frame's words complete an earlier one's; a second
connection separates what a lost connection still held. Three stores let two
writers meet in one file while a third share is elsewhere. The proofs remove the bounds for what they cover.

Deadlock is checked for `GuardianRegistry` only. Elsewhere a run ends when the
bounds are spent and the wallet's transactions are used up, so the instances
set `CHECK_DEADLOCK FALSE`.

**Fairness** (`FairSpec`): weak fairness of `Tick`, since blocks keep coming, and
of `FinalizeRecovery` for each wallet, since the function is permissionless and
any relayer, the new device's owner first, can send it for as long as it would
succeed. No guardian, device or manager is obliged to do anything.
`ApprovedRecoverySettles` concludes with settlement *or* the departure of the
replaced device: `applyRecoveredDevice` then reverts, and the request waits for
a cancellation. `NewDeviceStillNew` shows the other check there cannot fail.

**Mutants.** Each property of a passing run has a mutated definition, kept beside
the original, that breaks it: a guard dropped, a counter incremented too early,
a boundary moved.

## 4. Where code and documents disagree

1. `PolicyCancel` - `cancelAuthorization` does not compare `record.wallet`
   (`PolicyManager.sol:254-265`; the comment at lines 66-68).
2. `FailedRotation` - `apply_rotation` called with another threshold than the
   request's returns before it resets anything (`lifecycle.rs:282`): the key
   stays `Rotating` and locked. The test `rotation_failed_preserves_old_state`
   (`tests_lifecycle.rs:185-186`, ignored by default) makes that call and asserts
   `Active`; `docs/architecture/tss-key-lifecycle.md:46` and
   `docs/security/tss-invariants.md:251` say so too. `rotate_with_request` cannot
   run into it: `LockReleased` holds, and is proved, for keys driven by it.

Others were met and have no run of their own.

*On chain.* An approval outlives the guardian that gave it: a guardian removed
while a request is pending still counts towards the quorum
(`RecoveryManager.sol:248`; `docs/security/invariants.md:323`). `removeGuardian`
may bring the guardians below the configured quorum, against
`docs/security/invariants.md:178`; `initiateRecovery` re-checks, so no request is
*opened* with an unsatisfiable quorum, but one open already can stay pending
until a device cancels it. And `requestAuthorization` does not check that the
digest belongs to the wallet passed in, so another wallet's device can occupy the
record of a digest (against the isolation of `docs/security/invariants.md:294`);
`SingleConsumption` shows that such a record is never consumed.

*Reference machine and core.* `approve` adds the timelock to the time unchecked
(`recovery/mod.rs:238`): in a release build the deadline wraps into the past,
where the contract reverts (`docs/security/invariants.md:372-377`).
`RequestLifecycle.cfg` with `OverflowWraps = TRUE` and `U64_MAX = 3` shows
`ExecutionEarned` violated. `canonical_bytes` panics for a quorum beyond 255
(`recovery/mod.rs:304`). `classify` is called an exact mirror
(`policy/mod.rs:4`), but its first rule asks for a restricted selector, where the
contract knows its own administration selectors: it agrees if its caller counts
those as restricted, as `Preview` does.

*Signing.* A provider made before a rotation, a refresh or the retirement of its
key goes on signing (`provider.rs:142-164` asks the lifecycle nothing), while
`docs/security/tss-invariants.md:250,254` list stale signing as rejected; the
check is the application's, and `CheckedSignature` shows what it is good for. An
aborted `SigningSession` does not keep `threshold_sign` from signing
(`tss-invariants.md:99-105`). `handshake_validate` ignores the participants and
the threshold it is given (`handshake.rs:48-49`). Fresh participants are numbered
`100 + position` in a byte (`lifecycle.rs:608-649`), so that after two rotations a new set may hold one number twice
(names A, C, E on the participants 0, 2, 102 become 0, 102, 102): `HoldersTakePart`
is stated for distinct ones.

*Transports.* Both compare an envelope's digest and protocol version with the
envelope's own (`network.rs:286-289`), which refuses nothing. The checks of the
simulated transport do not notice lost or reordered messages
(`tss-invariants.md:232`). A listening side whose `connect` was dropped cannot
connect again until `close`.

*Storage.* A crash while a share is overwritten loses the old share as well as
the new: `LoadIntact` says that the loss is an error, never a wrong share.

Of the threshold key, where no document says otherwise: `mark_resharing` does
not look at the time its comment speaks of, which `begin_rotation` makes up for
(`RotationEarned`). `apply_rotation` takes any request, not only the one that was
begun, and a request can be cancelled while it is re-shared. Names of
participants stand for positions in the present set ("A" and "P0" for the same),
so they change meaning with every rotation. `InMemoryTssLifecycle.finalizeRotation`
of the SDK (`packages/sdk/src/tss-lifecycle.ts:149`) re-checks neither state nor
version, unlike the Rust it mirrors.

## 5. What is proved

The proofs about the contracts hold for any sets of wallets, accounts, devices
and guardians, and any bounds, from `AddressAssumption` and `NumberAssumption` alone: addresses
offered are not `address(0)`, the sets of device and guardian keys are finite,
the minimum timelock is positive, numbers are natural.

**`RecoveryGovernance_proofs`.** Every invariant of the run `Recovery`, and its
action properties, are consequences of one inductive invariant

    IInv == TypeOK, CountPositive, DeviceSetSound, GovernanceConfigured,
            Fresh, Issued, Snapshots, QuorumCounted, WarningWindow,
            LatestIsOwn, OneLiveRequest, NewDeviceStillNew

Why each part is needed: `CountPositive` keeps the counter from underflowing (it
makes `TypeOK` inductive). `Fresh` (ids not handed out are unwritten) and
`Issued` (latest ids were handed out) make a new request touch no old one, on
which `LatestIsOwn` and `OneLiveRequest` depend. `Snapshots` says what a request
copied from a bootstrapped wallet, so that the quorum is positive and the
deadline leaves the window (`QuorumCounted`, `WarningWindow`); it rests on
`GovernanceConfigured`. `NewDeviceStillNew` needs `OneLiveRequest`, because
bootstrap retires the manager (the only other way to add a device) before a
request can be live. The proof that a step preserves `IInv` first reduces
`Next` to four kinds of step (lemma `StepKinds`: quiet, open, approve, settle)
and says field by field what each does to the one request it touches
(`OpenEffect`, `ApproveEffect`, `SettleEffect`).

**The reference machine**, in the same module. `ReferenceImplemented`: every behaviour of the
contract is one of keymesh-core's state machine under the mapping
`RequestView`. Beside `IInv` it needs that a configured timelock is one somebody
passed in (`TimelockChosen`). The u64 addition of the reference does not wrap on
the contract's steps because the contract's checked addition would have
reverted; the two count approvals alike by `QuorumCounted`.

**`GuardianRegistry_proofs`.** The three properties of the registry together are
inductive; the work is that swap-and-pop on a list without repetition leaves an
enumeration of the remaining guardians (`RemoveEnumerates`).

**`TransactionPolicy_proofs`.** `PolicyImplementsGovernance`: the composed
protocol implements `RecoveryGovernance`, hence all of the theorems above hold
of it (`PolicyKeepsWarningWindow` is one carried over). The properties of the
policy itself come, from `PolicyAssumption` as well (what the signed calls carry
is of the ABI's types), from a second inductive invariant

    PolicyInv == PolicyTypeOK, CountPositive, UnconfiguredPlain, Recordings,
                 AllCounted, SingleConsumption

`Recordings` (a record not opened has no approvals, an opened one is some
wallet's) lets a new record start at zero. `UnconfiguredPlain` says that only a
configured wallet asks for guardians. `AllCounted` is `AuthorizationCounted` one
record at a time: that a record of the *current* version asks for what the
current configuration asks is what makes `ConsentRequired` true, and it is kept
because every setting that changes the requirement raises the version
(`RequiredKept`). `SingleConsumption` is inductive because a consumption happens
at the wallet's nonce and moves it. Steps are reduced to what they do to one
record (`RecordKinds`), to the settings (`ConfigKinds`) and to the nonces
(`NonceKinds`).

`PreviewsHold` needs one invariant more, `SelectorsRestricted`: only a configured
wallet has restricted selectors. Without it keymesh-core's first rule, which asks
the caller's flag and not the configuration, could ask for guardians where the
contract does not.

**`RequestLifecycle_proofs`.** `ExecutionsEarned`: no request of the reference
machine is executed without quorum and window, in a build that checks
additions. The hypothesis is needed: section 4 names the instance in which the
deadline wraps. The invariant (`Sound`) says of each request that its deadline
leaves the minimum timelock and that an executed one was past it.

**`ShareStore_proofs`.** `LoadsIntact`, for any number of processes, participants
and calls. The invariant says that every piece in a file is of a promised share
(`FileSound`), so that two pieces of one share are a promised share, that no two
calls on one file run while either counts as alone (`Exclusive`), and that a
store that is alone has written exactly what it has come to (`CallSound`), so
that what it promises at its end is in the file.

**`KeyLifecycle_proofs`.** The first seven properties of the run `KeyLifecycle`, for any
requests, guardians, names and participants, from `RotationAssumption`,
`KeyAssumption` and the hypothesis `NoOverflow` (a build that checks overflow:
without it the deadline wraps and `RotationEarned` is false, as in the reference
machine, section 4). The inductive invariant is

    KeyInv == RequestsOK, KeyOK, RotationEarned, LockReleased

`RequestsOK` says of each request that a granted one (quorum reached, being
re-shared, completed, failed) has its quorum, a deadline a minimum timelock after
its creation, and a threshold its new set can meet; `KeyOK` that the key is
locked exactly while it rotates, and that its identifier is derived from its
present threshold and version. Without the former, `begin_rotation`'s check would
not yield `RotationEarned`; without the latter, a rotation might reproduce an old
identifier (`KeyIdNamesSet`). A step is reduced to what it does to the one
request it touches (`RequestKinds`, then `Kept`) and to the key (`KeyKinds`); what
a request has earned it keeps (`EarnedStays`), since approvals only grow and
terms never change. `VersionsAreHistory` is a second induction on top: a
governed step either completes nothing or completes the one request made for
the present version and raises it (`HistoryKinds`).

**Signing**, in the same module. `WalletKeyKept` (every provider, of whatever age,
signs for the key that was generated) and `CheckedSignatureIsCurrent` (after a
version check what signs is a quorum of the present participants), from the
same hypothesis. They rest on `KeyInv` and on what binds a provider's clone to
the material it was taken from: a clone of the present version *is* the present
material, because nothing changes the material without raising the version.
`HoldersComplete`: in every re-sharing each holder has one entry point of the right
role. The clones alone do not yield it: that a kept name is built once although
three loops may build it (`PartsOnce`) and that fresh numbers keep apart up to
256 names (`FreshApart`) are lemmas about `EntryPoints` and `Resolve`.

**`PeerTransport_proofs`.** `AnswersInOrder`, for any envelopes, any number of calls,
connections and words in a body. A word on a connection says nothing of the
call that wrote it, so the invariant has to find the call again:

    NetworkInv == NetworkTypes, StreamsOK, OwnAnswers, Placed(Lines, handed)

`Lines` are what was accepted, then the words on each connection from the oldest
to the newest, then what the sender has still to write. `Placed` says that the
last words of frames in them, read in that order, stand for calls of `send` in
the order they were made. A call adds a last word at the end and its call with
it; every other step moves the words on or loses some (`LostWords`), and a part
of an order is in order. What makes the order of the connections the order of
the calls is `StreamsOK`: only the listener's present connection and those in
its backlog still hold words, the backlog is taken oldest first, and the client
writes to the newest alone. A half frame, and the body words a receiver out of
step takes for a length, have to be allowed anywhere: the invariant speaks of
last words only.

**`ThresholdPrototype_proofs`.** For a field of any order, any bindings
(`BindingAssumption`: wallets, digests and random bytes have fixed lengths, as
their Rust types have), any participants and bounds.
`SessionIdTellsBinding` reads every field off what is hashed: from both ends
inwards, since the protocol's name is the one field of variable length. With it,
`CheckedWasSent` follows from an invariant that says of each message held that
one was sent with its session, sender and round (`TransportInv`; its digest may
be altered, and then differs from the session's), and the bound on their number
from the pigeonhole principle. `AgreedBindingSigned` needs that a generated key's
shares lie on one line through the key (`KeyInv`, `KeyLine`) and that two of them
give it back (`FirstTwoMeet`). It says of the signature both that it verifies for
the digest of every binding with the session's id and that it verifies for no
digest but the one agreed on; bindings of other sessions may share that digest,
and there the signature is good as well.

`OnlyQuorumsSign` speaks of every selection and order of up to three shares, the
foreign one among them, of every key. It assumes `P > 4`, the greatest index
presented: below it indices coincide modulo `P` and the property is false. The
order of the curve the code works over exceeds it by far. The argument is carried
out on congruences: the least positive multiple of a number divides `P`, so what
is not zero has an inverse (`InverseExists`); the basis polynomials of shares of
different indices add up to one, and weighted with the indices to zero
(`TwoBases`, `ThreeBases`); so interpolation gives `a` for shares of a line
`a + b x`, and for a share beside it `a` plus a weight that is not zero times the
distance, here three times the slope (`OffLine`). Only a level line hides that,
which is the exception the property states.

**Only model-checked.** `ApprovedRecoverySettles` (liveness is out of the
prover's reach), and `EncodingCanonical` (the encodings are folds over byte
sequences, whose inverse needs an induction over data).

## 6. Plan

What the modules above leave, in the order of importance:

1. The TypeScript recovery and rotation machines (`packages/protocol`) and the
   SDK's in-memory lifecycle as refinements of `RequestLifecycle` and
   `KeyLifecycle`; the difference in `finalizeRotation` (section 4) is the first
   to show.
2. The SDK's read, sign, submit sequences against the chain of
   `TransactionPolicy`: how often a signature is spent by another execution.
3. The refresh of all participants' shares over `ShareStore`: which crashes leave
   a quorum that can still sign.

## 7. Not modelled, and why

*Cryptography.* The key generation, Paillier and curve arithmetic of
`keymesh-tss` and its crates are beyond a model checker's inputs; who takes part
in them is modelled (`KeyMaterial`), and the prototype's Shamir scheme over a
small field (`ThresholdPrototype`). Hashes, digests and transcript hashes are
taken to be injective, signatures to be made by the holder of the key only, and
an authenticated cipher to open what it sealed and nothing else; a wrong
passphrase is therefore left out. The mock signature of `keymesh-core` is a
stand-in for these.

*Transports.* The in-memory transport hands envelopes over a queue. Frames are
cut at words, not bytes. The status of a `SigningSession` is read by nothing that
signs (section 4).

*Storage.* Loss of power (`store` calls no `fsync`) and permission bits: the file
system keeps what was written, whoever dies.

*TypeScript, SDK, dashboard, deployment script, CI.* Mirrors of the modelled
machines, single calls to a node, presentation and wiring. What is different in
the mirrors and was noticed is in section 4.

*Contracts.* Events, views, ether balances, gas, reorganizations of the chain; a
transaction of the model is one that is final.
