# Haven AOL in TLA+

Haven AOL is a canister of the Internet Computer (`src/src/backend/main.mo`)
that hands out decryption keys to wallets that hold a token. A wallet signs an
EIP-712 message, the canister asks an EVM chain for the wallet's balance,
remembers the approval, and asks the IC's VetKD service for a key encrypted to
the wallet's transport key. Protocol v4 also asks for the market cap of the
token's bonding curve, and a chunk of content opens when the cap has reached
the chunk's target. Two further endpoints sign a statement of a wallet's
balance.

The canister's methods wait for other canisters in the middle of what they do,
and other messages run in those gaps. Most of what can go wrong here goes wrong
there: state that is read before an await and used after it, rows of a cache
that are recorded late, memos that are filled by an answer to an old question,
nonces that are consumed too late. The modules in this directory state what
must not happen, TLC checks it on small instances, and the TLA+ proof system
proves every safety property that holds in them whatever the constants are.

Line numbers below are lines of `src/src/backend/main.mo` unless another file
is named.

## 1. Inventory

| part | state it keeps | operations | modelled by |
|---|---|---|---|
| v3 gate | `usedNonces` (v3 scope), `approvedHolders`, `cachedVetKDPublicKeyV3`, `VETKD_KEY_NAME` | `requestDecryptionKeyV3`, `batchRequestDecryptionKeyV3`, `warmupVetKDPublicKeyV3` | `GateV3` |
| approval cache | `approvedHolders` | `isApprovedHolder`, `recordApproval`, `evictExpiredApprovals` | `ApprovalCache`, promise in `LiveRows` |
| v4 gate | the same maps, `cachedVetKDPublicKeyV4` | `requestDecryptionKeyV4`, `warmupVetKDPublicKeyV4` | `GateV4` |
| market cap | `marketCapCache`, `tokenDecimalsCache`, `bondConfig` | `getMarketCap`, `getMarketCapInternal` and its five probes, `setBondConfig`, `evictExpiredMarketCaps` | `MarketCapCache`, `GateV4`, promise in `LiveRows` |
| v1 gate | `usedNonces` (two scopes), `cachedVetKDPublicKey` | `requestDecryptionKey`, `batchRequestDecryptionKey`, `warmupVetKDPublicKey` | `GateV1` |
| attestations | `usedNonces` (two scopes), `cachedAttestPublicKey`, `SCHNORR_KEY_NAME` | `attestHolding`, `batchAttestHolding`, `warmupAttestationPublicKey` | `GateV1` |
| Merkle tree | local to a call | sort, `nextPowerOfTwo`, `buildMerkleHeap`, `merkleProofForLeaf` | `MerkleTree` |
| eviction script | counters of a run | `scripts/evict-approvals.sh` | `EvictApprovals` |
| queries, health | none | read one variable or answer a constant | not modelled |
| EIP-712 | none | typed data, domain, type and struct hashes, nonce scopes | `SignedRequests`, over a free hash; the encoding of numbers in `TypedData` |
| keccak, hex, ABI | none | byte layout | abstracted, see 3.8 |
| `packages/secp256k1` | none | public key recovery | planned |
| TypeScript and Python SDKs | none | derivation preimages, builders and parsers of metadata, sealing, the reader's flow | `SealedContent` |
| TypeScript SDK, the client | `actorCache` | typed data to sign, `requestDecryptionKey`, `batchRequestDecryptionKey`, `decryptGatedFile`, `recoverVetKey` | `SignedRequests` |

How they interact. The three gates and the attestations are methods of one
actor: they share `usedNonces`, v3 and v4 share `approvedHolders`, and all of
them await the EVM RPC canister and the VetKD or Schnorr interface of the
management canister. v4 gates and `getMarketCap` fill and read one cap cache.
The operator rotates the key names with an upgrade, re-points the Bond table
with `setBondConfig` while refreshes are in flight, and runs the janitors, by
hand or through the script. Nothing is retried by the canister itself; a client
that has lost an answer may call again with what its wallet has signed.

What is hard, and the properties for it, is the list of hazards in
`PROJECT.json`, each at its line. In short:

* *interleaving*: two calls with one message; overlapping refreshes;
  `setBondConfig`, a janitor or an upgrade between a question and its answer;
  overlapping runs of the script;
* *stale state*: approvals, cap snapshots, memos of keys;
* *partial failure*: any of the awaits may be answered with an error or be
  rejected; a batch derives key after key; a CLI call may fail after the
  canister has served it;
* *numeric edges*: the TTLs, the epochs, the rounding of a cap, the indices of
  the heap, an empty padding, a batch as large as the backlog; numbers of any size
  that are signed modulo 2^256;
* *upgrades*: which variables survive them, and which are read again;
* *agreement*: the SDKs, the wallet and the canister compute the same identity and
  the same digest from the same fields, by different code;
* *lost answers*: a message that was signed once is sent again, to this canister
  or another, or arrives when its session has given up.

## 2. The modules

    CanisterMaps ── ApprovalCache ──┬── GateV3 ─── GateV3Proofs
                                    ├── GateV4 (with MarketCapCache) ── GateV4Proofs
                                    └── EvictApprovals ── EvictProofs
    TypedData  (extended by GateV1, GateV3 and GateV4)
    LiveRows   (instantiated by GateV3 and GateV4)
    GateV1 ── GateV1Proofs
    MerkleTree ── MerkleProofs
    SealedContent ── SealedProofs
    SignedRequests ── SignedProofs

Each component has an `MC...` module with the requests of a small instance, and
its `.cfg` files are named for the component and the question.

The modules meet at named seams. The gates take a signature as a record of its
signer and the struct it is over, with the numbers in it as `TypedData` encodes
them, and give out keys for the identity of their request. `SignedRequests` is what stands behind the first (that struct is the one
the client built), `SealedContent` what stands behind the second (that identity is
the one the content was sealed to). Each of the two has the gate itself as one
step, which the gates have message by message.

### 2.1 CanisterMaps, ApprovalCache, MarketCapCache

A map of the canister is a function into rows or a "no row" value. `Sweeps` is
what a janitor may delete: all of the expired rows, or exactly `maxBatch` of
them, in the order of the map's internal layout, which is left open. The caches
are operators on such maps, used by several modules. `RecordApproval`,
`DropIfStale`, `ExpiredApprovals` and the same three of the cap cache keep the
comparisons of the code, which differ: an approval is stale *at* its TTL
(1680), a snapshot only *after* it (1738). `LiveRows` is instantiated with
`TTL` for the one and `TTL + 1` for the other.

`TypedData` is what the gates share of EIP-712: `encodeUint256` keeps a number
modulo `Width` (2^256), because `natToFixedHex` writes 64 digits of it (597-608).
The struct of a request has its nonce, epoch and target in that form; the replay
check and everything else take them as they came. The canister's
signature check is then a comparison of structs, so a signature over the nonce `n`
is good for `n + Width`, which has another place in `usedNonces`.

### 2.2 LiveRows: what a cache promises

The abstract specification has no map, no lazy deletion and no janitor: a row is
alive from its recording until exactly TTL later, and only recording it again
changes that. Both gates are shown to implement it, with the rows that the
lookup would accept at this moment as the refinement mapping. That covers what
could go wrong between the lookup and the janitor (they read the clock in
messages of their own and must agree on the same second), a refresh that fails,
and rows a bounded janitor leaves behind.

### 2.3 GateV3

One action per message. A call is a slot with a program counter and the values
its method keeps across awaits:

| action | code |
|---|---|
| `RequestDecryptionKeyV3`, `BatchRequestDecryptionKeyV3` | the method up to its first await or its answer: step 0 (epoch), format, nonce, signature, approval lookup; the order of the refusals is the code's |
| `EthCall`, `CheckBalanceReturns` | the chain is read; the continuation records the approval or refuses |
| `DeriveKeyReturns`, `PublicKeyReturns` | the continuation of `deriveKey` (memo hit or a further await) and of `fetchPublicKey` |
| `WarmupVetKDPublicKeyV3`, `WarmupReturns` | the warm-up, which overwrites the memo without looking |
| `EvictExpiredApprovals` | the janitor, which is one message |
| `Upgrade` | maps and memos stay, `vetkdKeyName` is read from the environment again |
| `Tick` | the clock |

The nonce is consumed in the message of the last synchronous check, before the
first await: that is why a failing balance read still costs the nonce, and why
two calls cannot both pass. The chain is read (`EthCall`) and the answer arrives
in two steps, so a balance can be old when it is recorded; the row is stamped
with the time of the continuation, as in the code.

### 2.4 GateV4

The same shape with the second gate. `MarketCapGate` is step D: pin the oracle,
look the snapshot up, otherwise start a refresh. The refresh is five probes, one
message each: `TokenBondReturns`, `TokenDecimalsReturns`,
`ReserveDecimalsReturns`, `TotalSupplyReturns`, `PriceForNextMintReturns`; the
Bond table is read once, by `RefreshStarts`, and its entry travels with the call
(1952-1955). After a refresh of the gate, `RefreshReturns` looks the cache up
again (2407), which may by then hold another call's row or none. `GetMarketCap`
is the same refresh for a caller who only wants to see the cap, in whole reserve
units, rounded down. Decimals appear as the unit `10^d`. `SetBondConfig` changes
the table at any moment.

### 2.5 GateV1

The two v1 gates and the two attestation endpoints. A request names its
endpoint, its CIDs and what was signed; the four nonce scopes share one map and
`NonceKey` is the pair of scope and nonce. The batch gate derives one key per
CID, with an await for each; `KeysAsAsked` is about that loop. The attestation
is built before `sign_with_schnorr` is awaited and handed out after it.

### 2.6 MerkleTree

What `batchAttestHolding` computes between its awaits, a turn of a loop at a
time, with indices from 0 and the hash functions as parameters. In the instance
they are free constructors (a hash is the tuple of what was hashed), so two
hashes are equal only if their preimages are. The order of equal hashes in the
sort is left open; the duplicate CID is in the instance.

### 2.7 EvictApprovals

The script against the janitor. A CLI call may fail before or after the canister
has served it, runs may overlap, and gates record and drop rows meanwhile. Each
run has its own options, `dryRun` and `batch`.

### 2.8 SealedContent

The SDKs against the canister, for one content. `PublishWithPython` and
`PublishWithTypeScript` derive the identity of a gate, seal under a key fetched
or derived earlier, and build the metadata record if the builder does not raise.
`ReadRecord` is `decryptGatedFile` up to its call: parse, derive again, ask; the
bytes of a file come with it, those of the content or others. `NameGate` is a
caller who names another gate than the record's, which the canister cannot tell.
`KeyReturns` is the canister's answer with its memo, the check of
`recoverVetKey`, the unsealing of the content key and the decryption of the
bytes, which fails for the bytes of another file (`Decrypt`). The record holds the
sealed key as a text, `encryptedAesKey`, of one of four kinds (`KeyTexts`): the key
in standard Base64; a text of the same alphabet that is something else, hex for one;
a form with other characters; none. Python asks for standard Base64 in v3 and v4,
TypeScript for any text, and what decodes to the sealed key is a third thing
(`Decodes`, where Node and browsers differ). Each program has its
own preimage, builder and parser for each protocol version, as in the code: that
they agree is what is checked. The gates themselves are one comparison each here
(`Grants`); the other modules have them in detail.

The transport key and the signature of the request are left to 2.9: with them
`decryptGatedFile` fails, see 3.10, so `ReadRecord` is the reader's flow with the
key that was signed. The TypeScript package has one function for the whole flow,
for v1; readers of v3 and v4 are taken to make the same calls in the same order.

### 2.9 SignedRequests

A session of a client program, from its transport key to the key it recovers, and
the canisters it calls. All four endpoints that hand out keys are in it.

| action | code |
|---|---|
| `Build` | `createTransportKeyPair`, and `buildGateRequestTypedData` or one of its siblings with its checks (`eip712.ts`, `v3.ts`, `v4.ts`) |
| `Sign` | external: the wallet encodes the typed data by the types it comes with; `parseSignatureHex` reads what it returns |
| `requestDecryptionKey`, `batchRequestDecryptionKey` | `canister.ts`: `getOrCreateActor`, the Candid record, the call |
| `CallOwnActor` | external: the SDK builds the typed data of v3 and v4 but has no call for them |
| `decryptGatedFile` | `decrypt.ts`: a new agent, a new transport key, the call with the signature of its options |
| `RefuseEarly`, `RefuseInput`, `RefuseSpent`, `RefuseSignature`, `RefuseBalance`, `Grant` | the gates' methods, in the order of their refusals, and which of them cost the nonce |
| `Receive` | `HavenAolError`, or `recoverVetKey` for each key of the answer |
| `GiveUp` | the agent stops waiting; the message, or its answer, may still be on its way |

The digest exists twice. `WalletDigest` is EIP-712 of the message the SDK built:
the type and the order of the fields come from `types`, and bytes are hashed by
the wallet. `eip712Digest` is the canister's: a type hash that is a constant, and
fields that are packed by hand from the Candid request, addresses lowercased and
numbers modulo `Width`. A hash is the tuple of what is hashed, so the two are equal
only if all of that is. That the five hexadecimal type hashes of `main.mo` it stands
for (234-257) are the keccak of the type strings the SDK's typed data give was
computed outside of TLA+, once.

`RefuseBalance` stands for each way to fail behind the signature. The derived
keys carry the identity they are for and the transport key they are encrypted
under; `recoverVetKey` compares both with what the session holds.

## 3. What the runs check

All but `sealed_content` do not check for deadlock, because the models may really
stop: a request whose nonce is spent is refused for good and the clock has a
bound, the script's runs exit, the tree is finished, a session has what it wanted.

### 3.1 `gatev3_safety`

Two slots, thirteen requests: one message at both endpoints, for two
thresholds and with a nonce past 2^256, two wallets, two epochs, two spellings of the token, the free tier,
and each way to be refused.

* `NonceSpentOnce`: a nonce opens the gate at most once, whichever endpoints it is
  sent to and however the calls interleave; and so does a signature on requests
  whose nonces are uint256. The run has a request with the signature of another and
  its nonce plus `Width`, and admits both, as the code does (3.10).
* `RowsProven`: each approval row stands on a reading of the chain that was
  sufficient for exactly its wallet, token and threshold, no later than the
  row's stamp.
* `KeysOnlyForHolders`: behind each key that left is a signature for that epoch
  and transport key, a sufficient reading, an approval that was alive when the
  call passed, and an epoch that had begun.

### 3.2 `gatev3_time`

Rows that expire apart, two key names, two slots.

* `MemoFollowsRotation`: whenever the memo of the verification key changes it
  takes the running version's key name, and a warm-up that succeeds leaves that
  name behind. So the mismatch a rotation leaves behind (an encrypted key of the
  new name with a verification key of the old one) ends with one warm-up. No late
  answer brings it back, because the runtime refuses an upgrade while callbacks
  are outstanding, which is the guard of `Upgrade`.
* `ApprovalsKeepPromise`: the map, the lazy deletion and the janitor implement
  `LiveRows`.
* `EveryCallAnswered`.

### 3.3 `gatev4_safety`, `gatev4_prices`

* `NonceSpentOnce`, as for v3, in the scope of v4.
* `ChunkKeysEarned`: a chunk key needs a signature of its epoch and, if it is a
  uint256, its target; a live approval, and a snapshot of that token that reached the signed target and
  was within its TTL when the call passed.
* `SnapshotsPriced`: each row is the whole computation of one refresh: supply
  and price of that token, both read on one Bond contract that the operator
  configured, whose reserve for the token is the wrapped native, scaled by the
  right decimals. `gatev4_prices` re-points the table between the probes, to a Bond
  whose reserve has other decimals, so what is mixed of two Bonds is priced wrongly.
* `NotReachedIsBelow`: a reader who is told `MarketCapNotReached` is told a cap
  below the target. The comparison scales up and the report rounds down, so this
  is a fact about the rounding.
* `SnapshotsKeepPromise`: the cap cache implements `LiveRows`. A refresh that
  fails does not prolong a row.
* `EveryCallAnswered`, through up to eight awaits.

### 3.4 `gatev1`

Thirteen requests to the two gates and the two attestation endpoints. The
constraint `OneKind` keeps a behaviour to the gates or to the attestations: they
share the map of nonces but none of its scopes, and no other variable that one
writes and the other reads.

* `NonceSpentOnce`: a nonce is answered at most once by each of the four endpoints,
  a signature on requests whose nonces are uint256 at most once by all of them; and
  no endpoint takes a message that was signed for another.
* `AskedForEachRequest`: behind each result is a reading made for that request
  between its arrival and its answer, as 1646-1647 say of the v1 callers.
* `KeysAsAsked`: one key per CID, in order, each derived for its own CID and for
  what the wallet signed.
* `AttestationsTrue`: what is handed out is what was signed, its balance was the
  chain's between the arrival and the timestamp, its CIDs are those of the
  signature.
* `EveryCallAnswered`.

### 3.5 `merkle_tree`, `evict_approvals`

* `WalkFollowsTree`: folding the path so far gives the node the walk is at.
* `ReadsComputedNodes`: no index traps, none reads a node that is not computed.
* `RootOfSortedTree`: the root is that of a reference definition, `Rows`: the
  padded tree over the ascending hashes, row by row from its width (the least
  power of two with room for all) up to the root. So it does not depend on the
  order of submission.
* `ProofsVerify`: the path at each place folds the hash submitted there to the
  root, and has the tree's height.
* `Terminates`.
* `SteadyStateDrained`: a run that exits with 0 left no expired row behind at its
  last call (with a batch of 0 the canister has not looked, see 3.10).
  `WorkBounded`: no run deletes more than its iterations times its
  batch, and a dry run deletes nothing. `TotalsHonest`: the total reported is
  what was deleted for that run. `RunsEnd`.

### 3.6 `sealed_content`

* `RecordsReadable`: both SDKs accept the records either of them builds, of
  natural numbers that survive JSON, with two exceptions: TypeScript refuses an empty
  `encryptedAesKey` (`metadata.ts` 38), which Python's builder of v1 emits for a key
  of no bytes, and Python refuses one of v3 or v4 that is not standard Base64
  (`v3.py` 314-318, `v4.py` 324-328), which TypeScript's builders emit. The rule that ties threshold 0 to epoch 0 is
  written eight times, in builders and parsers.
* `GrantedOpens`: a reader who asks for what the record says, and is granted the
  key, opens the content if the record has the key in standard Base64 and the bytes
  it fetched are the content's, although the canister collapses the epoch and the SDKs do not, and although tokens are
  compared in lower case and hashed as spelled.
  The key name must be the same at the sealing, in the memo and in the running
  version: after a rotation the content of before does not open.
* `OpensOnlyEarned`: whatever gate is named, in whatever version, spelling or
  epoch, content opens only for a caller who has shown the balance, the cap and
  the epoch its publisher asked for.

### 3.7 `signed_requests`

Two sessions, fourteen plans: each endpoint, two spellings of the account and the
contract, another account selected in the wallet, another canister behind the same
agent, and what a wallet, a builder or the canister refuses. All plans carry one
nonce, so sessions meet in the scopes too.

* `BuiltIsAccepted`: what a builder made, signed by the account it names and sent
  with its fields, is never refused for its signature, at any endpoint.
* `SignedOnce`: a signed message gets behind the signature once per canister,
  however often it is sent and whatever became of it; and only with the epoch, the
  target, the CIDs and the transport key that were signed. Sessions send the nonce
  they signed; who sends the message with that nonce plus 2^256 is outside of this
  module, and is in those of the gates.
* `EarlyKeepsNonce`: a request is refused for a spent nonce only if some request
  had reached the nonce before. One that came before its epoch, or was refused for
  its form, can be sent again as it was signed.
* `KeysForTheSession`: keys that arrive are from the canister that was named, one
  for each CID in order, and open with the secret the session holds, whatever else
  its agent has called and whichever answers were late. The errors v1 can answer
  are in the SDK's Candid types, which lack the later ones.

All are safety properties of `Spec`.

### 3.8 Bounds and abstractions

Bounds, and why they are enough:

* two calls in flight: what a call does depends on the others only through the
  shared maps, and each race above is between two messages; a third call adds
  nothing but a third party to the same race;
* clock to 2 or 3 with TTL and epoch of 1 to 3 ticks: rows expire while a call
  is in flight, rows expire apart, an epoch ends with a row alive; `MaxTime` is
  only in the guard of `Tick`;
* three nonces, so that a message can be repeated and another be fresh, and of
  which two have one encoding: `Width` is 4, and all epochs and targets are below it.
  A behaviour spends two of the three (`TwoNonces`, `MaxSpent`): with two calls in
  flight, a pair is what can collide; one domain; one or two wallets; two spellings of one token where spelling matters;
* two supplies and two prices around the targets 1 and 2, units 100 for the token,
  10 and 1 for the reserves of the two Bonds, so that a cap falls between rungs,
  rounding matters, and the unit of the other Bond's reserve is a wrong one; price 0
  is the error;
* the batch of the janitor is 0 or 1 in front of the gates and 0 or 2 in front of
  the script, over two and three rows: smaller than, equal to and larger than the
  backlog;
* Merkle: batches of 1 to 5 hashes of which some coincide, so one without an
  inner node, powers of two, and padded ones; every order of submission;
* script: two overlapping runs, two passes, batches of 0 and 2, three rows;
* SDKs: thresholds and epochs of -1, 0 and 1, targets of 0, 1 and 5 with
  `SafeMax` 3, so that 5 is read as 4; two spellings, two CIDs, two key names, the
  four kinds of text for the sealed key. One content: contents meet only in a digest, and `NameGate` covers the digests;
* signed requests: two calls of a session, so that one can be late when the other
  is answered; one epoch to come (`MaxEpoch` 1); `Width` 4, with a nonce of 4 for
  what no longer fits; two CIDs in a batch that takes two. Two canisters behind one
  agent are what the actor cache can confuse.

Symmetry is used for the slots of calls and for sessions, which the code does not
tell apart, and only in runs without temporal properties.

Abstractions:

* keccak is free of collisions and `ecrecover` right. In the gates a signature is
  a record of its signer and the struct it is over, the numbers in it modulo
  `Width`; `SignedRequests` has the hashes inside, without their bytes;
* the text of a sealed key is its kind; what the kinds are is above (2.8);
* the format checks of a request are one Boolean, `wellFormed`;
* an answer of the chain is any balance in `Balances` (supply, price likewise),
  a failure, or a rejection. Balances change arbitrarily between two readings;
* a token is a model value and `LowerHex` its canonical spelling. The cache keys
  are lowercased by the code, derivation inputs are not (997-1021), and the
  modules keep that difference;
* seconds are ticks; nanoseconds are not modelled;
* a janitor is one message, which rows a bounded one takes is left open;
* history variables (`readings`, `grants`, `prices`, `responses`, `acc`,
  `removed`, `left`) record what properties speak of; no guard reads them;
* definitions under the comment "Broken on purpose" are never used by a
  specification: each is what a plausible bug would make of the definition after
  it, kept to show that a property notices it.

### 3.9 Fairness

Safety properties use `Spec`, without fairness. Liveness uses `FairSpec`: weak
fairness of the continuation of each call (`Continue(c)`). The IC delivers a
reply or a rejection to every inter-canister call, and the code puts an await in
a `try` or lets the rejection end the call; fairness says nothing of *which*
answer comes. Nothing is assumed of clients, of the operator, or of the clock.
For the script: the CLI comes back, with an answer or without. For the tree:
the computation goes on. `SealedContent` and `SignedRequests` assume none: a
session may wait for ever, a message may never be run.

### 3.10 Where the code and its documentation differ

Three runs end in a counterexample. Two check one sentence of a comment that
the code does not keep, and the last is about a function that cannot work.

* `gatev3_rotation` / `RowsRotateWithEpoch`. 1640-1642: "an entry written at
  epoch N can never serve a request at epoch N+1"; README: "Cache entries
  auto-expire when their epoch rotates or the TTL elapses". The key holds the
  epoch the *request* names, and requests for past epochs are legal, so a row
  outlives the epoch of its recording by up to its TTL.
* `gatev4_upgrade` / `UpgradeForgetsOverrides`. 298-299, 374-375 and the README
  say that Bond overrides are heap-only and must be set again after each
  upgrade. In a `persistent actor` the table survives, as 439-440 say of the cap
  cache.
* `decrypt_gated_file` / `DecryptGatedFileWorks`. `decrypt.ts` calls
  `decryptGatedFile` the "End-to-end orchestrated decryption flow". It makes its
  transport key itself (line 38) and sends it with the signature of its options,
  but the transport key is part of what is signed (`eip712.ts`, 41-50; 786-793),
  and the options have no field for one. No caller can have signed the key before
  it exists: each call is answered `InvalidSignature`, and costs its nonce.

More observations have no run:

* 2299-2300 and the README say that a wrong `oracleAddress` "fails closed before
  touching the chain". Step C asks the chain for the balance (2371) before step D
  compares the oracle (2393);
* `v3.ts` (157-159) says that clients that disagree with the canister by an epoch
  or more are rejected. Only those ahead of it are (2050): requests for past epochs
  are served;
* a nonce is spent before the signature over it is checked (1458), and its scope
  has no wallet in it (802-839). Two honest wallets that pick one number under one
  domain collide, and the second must sign again; so must one whose wallet writes
  v as 0 or 1, which `parseSignatureHex` lets through and 1475 refuses;
* the digest has no canister in it, other than through the contract address the
  client chooses: a signed message is good once at each canister;
* the scope takes the nonce as the number it is (1454, 2075, 2337), the digest takes
  it modulo 2^256 (597-608, 773). A signature over the nonce `n` is therefore good for
  `n + 2^256` and so on, each with a place of its own in `usedNonces`: the replay check
  is one of nonces, and one of signatures only as long as nonces are uint256. Nothing
  in the canister asks for that, and whoever has a request can send it so. No
  sentence of the repository says that a signature is good for one use, so there is
  no run for it; `NonceSpentOnce` says exactly what is left;
* Candid's `Nat` for epoch and target is signed in the same way. An epoch
  cannot use it, as one of 2^256 has not begun; a target can, but the cap would have
  to reach the larger number;
* a v1 record with an empty `encryptedAesKey` is built by Python for a key of no bytes
  (`core.py`, 139-174), accepted by its parser, and refused by TypeScript's
  (`metadata.ts`, 38);
* a cap row is stamped when its refresh ends, two awaits after the supply was
  read (1753). The TTL counts from the stamp, so the data can be older than the
  "five minutes" of 270-271 by as long as two calls take;
* the key of the cap cache has no Bond in it (1719) and `setBondConfig` leaves
  the rows alone, so after a chain is pointed at a new Bond the old Bond's cap
  unlocks chunks until its TTL. A refresh that began before the change records
  the old Bond's cap after it;
* `HAVEN_AOL_BATCH=0` passes the script's check (line 100); the canister answers
  0 to it without looking and the script reports a steady state. Runs with that
  batch are checked for all but `SteadyStateDrained`;
* the TypeScript v3 builder says that it "Performs the same uploader-side validation
  the Python SDK does" (`v3.ts`, 245-246), and the v4 builder has the "Same
  uploader-side validation contract" (`v4.ts`, 243-244). Both take any text for
  `encryptedAesKey` that is not empty (272, 263), where Python's builders ask for
  standard Base64 (`v3.py` 207, `v4.py` 218) and its parsers refuse a record without
  it. `TSBuildsV3`, `TSBuildsV4` and Python's counterparts have the difference, and
  `RecordsReadable` the exception it makes;
* a negative `bigint` passes the TypeScript v3 builder as well (`v3.ts`, 170 and 181).
  No parser accepts the record; `Natural` keeps these gates out of `RecordsReadable`,
  and `MCGates` has them;
* Python writes epochs and targets beyond `Number.MAX_SAFE_INTEGER`, TypeScript
  refuses to write them, and reads another number in their place. Such content
  is published and opens for no TypeScript reader;
* the v1 builders and parsers take a threshold of 0, which the canister answers
  with `InvalidThreshold` (1443): content sealed for it opens for nobody.

## 4. What is proved

Every invariant of the runs that pass, and their four safety properties of steps
and behaviours (`ApprovalsKeepPromise`, `MemoFollowsRotation`,
`SnapshotsKeepPromise`, `GrantedOpens`), for every value of the constants. Each
`...Proofs` module is about the module of its name and is laid out alike: what is
typed, with what each place of a call says of the values it keeps; an inductive
invariant; one lemma for each action, or group of actions that move alike; the
theorems. Each invariant was checked by TLC on the instance of a run before it was
proved.

The assumptions are the named `ASSUME`s of the modules, and TLC evaluates them in
each run. They say that constants have their types and that the "no" values stand
outside of the sets they stand beside; what they say beyond that is named below.
One theorem has hypotheses of its own, `ReadsSafety` (4.4).

### 4.1 GateV3 (`GateV3Proofs`)

For any sets of wallets, tokens, requests, calls, balances and key names, any TTL,
epoch length and bound on the clock below `Width`. `CacheConstants` takes an approval's TTL to be
at least one tick, `GateConstants` an epoch likewise.

* `TypeSafety`: `TypeOK`. `TypeInv` adds what each place of a call says about
  the values it keeps: a call that waits in `derive` has a request and a basis,
  and so on. Without it a grant built from a call's fields could not be typed.
* `NonceSafety`: `NonceSpentOnce`. `NonceAlways` is its part about nonces: the
  nonce of every call in flight and of every grant is in `usedNonces`, and the
  message that takes a call up tests and inserts, so its nonce is in nobody else's
  hands. The part about signatures follows from it: each of those requests was
  signed (`HolderInv`), and of two uint256 with one encoding each is the other
  (`SameSignature`).
* `RowsSafety`, `HolderSafety`: `RowsProven` and `KeysOnlyForHolders`, from one
  invariant, `HolderInv`: rows are backed by readings; each call on its way holds
  a request that was admitted, has seen only what the chain has said, and has a
  basis that is backed; grants are backed. Lemmas say that what is backed stays
  backed when readings are added, and that epochs do not go back.
* `PromiseKept`: `GateV3` implements `LiveRows`. Each step maps to recording a
  row, to time passing, or to a stutter: lookups and janitors only remove rows
  that the refinement mapping already shows as gone.
* `RotationFollowed`: `MemoFollowsRotation`. The property is of steps, and holds of
  them because of `AskedInv`: a verification key that is being asked for is the
  running version's, as the upgrade that would change the name waits for the
  calls.

### 4.2 GateV4 and the market-cap cache (`GateV4Proofs`)

For any number of calls and refreshes. `GateConstants` asks that all spellings of
a token are of one chain, that units and epochs are positive, and that the table
of Bonds holds what the operator may configure. `CapConstants` keeps `NoSnapshot`
apart from numbers, so that a row cannot be taken for the time it was fetched.

* `TypeSafety`, `NonceSafety`: as for v3. That a signed epoch is the epoch of the
  request, although it is encoded, is from `Signed`: it has begun, and the clock
  stays below `Width`. `CallShape` also types what a refresh has
  read after each of its five probes.
* `PriceSafety`: `SnapshotsPriced`. It speaks of rows that are written.
  `PriceInv` adds the same of what makes them: the units cached for good are the
  chain's, the Bond table holds only the operator's entries, and what a refresh has
  read so far is what the chain has on the entry it took along (`WorkTrue`).
  `setBondConfig` between two probes cannot disturb it, as the entry travels with
  the call.
* `KeysEarnedSafety`: `ChunkKeysEarned`, from `EarnInv`: rows of the approval cache
  are held by readings (`RowsHeld`); a call behind the first gate has a backed
  basis, one behind the second a quoted snapshot (`OnItsWay`); grants have both
  (`Earned`). That a snapshot found in the cache was priced comes from `PriceInv`.
* `ReportSafety`: `NotReachedIsBelow`. The arithmetic is `RoundedBelow`: a cap that
  is below `t * u` gives less than `t` when divided by `u`. The rest is that each
  answer of each message is an honest one.
* `SnapshotsLive`: `GateV4` implements `LiveRows` with `CapTTL + 1`. Of all the
  steps only `PriceForNextMintReturns` records a row (`CapsMove`).

### 4.3 GateV1 and the attestations (`GateV1Proofs`)

For any requests to the four endpoints and batches of any length. `GateConstants`
asks that the canonical form of a CID is its own canonical form.

* `TypeSafety`; `NonceSafety`: `NonceSpentOnce` over the four scopes. `NonceInv`
  adds: a call in flight, and a response, is of a request that its wallet signed
  and whose nonce is spent (`Spent`). `SameSignature` takes it from nonces to
  signatures over uint256 nonces; the type in the struct tells the endpoints apart.
* `AskedSafety`, `KeysSafety`, `AttestationSafety`: `AskedForEachRequest`,
  `KeysAsAsked` and `AttestationsTrue`, from one invariant, `AnswerInv`. They speak
  of answers; it adds what a call has behind it on its way there (`OnItsWay`): the
  reading that was made since it arrived; for a gate, that each key it has so far is
  derived for the CID at its place (`KeysFor`), which is the invariant of the loop
  that awaits them; for an attestation, that the payload being signed says what
  was asked and read.

### 4.4 MerkleTree (`MerkleProofs`)

For any hashes, any batch limit, batches of any size and **any** functions
`HashLeaf` and `HashNode`.

* `TreeTyped`, `PathsLeadToRoot`: `TypeOK` and `WalkFollowsTree`.
  `WalkFollowsTree` is not inductive. The invariant `IndInv` adds: there
  are enough leaves, `place` inverts `sorted`, each inner node that is done is
  the hash of its children and the leaves are where they belong, and the walk is
  within the heap. The arithmetic it rests on is `OddNode` and `EvenNode`: which
  child of `(p - 1) / 2` the node `p` is.
* `ReadsSafety`: `ReadsComputedNodes`, under two hypotheses. `HashesFilled`: no
  hash is the empty blob that stands for a node not computed (SHA-256 has 32
  bytes). `MaxCids <= 32`: the walk has room for 64 entries, and the code's limit
  is 20 (2766), which needs 5. `ReadInv` says that a path is no longer
  than the way the index has come down, `PathFits`.
* `RootSafety`: `RootOfSortedTree`. `LimitInv`: the limit is a power of two, and
  no smaller one would do, so it is the reference's `Width`. `SortedInv`: the
  sorted places are an order, and the leaf put at `k` is then the reference's
  `Smallest(k)`, by counting (`SmallestIsNext`). `RowsInv`: the nodes past the loop's
  index are those of the reference's rows.
* `ProofsSafety`: `ProofsVerify`. `FoldInv`: the paths handed out, and the one at
  hand, fold to what the walk says. `HeightInv`: each turn takes the walk one row
  up, so the length of the path and the rows above the node sum up to the height
  (`AboveParent`).

`FoldPath` and `Rows` are recursive functions, and the provers have no induction
over data. What makes them tractable is that the program computes the same thing
step by step: "any function that satisfies the recursion has this value here" is an
invariant of the steps, and that one exists is shown from the path or the heap
itself. `2^k` has no theory in the backends, which is why the reference takes its
widths from `PowerOfTwo`, a definition by division.

### 4.5 EvictApprovals (`EvictProofs`)

For any number of runs, batches, passes and rows. `EvictTypes`, `WorkSafety`
(`WorkBounded`), `TotalsSafety` (`TotalsHonest`) and `DrainedSafety`
(`SteadyStateDrained`) have one invariant, `EvictInv`. Per run, `Work`: what was
deleted for it is what it has counted, but for an answer on its way, and at most
the passes times the batch, with room for one more batch in a pass that is under
way; and `Verdict`: what the exit code says of the totals and of what was left,
and what a count of 0 will make it say. The rows in the map are finitely many, an
invariant too, without which a count of them would mean nothing (`SweepCounts`).

### 4.6 SealedContent (`SealedProofs`)

For any gates, spellings, key names and numbers; requests carry natural numbers,
which is what Candid's `Nat` admits.

* The lemmas are about the preimages: `SDKsAgree`, the two SDKs derive the same;
  `CanisterAgrees`, the canister derives that too for gates that keep the rule of
  threshold 0; `IdentityBinds`, gates of one identity ask for the same of the
  reader; `DecodedIsGate`, what JSON makes of a gate is a gate again.
* `SealedTypes`; `ReadableSafety`: `RecordsReadable`, with the exceptions that each
  SDK's check of the key text makes; `EarnedSafety`:
  `OpensOnlyEarned`, from `SealedInv`: the record is of a gate that a builder let
  through and is sealed to its identity (`Sealed`), and where a reading has opened
  it the caller has shown what it asks for (`Reading`). `GrantedSafety` proves the
  action property `GrantedOpens` from the same invariant.

### 4.7 SignedRequests (`SignedProofs`)

For any plans, sessions, agents and canisters, batches of any length and any number
of calls. `SignedConstants` asks that `LowerHex` leaves addresses alone, and
`PinnedTypes` that the two type hashes written as constants are those of the
type strings (see 2.9).

* `WalletDigests` is the lemma behind `BuiltSafety` (`BuiltIsAccepted`): for each
  of the four endpoints, the wallet's encoding of the typed data the SDK built is
  `Expected`, and the canister's digest of the request the SDK sends is too
  (`DigestIs`); `ExpectedDiffers` says that two plans with one digest are for one
  endpoint, nonce, contract and transport key.
* `OnceSafety` (`SignedOnce`) and `EarlySafety` (`EarlyKeepsNonce`) rest on
  `LedgerInv`: answers follow the rules of the gate (`Ruled`), each spent nonce was
  spent by one of them, and of two answers with one nonce at one canister only one
  is behind the signature.
* `KeysSafety` (`KeysForTheSession`) rests on `BoxInv`, what is in the mail: each
  message says what its session planned and signed, is in one place at a time, and
  the last one of a session is under the transport key that it holds (`Mail`).
* `SignedTypes`. All from one inductive invariant, `SignedInv`.

### 4.8 What is only model-checked

* Liveness: `EveryCallAnswered` of the three gates, `RunsEnd` and `Terminates`. The
  provers have neither fairness nor ENABLED.
* The three runs that end in a counterexample, which there is nothing to prove of.

## 5. What is not modelled

Queries and `health` read one variable and change nothing. Keccak, ABI, hex and
the bytes of EIP-712 are layout. secp256k1 is arithmetic modulo a 256-bit prime,
out of TLC's reach at its width. The vetKeys extension binds a library.

Of the SDKs: `isBondAddress`, `currentEpoch`, `fetchAttestationPublicKey`, the
re-exports of `index.ts`, AES other than that it fails for other bytes, and the
typed data of the Python package, which has the fields of the TypeScript one.
Neither package has a client for the attestation endpoints, so there is none to
model.

Cycles, subnets, the consensus of RPC providers and the size of messages are left
out: what remains of a provider disagreement is an error of the call.

## 6. Plan

Done: all of the modules of section 2, with their runs and their proofs. Next, in
this order:

1. A composition of the v3 and the v4 gate over one approval cache: an approval
   earned at one gate opens the other, and nothing else does.
2. `ReadsSafety` for any limit up to what 64 entries of a path hold, with the
   height of the tree in the place of the list of widths.
3. The point arithmetic of `packages/secp256k1` on a small curve.
