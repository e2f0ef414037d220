---------------------------- MODULE SignedRequests ----------------------------
(***************************************************************************)
(* A signed request from the client to the canister and back.  A session   *)
(* of a client program makes a transport key, lets the TypeScript SDK      *)
(* build typed data over it, has a wallet sign, and calls the canister;    *)
(* the canister builds the digest once more, from the fields of the        *)
(* Candid request, and admits the request only if the signature over it is *)
(* by the account the request names.  Replies get lost, sessions give up   *)
(* and call again with the message they have signed.                       *)
(*                                                                         *)
(* keccak256 does not collide: a hash is the tuple of what is hashed, a    *)
(* type hash the name and the fields of its type.  What the gates look at  *)
(* after the signature is the subject of GateV1, GateV3 and GateV4; here   *)
(* it lets a request pass or not.  The chain id goes with the verifying    *)
(* contract, and chain, token and threshold are one gate.  How the three   *)
(* programs derive the identity of a gate, and that the canister drops the *)
(* epoch of a free one, is the subject of SealedContent; here they derive  *)
(* alike.                                                                  *)
(***************************************************************************)
EXTENDS Integers, Sequences

CONSTANTS
  Sessions,     \* runs of a client program
  Plans,        \* what a session may set out to ask for
  Canisters, Agents,
  Addresses,    \* lowercased addresses
  Spellings,    \* well-formed addresses, as clients spell them
  LowerHex(_),  \* lowercases a spelling
  BadGates,     \* gates whose token address is malformed
  Width,        \* 2^256
  MaxCids,      \* the hard limit of a batch
  MaxCalls,     \* bound on the calls of a session
  MaxEpoch,     \* bound on the canister's epoch
  NoPlan, NoSignature

Endpoints == {"gate", "batch_gate", "gate_v3", "gate_v4"}
Flows == Endpoints \cup {"decryptGatedFile"}

(* What the builders of requests ask for; decryptGatedFile takes the same  *)
(* as options.  The batch has several CIDs, epoch and target are 0 where   *)
(* the protocol has none.                                                  *)
IsPlan(p) ==
  /\ p.flow \in Flows
  /\ p.canister \in Canisters /\ p.agent \in Agents /\ p.account \in Addresses
  /\ p.nonce \in Int /\ p.epoch \in Int /\ p.target \in Int
  /\ p.cids \in Seq({p.cids[i] : i \in DOMAIN p.cids})
  /\ p.flow # "batch_gate" => Len(p.cids) = 1

ASSUME SignedConstants ==
  /\ \A p \in Plans : IsPlan(p)
  /\ Addresses \subseteq Spellings
  /\ \A a \in Spellings : LowerHex(a) \in Addresses
  /\ \A a \in Addresses : LowerHex(a) = a
  /\ Width \in Nat \ {0}
  /\ MaxCids \in Nat /\ MaxCalls \in Nat /\ MaxEpoch \in Nat

VARIABLES
  epoch,       \* the canister's current epoch
  usedNonces,  \* the nonce keys each canister has spent
  actorCache,  \* the actors of each agent, by canister id
  phase,       \* how far each session is
  plan,        \* what each session asks for
  keyPairs,    \* how many transport keys each session has made
  signature,   \* what the wallet gave each session
  calls,       \* how often each session has called
  inbox,       \* messages on their way to a canister
  answers      \* every answer a canister has given

client   == <<phase, plan, keyPairs, signature, calls, actorCache>>
canister == <<epoch, usedNonces>>
vars == <<client, canister, inbox, answers>>

-----------------------------------------------------------------------------
(* Typed data, as buildGateRequestTypedData and its siblings return it:    *)
(* the message, and under types the order its fields are encoded in.       *)

Endpoint(p) == IF p.flow = "decryptGatedFile" THEN "gate" ELSE p.flow

Keccak(x) == <<"keccak256", x>>

computeDerivationInput(p, cid) == <<"accessol", p.gate, cid>>

Inputs(p) == [i \in DOMAIN p.cids |-> computeDerivationInput(p, p.cids[i])]

TypedData(primaryType, p, fields, message) ==
  [domain      |-> [name |-> "HavenAOL", verifyingContract |-> p.contract],
   primaryType |-> primaryType,
   types       |-> fields,
   message     |-> message]

buildGateRequestTypedData(p, key) ==
  TypedData("GateRequest", p,
    <<<<"evmAddress", "address">>, <<"transportPublicKey", "bytes">>,
      <<"nonce", "uint256">>>>,
    [evmAddress |-> p.evmAddress, transportPublicKey |-> key, nonce |-> p.nonce])

(* Broken on purpose: puts the key into the batch, and not its hash. *)
BatchOverKey(p, key) ==
  TypedData("BatchGateRequest", p,
    <<<<"evmAddress", "address">>, <<"transportPublicKey", "bytes">>,
      <<"cidsCommitment", "bytes32">>, <<"nonce", "uint256">>>>,
    [evmAddress |-> p.evmAddress, transportPublicKey |-> key,
     cidsCommitment |-> Keccak(Inputs(p)), nonce |-> p.nonce])

(* The hashes are the caller's to compute. *)
buildBatchGateRequestTypedData(p, key) ==
  TypedData("BatchGateRequest", p,
    <<<<"evmAddress", "address">>, <<"transportKeyHash", "bytes32">>,
      <<"cidsCommitment", "bytes32">>, <<"nonce", "uint256">>>>,
    [evmAddress |-> p.evmAddress, transportKeyHash |-> Keccak(key),
     cidsCommitment |-> Keccak(Inputs(p)), nonce |-> p.nonce])

buildGateRequestV3TypedData(p, key) ==
  TypedData("GateRequestV3", p,
    <<<<"evmAddress", "address">>, <<"transportPublicKey", "bytes">>,
      <<"epoch", "uint256">>, <<"nonce", "uint256">>>>,
    [evmAddress |-> p.evmAddress, transportPublicKey |-> key,
     epoch |-> p.epoch, nonce |-> p.nonce])

buildGateRequestV4TypedData(p, key) ==
  TypedData("GateRequestV4", p,
    <<<<"evmAddress", "address">>, <<"transportPublicKey", "bytes">>,
      <<"epoch", "uint256">>, <<"marketCapTarget", "uint256">>,
      <<"nonce", "uint256">>>>,
    [evmAddress |-> p.evmAddress, transportPublicKey |-> key,
     epoch |-> p.epoch, marketCapTarget |-> p.target, nonce |-> p.nonce])

(* The interfaces of the messages. *)
GateRequestMessage == {"evmAddress", "transportPublicKey", "nonce"}
BatchGateRequestMessage ==
  {"evmAddress", "transportKeyHash", "cidsCommitment", "nonce"}
GateRequestV3Message == {"evmAddress", "transportPublicKey", "epoch", "nonce"}
GateRequestV4Message ==
  {"evmAddress", "transportPublicKey", "epoch", "marketCapTarget", "nonce"}

MessageOf(p) ==
  CASE Endpoint(p) = "gate"       -> GateRequestMessage
    [] Endpoint(p) = "batch_gate" -> BatchGateRequestMessage
    [] Endpoint(p) = "gate_v3"    -> GateRequestV3Message
    [] Endpoint(p) = "gate_v4"    -> GateRequestV4Message

Built(p, key) ==
  CASE Endpoint(p) = "gate"       -> buildGateRequestTypedData(p, key)
    [] Endpoint(p) = "batch_gate" -> buildBatchGateRequestTypedData(p, key)
    [] Endpoint(p) = "gate_v3"    -> buildGateRequestV3TypedData(p, key)
    [] Endpoint(p) = "gate_v4"    -> buildGateRequestV4TypedData(p, key)

(* The arguments the builders do not throw on: those of v1 take anything,  *)
(* normalizeEpoch of v3 takes a bigint of either sign.                     *)
normalizeEpoch(n) == n \in Int
normalizeNat(n) == n \in Nat

BuildsV3(p) ==
  /\ p.evmAddress \in Spellings /\ p.contract \in Spellings
  /\ normalizeEpoch(p.epoch) /\ p.nonce >= 0

BuildsV4(p) ==
  /\ p.evmAddress \in Spellings /\ p.contract \in Spellings
  /\ normalizeNat(p.epoch) /\ normalizeNat(p.target) /\ normalizeNat(p.nonce)

Builds(p) ==
  /\ p.flow = "gate_v3" => BuildsV3(p)
  /\ p.flow = "gate_v4" => BuildsV4(p)

-----------------------------------------------------------------------------
(* The wallet: EIP-712 of the typed data, and the forms signatures come in.*)

Encodes(type, v) ==
  CASE type = "address" -> v \in Spellings
    [] type = "uint256" -> v \in 0 .. Width - 1
    [] OTHER            -> TRUE

Encoded(type, v) ==
  CASE type = "address" -> LowerHex(v)
    [] type = "bytes"   -> Keccak(v)
    [] OTHER            -> v

WalletSigns(t) ==
  /\ t.domain.verifyingContract \in Spellings
  /\ \A i \in DOMAIN t.types : Encodes(t.types[i][2], t.message[t.types[i][1]])

WalletDigest(t) ==
  <<<<t.domain.name, LowerHex(t.domain.verifyingContract)>>,
    <<t.primaryType, t.types>>,
    [i \in DOMAIN t.types |-> Encoded(t.types[i][2], t.message[t.types[i][1]])]>>

(* r, s and v with v in {27, 28} or in {0, 1}, or 64 bytes with v folded   *)
(* into s.                                                                 *)
Forms == {"v27", "v0", "compact"}

(* parseSignatureHex takes 65 bytes, whatever v is. *)
parseSignatureHex(form) == form # "compact"

-----------------------------------------------------------------------------
(* The canister's side of it.                                              *)

encodeUint256(n) == n % Width

GATE_REQUEST_TYPE ==
  <<"GateRequest",
    <<<<"evmAddress", "address">>, <<"transportPublicKey", "bytes">>,
      <<"nonce", "uint256">>>>>>
BATCH_GATE_REQUEST_TYPE ==
  <<"BatchGateRequest",
    <<<<"evmAddress", "address">>, <<"transportKeyHash", "bytes32">>,
      <<"cidsCommitment", "bytes32">>, <<"nonce", "uint256">>>>>>
GATE_REQUEST_V3_TYPE ==
  <<"GateRequestV3",
    <<<<"evmAddress", "address">>, <<"transportPublicKey", "bytes">>,
      <<"epoch", "uint256">>, <<"nonce", "uint256">>>>>>
GATE_REQUEST_V4_TYPE ==
  <<"GateRequestV4",
    <<<<"evmAddress", "address">>, <<"transportPublicKey", "bytes">>,
      <<"epoch", "uint256">>, <<"marketCapTarget", "uint256">>,
      <<"nonce", "uint256">>>>>>

(* The SDK pins the types of v3 and v4 once more, and does not load when    *)
(* they have drifted from the canister's.                                  *)
EIP712_GATE_REQUEST_V3_TYPEHASH ==
  <<"GateRequestV3",
    <<<<"evmAddress", "address">>, <<"transportPublicKey", "bytes">>,
      <<"epoch", "uint256">>, <<"nonce", "uint256">>>>>>
EIP712_GATE_REQUEST_V4_TYPEHASH ==
  <<"GateRequestV4",
    <<<<"evmAddress", "address">>, <<"transportPublicKey", "bytes">>,
      <<"epoch", "uint256">>, <<"marketCapTarget", "uint256">>,
      <<"nonce", "uint256">>>>>>

ASSUME PinnedTypes ==
  /\ EIP712_GATE_REQUEST_V3_TYPEHASH = GATE_REQUEST_V3_TYPE
  /\ EIP712_GATE_REQUEST_V4_TYPEHASH = GATE_REQUEST_V4_TYPE

eip712DomainSeparator(q) == <<"HavenAOL", LowerHex(q.contract)>>

eip712GateStructHash(q) ==
  <<GATE_REQUEST_TYPE,
    <<LowerHex(q.evmAddress), Keccak(q.transport), encodeUint256(q.nonce)>>>>

eip712BatchGateStructHash(q) ==
  <<BATCH_GATE_REQUEST_TYPE,
    <<LowerHex(q.evmAddress), Keccak(q.transport), Keccak(Inputs(q)),
      encodeUint256(q.nonce)>>>>

eip712GateStructHashV3(q) ==
  <<GATE_REQUEST_V3_TYPE,
    <<LowerHex(q.evmAddress), Keccak(q.transport), encodeUint256(q.epoch),
      encodeUint256(q.nonce)>>>>

(* Broken on purpose: packs the target before the epoch. *)
SwappedStructHashV4(q) ==
  <<GATE_REQUEST_V4_TYPE,
    <<LowerHex(q.evmAddress), Keccak(q.transport), encodeUint256(q.target),
      encodeUint256(q.epoch), encodeUint256(q.nonce)>>>>

eip712GateStructHashV4(q) ==
  <<GATE_REQUEST_V4_TYPE,
    <<LowerHex(q.evmAddress), Keccak(q.transport), encodeUint256(q.epoch),
      encodeUint256(q.target), encodeUint256(q.nonce)>>>>

StructHash(q) ==
  CASE q.endpoint = "gate"       -> eip712GateStructHash(q)
    [] q.endpoint = "batch_gate" -> eip712BatchGateStructHash(q)
    [] q.endpoint = "gate_v3"    -> eip712GateStructHashV3(q)
    [] q.endpoint = "gate_v4"    -> eip712GateStructHashV4(q)

eip712Digest(q) == <<eip712DomainSeparator(q)>> \o StructHash(q)

(* One scope for each domain and type, and no wallet in it. *)
NonceKey(q) == <<eip712DomainSeparator(q), q.endpoint, q.nonce>>

Early(q) == q.endpoint \in {"gate_v3", "gate_v4"} /\ q.epoch > epoch

(* What the signature bound has been checked by then: a message that came  *)
(* through the wallet has well-formed addresses, a transport key and 65    *)
(* bytes of signature.                                                     *)
TooMany(q) == q.endpoint = "batch_gate" /\ Len(q.cids) \notin 1 .. MaxCids
ValidInput(q) == q.gate \notin BadGates /\ ~ TooMany(q)

SignatureMatches(q) ==
  /\ q.signature.form = "v27"
  /\ q.signature.over = eip712Digest(q)
  /\ q.signature.signer = LowerHex(q.evmAddress)

(* The keys of an answer: one for each CID, encrypted under the transport  *)
(* key of the request.                                                     *)
EncryptedKey(c, q, input) == [of |-> c, input |-> input, transport |-> q.transport]

KeyInput(q, cid) ==
  CASE q.endpoint \in {"gate", "batch_gate"} -> computeDerivationInput(q, cid)
    [] q.endpoint = "gate_v3" -> <<"accessol_v3", q.gate, q.epoch>>
    [] q.endpoint = "gate_v4" -> <<"accessol_v4", q.gate, q.epoch, q.target>>

DerivedKeys(c, q) ==
  [i \in DOMAIN q.cids |->
     [cid |-> q.cids[i], key |-> EncryptedKey(c, q, KeyInput(q, q.cids[i]))]]

-----------------------------------------------------------------------------
(* The errors the SDK has in the Candid type of an answer, and those of    *)
(* the canister.                                                           *)
GateErrorVariant ==
  {"InsufficientBalance", "InvalidAddress", "InvalidThreshold", "EvmRpcError",
   "VetKDError", "InvalidSignature", "NonceAlreadyUsed"}
GateErrors == GateErrorVariant \cup {"InvalidEpoch", "MarketCapNotReached"}

Phases ==
  {"idle", "built", "signed", "calling", "recovered", "unverified", "failed"}

Messages == [from : Sessions, call : 1 .. MaxCalls, to : Canisters]

(* Every variable has its type, what is built has its interface. *)
TypeOK ==
  /\ epoch \in 0 .. MaxEpoch
  /\ \A c \in Canisters : \A k \in usedNonces[c] : k[2] \in Endpoints
  /\ \A a \in Agents : actorCache[a] \in [DOMAIN actorCache[a] -> Canisters]
  /\ phase \in [Sessions -> Phases]
  /\ plan \in [Sessions -> Plans \cup {NoPlan}]
  /\ \A s \in Sessions : plan[s] # NoPlan =>
       DOMAIN Built(plan[s], <<s, 1>>).message = MessageOf(plan[s])
  /\ keyPairs \in [Sessions -> 0 .. MaxCalls + 1]
  /\ calls \in [Sessions -> 0 .. MaxCalls]
  /\ \A m \in inbox \cup answers : [from |-> m.from, call |-> m.call, to |-> m.to] \in Messages
  /\ \A a \in answers : a.outcome \in GateErrors \cup {"ok"}

Init ==
  /\ epoch = 0
  /\ usedNonces = [c \in Canisters |-> {}]
  /\ actorCache = [a \in Agents |-> [i \in {} |-> i]]
  /\ phase = [s \in Sessions |-> "idle"]
  /\ plan = [s \in Sessions |-> NoPlan]
  /\ keyPairs = [s \in Sessions |-> 0]
  /\ signature = [s \in Sessions |-> NoSignature]
  /\ calls = [s \in Sessions |-> 0]
  /\ inbox = {}
  /\ answers = {}

Goto(s, p) == phase' = [phase EXCEPT ![s] = p]

(* createTransportKeyPair: the latest key of the session. *)
TransportKey(s, n) == <<s, n>>
HeldKey(s) == TransportKey(s, keyPairs[s])
createTransportKeyPair(s) == keyPairs' = [keyPairs EXCEPT ![s] = @ + 1]

(* The session makes its transport key and has the SDK build typed data,   *)
(* which it keeps for the wallet: it is Built(plan[s], <<s, 1>>).          *)
SignedData(s) == Built(plan[s], TransportKey(s, 1))

Build(s, p) ==
  /\ phase[s] = "idle"
  /\ plan' = [plan EXCEPT ![s] = p]
  /\ createTransportKeyPair(s)
  /\ Goto(s, IF Builds(p) THEN "built" ELSE "failed")
  /\ UNCHANGED <<signature, calls, actorCache, canister, inbox, answers>>

(* The account that is selected in the wallet need not be the one the      *)
(* request names.                                                          *)
Sign(s, form) ==
  /\ phase[s] = "built"
  /\ \/ /\ WalletSigns(SignedData(s))
        /\ signature' = [signature EXCEPT ![s] =
             [signer |-> plan[s].account, over |-> WalletDigest(SignedData(s)),
              form |-> form]]
        /\ Goto(s, IF parseSignatureHex(form) THEN "signed" ELSE "failed")
     \/ /\ ~ WalletSigns(SignedData(s))
        /\ Goto(s, "failed")
        /\ UNCHANGED signature
  /\ UNCHANGED <<plan, keyPairs, calls, actorCache, canister, inbox, answers>>

(* The Candid requests: the fields of the plan, under a transport key, with *)
(* the signature.                                                          *)
Request(s, key, cids) ==
  [endpoint |-> Endpoint(plan[s]), gate |-> plan[s].gate, cids |-> cids,
   evmAddress |-> plan[s].evmAddress, transport |-> key, nonce |-> plan[s].nonce,
   contract |-> plan[s].contract, signature |-> signature[s]]

(* A record with one field more. *)
With(q, field, value) ==
  [f \in DOMAIN q \cup {field} |-> IF f = field THEN value ELSE q[f]]

GateRequest(s, key)      == Request(s, key, <<plan[s].cids[1]>>)
BatchGateRequest(s, key) == Request(s, key, plan[s].cids)
GateRequestV3(s, key)    == With(GateRequest(s, key), "epoch", plan[s].epoch)
GateRequestV4(s, key)    == With(GateRequestV3(s, key), "target", plan[s].target)

(* Broken on purpose: one actor for each agent. *)
ActorOfAgent(agent, id) ==
  IF DOMAIN actorCache[agent] # {}
  THEN actorCache[agent][CHOOSE i \in DOMAIN actorCache[agent] : TRUE]
  ELSE id

(* getOrCreateActor: an agent keeps an actor for each canister id.         *)
Actor(agent, id) ==
  IF id \in DOMAIN actorCache[agent] THEN actorCache[agent][id] ELSE id

getOrCreateActor(agent, id) ==
  actorCache' = [actorCache EXCEPT ![agent] =
    [i \in DOMAIN @ \cup {id} |-> IF i = id THEN Actor(agent, id) ELSE @[i]]]

Send(s, to, q) ==
  /\ calls[s] < MaxCalls
  /\ calls' = [calls EXCEPT ![s] = @ + 1]
  /\ inbox' = inbox \cup
       {[from |-> s, call |-> calls'[s], to |-> to, req |-> q]}
  /\ Goto(s, "calling")
  /\ UNCHANGED <<plan, signature, canister, answers>>

(* A session that failed may call again with the message it has signed.    *)
MayCall(s) ==
  /\ phase[s] \in {"signed", "failed"}
  /\ signature[s] # NoSignature /\ parseSignatureHex(signature[s].form)

requestDecryptionKey(s) ==
  /\ MayCall(s) /\ plan[s].flow = "gate"
  /\ getOrCreateActor(plan[s].agent, plan[s].canister)
  /\ Send(s, Actor(plan[s].agent, plan[s].canister), GateRequest(s, HeldKey(s)))
  /\ UNCHANGED keyPairs

batchRequestDecryptionKey(s) ==
  /\ MayCall(s) /\ plan[s].flow = "batch_gate"
  /\ getOrCreateActor(plan[s].agent, plan[s].canister)
  /\ Send(s, Actor(plan[s].agent, plan[s].canister), BatchGateRequest(s, HeldKey(s)))
  /\ UNCHANGED keyPairs

(* The SDK has no call for v3 and v4: the program has an actor of its own. *)
CallOwnActor(s) ==
  /\ MayCall(s)
  /\ \/ /\ plan[s].flow = "gate_v3"
        /\ Send(s, plan[s].canister, GateRequestV3(s, HeldKey(s)))
     \/ /\ plan[s].flow = "gate_v4"
        /\ Send(s, plan[s].canister, GateRequestV4(s, HeldKey(s)))
  /\ UNCHANGED <<keyPairs, actorCache>>

(* decryptGatedFile takes the signature, makes an agent and a transport    *)
(* key, and calls.  The actor of the new agent is seen by nobody else.     *)
decryptGatedFile(s) ==
  /\ MayCall(s) /\ plan[s].flow = "decryptGatedFile"
  /\ createTransportKeyPair(s)
  /\ Send(s, plan[s].canister, GateRequest(s, TransportKey(s, keyPairs'[s])))
  /\ UNCHANGED actorCache

-----------------------------------------------------------------------------
(* The canister takes the messages in any order, or never.                 *)

Answer(m, outcome, keys) ==
  /\ inbox' = inbox \ {m}
  /\ answers' = answers \cup
       {[from |-> m.from, call |-> m.call, to |-> m.to, req |-> m.req,
         outcome |-> outcome, keys |-> keys]}
  /\ UNCHANGED <<client, epoch>>

Spend(m) ==
  usedNonces' = [usedNonces EXCEPT ![m.to] = @ \cup {NonceKey(m.req)}]

Spent(m) == NonceKey(m.req) \in usedNonces[m.to]

(* Broken on purpose: an early request costs its nonce. *)
SpendEarly(m) ==
  /\ Early(m.req)
  /\ Spend(m)
  /\ Answer(m, "InvalidEpoch", <<>>)

RefuseEarly(m) ==
  /\ Early(m.req)
  /\ Answer(m, "InvalidEpoch", <<>>)
  /\ UNCHANGED usedNonces

RefuseInput(m) ==
  /\ ~ Early(m.req) /\ ~ ValidInput(m.req)
  /\ Answer(m, IF TooMany(m.req) THEN "InvalidThreshold" ELSE "InvalidAddress", <<>>)
  /\ UNCHANGED usedNonces

RefuseSpent(m) ==
  /\ ~ Early(m.req) /\ ValidInput(m.req) /\ Spent(m)
  /\ Answer(m, "NonceAlreadyUsed", <<>>)
  /\ UNCHANGED usedNonces

Fresh(m) == ~ Early(m.req) /\ ValidInput(m.req) /\ ~ Spent(m)

RefuseSignature(m) ==
  /\ Fresh(m) /\ ~ SignatureMatches(m.req)
  /\ Spend(m)
  /\ Answer(m, "InvalidSignature", <<>>)

(* Broken on purpose: gives the nonce back to a wallet without a balance. *)
RefundNonce(m) ==
  /\ Fresh(m) /\ SignatureMatches(m.req)
  /\ Answer(m, "InsufficientBalance", <<>>)
  /\ UNCHANGED usedNonces

(* Stands for every way a request fails behind the signature.              *)
RefuseBalance(m) ==
  /\ Fresh(m) /\ SignatureMatches(m.req)
  /\ Spend(m)
  /\ Answer(m, "InsufficientBalance", <<>>)

Grant(m) ==
  /\ Fresh(m) /\ SignatureMatches(m.req)
  /\ Spend(m)
  /\ Answer(m, "ok", DerivedKeys(m.to, m.req))

Serve(m) ==
  \/ RefuseEarly(m) \/ RefuseInput(m) \/ RefuseSpent(m)
  \/ RefuseSignature(m) \/ RefuseBalance(m) \/ Grant(m)

EpochBegins ==
  /\ epoch < MaxEpoch
  /\ epoch' = epoch + 1
  /\ UNCHANGED <<client, usedNonces, inbox, answers>>

-----------------------------------------------------------------------------
AnswerTo(s) == CHOOSE a \in answers : a.from = s /\ a.call = calls[s]

Answered(s) ==
  phase[s] = "calling" /\ \E a \in answers : a.from = s /\ a.call = calls[s]

(* The identity the session derives from its own plan. *)
Identity(s, cid) ==
  CASE plan[s].flow = "gate_v3" -> <<"accessol_v3", plan[s].gate, plan[s].epoch>>
    [] plan[s].flow = "gate_v4" ->
         <<"accessol_v4", plan[s].gate, plan[s].epoch, plan[s].target>>
    [] OTHER -> computeDerivationInput(plan[s], cid)

(* Decrypted with the secret the session holds, and checked for the        *)
(* identity.  The verification key came with the answer.                   *)
recoverVetKey(s, entry) ==
  /\ entry.key.transport = HeldKey(s)
  /\ entry.key.input = Identity(s, entry.cid)

Receive(s) ==
  /\ Answered(s)
  /\ LET a == AnswerTo(s) IN
     \/ a.outcome # "ok" /\ Goto(s, "failed")   \* HavenAolError
     \/ /\ a.outcome = "ok"
        /\ Goto(s, IF \A i \in DOMAIN a.keys : recoverVetKey(s, a.keys[i])
                   THEN "recovered" ELSE "unverified")
  /\ UNCHANGED <<plan, keyPairs, signature, calls, actorCache, canister, inbox, answers>>

(* The agent stops polling; the message may still be run, the answer to it *)
(* is lost.                                                                *)
GiveUp(s) ==
  /\ phase[s] = "calling"
  /\ Goto(s, "failed")
  /\ UNCHANGED <<plan, keyPairs, signature, calls, actorCache, canister, inbox, answers>>

Next ==
  \/ \E s \in Sessions :
       \/ \E p \in Plans : Build(s, p)
       \/ \E form \in Forms : Sign(s, form)
       \/ requestDecryptionKey(s) \/ batchRequestDecryptionKey(s)
       \/ CallOwnActor(s) \/ decryptGatedFile(s)
       \/ Receive(s) \/ GiveUp(s)
  \/ \E m \in inbox : Serve(m)
  \/ EpochBegins

Spec == Init /\ [][Next]_vars

-----------------------------------------------------------------------------
(* Properties. *)

(* The message as the session built and signed it. *)
AsBuilt(a) ==
  /\ signature[a.from].form = "v27"
  /\ signature[a.from].signer = LowerHex(plan[a.from].evmAddress)
  /\ a.req.transport = TransportKey(a.from, 1)

(* What a builder of the SDK made, signed by the account the request names *)
(* and sent with the fields it was built from, is never refused for its    *)
(* signature, at any endpoint: types, field order, hashes, spelling of     *)
(* addresses and order of CIDs come out of the SDK and the wallet as they  *)
(* come out of the canister (eip712.ts, v3.ts and v4.ts against main.mo    *)
(* 777-940).                                                               *)
BuiltIsAccepted ==
  \A a \in answers : a.outcome = "InvalidSignature" => ~ AsBuilt(a)

Admitted(a) == a.outcome \in {"ok", "InsufficientBalance"}

(* A signed message gets behind the signature at most once per canister,   *)
(* however often it is sent and whatever became of it there, and only as   *)
(* the wallet signed it: epoch, target and transport key, and for a batch  *)
(* the CIDs and the gate, are those of the session's plan.  That is so for *)
(* clients that send the nonce they signed, as the sessions here do: the   *)
(* canister finds the signature good for that nonce + Width as well, and   *)
(* the modules of the gates have requests that bring it.                   *)
SignedOnce ==
  \A a \in answers : Admitted(a) =>
    /\ a.req.signature.over = WalletDigest(SignedData(a.from))
    /\ a.req.signature.signer = LowerHex(a.req.evmAddress)
    /\ a.req.transport = TransportKey(a.from, 1)
    /\ \A b \in answers :
         Admitted(b) /\ b.to = a.to /\ b.req.signature.over = a.req.signature.over
           => a = b

(* Refused for a spent nonce is only what had reached the nonce before:    *)
(* a request that came early, or was refused for its form, leaves its      *)
(* nonce alone and can be sent again as it was signed (main.mo 2038-2050). *)
EarlyKeepsNonce ==
  \A a \in answers : a.outcome = "NonceAlreadyUsed" =>
    \E b \in answers :
      /\ b.to = a.to /\ NonceKey(b.req) = NonceKey(a.req)
      /\ b.outcome \in {"ok", "InsufficientBalance", "InvalidSignature"}

(* A grant that arrives is opened, by the canister the session named, with *)
(* one key for each CID in the order asked, whatever other canisters the   *)
(* program's agent has talked to before (getOrCreateActor, recoverVetKey). *)
(* What v1 answers is in the SDK's Candid types, which lack the later      *)
(* errors.                                                                 *)
KeysForTheSession ==
  /\ \A a \in answers : plan[a.from].flow \notin {"gate_v3", "gate_v4"} =>
       a.outcome \in GateErrorVariant \cup {"ok"}
  /\ \A s \in Sessions :
       /\ phase[s] # "unverified"
       /\ phase[s] = "recovered" =>
            LET a == AnswerTo(s) IN
            /\ a.to = plan[s].canister
            /\ Len(a.keys) = Len(plan[s].cids)
            /\ \A i \in DOMAIN a.keys :
                 /\ a.keys[i].cid = plan[s].cids[i]
                 /\ a.keys[i].key.of = plan[s].canister

(* decryptGatedFile is the "End-to-end orchestrated decryption flow"       *)
(* (decrypt.ts 9): given a signature its request was built for, by the     *)
(* account it names, it is not refused for the signature.                  *)
DecryptGatedFileWorks ==
  \A a \in answers :
    /\ plan[a.from].flow = "decryptGatedFile"
    /\ signature[a.from].form = "v27"
    /\ signature[a.from].signer = LowerHex(plan[a.from].evmAddress)
    => a.outcome # "InvalidSignature"

=============================================================================
