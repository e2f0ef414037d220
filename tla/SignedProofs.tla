----------------------------- MODULE SignedProofs -----------------------------
(***************************************************************************)
(* Proofs about signed requests, for every number of sessions, every plan  *)
(* they may set out with, every spelling of the addresses and every bound  *)
(* on epochs, calls and CIDs.                                              *)
(***************************************************************************)
EXTENDS SignedRequests, SequenceTheorems, TLAPS

-----------------------------------------------------------------------------
(* Digests: what the wallet signs and what the canister computes. *)

(* The struct hash of a plan under a transport key: its type, its fields.  *)
FieldsOf(p, key) ==
  IF Endpoint(p) = "gate"
    THEN <<LowerHex(p.evmAddress), Keccak(key), p.nonce>>
  ELSE IF Endpoint(p) = "batch_gate"
    THEN <<LowerHex(p.evmAddress), Keccak(key), Keccak(Inputs(p)), p.nonce>>
  ELSE IF Endpoint(p) = "gate_v3"
    THEN <<LowerHex(p.evmAddress), Keccak(key), p.epoch, p.nonce>>
  ELSE <<LowerHex(p.evmAddress), Keccak(key), p.epoch, p.target, p.nonce>>

HashType(e) ==
  IF e = "gate" THEN GATE_REQUEST_TYPE
  ELSE IF e = "batch_gate" THEN BATCH_GATE_REQUEST_TYPE
  ELSE IF e = "gate_v3" THEN GATE_REQUEST_V3_TYPE
  ELSE GATE_REQUEST_V4_TYPE

(* The wallet's digest, written out. *)
Expected(p, key) ==
  <<<<"HavenAOL", LowerHex(p.contract)>>, HashType(Endpoint(p)), FieldsOf(p, key)>>

(* The numbers that go into a digest, in the range a wallet encodes. *)
InRange(p) ==
  /\ p.nonce \in 0 .. Width - 1
  /\ Endpoint(p) \in {"gate_v3", "gate_v4"} => p.epoch \in 0 .. Width - 1
  /\ Endpoint(p) = "gate_v4" => p.target \in 0 .. Width - 1

LEMMA BuiltCases ==
  ASSUME NEW p, NEW key
  PROVE  /\ Endpoint(p) = "gate" => Built(p, key) = buildGateRequestTypedData(p, key)
         /\ Endpoint(p) = "batch_gate" =>
              Built(p, key) = buildBatchGateRequestTypedData(p, key)
         /\ Endpoint(p) = "gate_v3" => Built(p, key) = buildGateRequestV3TypedData(p, key)
         /\ Endpoint(p) = "gate_v4" => Built(p, key) = buildGateRequestV4TypedData(p, key)
BY Zenon DEF Built

LEMMA HashCases ==
  ASSUME NEW q
  PROVE  /\ q.endpoint = "gate" => StructHash(q) = eip712GateStructHash(q)
         /\ q.endpoint = "batch_gate" => StructHash(q) = eip712BatchGateStructHash(q)
         /\ q.endpoint = "gate_v3" => StructHash(q) = eip712GateStructHashV3(q)
         /\ q.endpoint = "gate_v4" => StructHash(q) = eip712GateStructHashV4(q)
BY Zenon DEF StructHash

LEMMA EncodedCases ==
  ASSUME NEW v
  PROVE  /\ Encoded("address", v) = LowerHex(v)
         /\ Encoded("bytes", v) = Keccak(v)
         /\ Encoded("bytes32", v) = v
         /\ Encoded("uint256", v) = v
BY Zenon DEF Encoded

LEMMA EncodesCases ==
  ASSUME NEW v
  PROVE  /\ Encodes("address", v) <=> v \in Spellings
         /\ Encodes("uint256", v) <=> v \in 0 .. Width - 1
BY Zenon DEF Encodes

LEMMA WalletGate ==
  ASSUME NEW p, NEW key, Endpoint(p) = "gate"
  PROVE  /\ WalletDigest(Built(p, key)) = Expected(p, key)
         /\ WalletSigns(Built(p, key)) => InRange(p)
<1> DEFINE t == buildGateRequestTypedData(p, key)
           types == <<<<"evmAddress", "address">>, <<"transportPublicKey", "bytes">>,
                      <<"nonce", "uint256">>>>
           msg == [evmAddress |-> p.evmAddress, transportPublicKey |-> key,
                   nonce |-> p.nonce]
<1>1. Built(p, key) = t
  BY BuiltCases
<1>2. /\ t.domain.name = "HavenAOL" /\ t.domain.verifyingContract = p.contract
      /\ t.primaryType = "GateRequest" /\ t.types = types /\ t.message = msg
  BY DEF buildGateRequestTypedData, TypedData
<1>3. DOMAIN types = 1..3
  OBVIOUS
<1>4. /\ types[1][1] = "evmAddress" /\ types[1][2] = "address"
      /\ types[2][1] = "transportPublicKey" /\ types[2][2] = "bytes"
      /\ types[3][1] = "nonce" /\ types[3][2] = "uint256"
      /\ msg["evmAddress"] = p.evmAddress /\ msg["transportPublicKey"] = key
      /\ msg["nonce"] = p.nonce
  OBVIOUS
<1> HIDE DEF t, msg
<1>5. [i \in DOMAIN types |-> Encoded(types[i][2], msg[types[i][1]])]
      = <<LowerHex(p.evmAddress), Keccak(key), p.nonce>>
  BY <1>3, <1>4, EncodedCases
<1>6. WalletSigns(t) => p.nonce \in 0 .. Width - 1
  BY <1>2, <1>3, <1>4, EncodesCases DEF WalletSigns
<1>7. WalletDigest(t) = <<<<"HavenAOL", LowerHex(p.contract)>>, GATE_REQUEST_TYPE,
                          <<LowerHex(p.evmAddress), Keccak(key), p.nonce>>>>
  BY <1>2, <1>5 DEF WalletDigest, GATE_REQUEST_TYPE
<1> QED
  BY <1>1, <1>6, <1>7 DEF Expected, FieldsOf, HashType, InRange

LEMMA WalletBatch ==
  ASSUME NEW p, NEW key, Endpoint(p) = "batch_gate"
  PROVE  /\ WalletDigest(Built(p, key)) = Expected(p, key)
         /\ WalletSigns(Built(p, key)) => InRange(p)
<1> DEFINE t == buildBatchGateRequestTypedData(p, key)
           types == <<<<"evmAddress", "address">>,
                      <<"transportKeyHash", "bytes32">>,
                      <<"cidsCommitment", "bytes32">>,
                      <<"nonce", "uint256">>>>
           msg == [evmAddress |-> p.evmAddress,
                   transportKeyHash |-> Keccak(key),
                   cidsCommitment |-> Keccak(Inputs(p)),
                   nonce |-> p.nonce]
<1>1. Built(p, key) = t
  BY BuiltCases
<1>2. /\ t.domain.name = "HavenAOL" /\ t.domain.verifyingContract = p.contract
      /\ t.primaryType = "BatchGateRequest" /\ t.types = types /\ t.message = msg
  BY DEF buildBatchGateRequestTypedData, TypedData
<1>3. DOMAIN types = 1..4
  OBVIOUS
<1>4. /\ types[1][1] = "evmAddress" /\ types[1][2] = "address"
      /\ types[2][1] = "transportKeyHash" /\ types[2][2] = "bytes32"
      /\ types[3][1] = "cidsCommitment" /\ types[3][2] = "bytes32"
      /\ types[4][1] = "nonce" /\ types[4][2] = "uint256"
      /\ msg["evmAddress"] = p.evmAddress
      /\ msg["transportKeyHash"] = Keccak(key)
      /\ msg["cidsCommitment"] = Keccak(Inputs(p))
      /\ msg["nonce"] = p.nonce
  OBVIOUS
<1> HIDE DEF t, msg
<1>5. [i \in DOMAIN types |-> Encoded(types[i][2], msg[types[i][1]])]
      = <<LowerHex(p.evmAddress), Keccak(key), Keccak(Inputs(p)), p.nonce>>
  BY <1>3, <1>4, EncodedCases
<1>6. WalletSigns(t) => p.nonce \in 0 .. Width - 1
  BY <1>2, <1>3, <1>4, EncodesCases DEF WalletSigns
<1>7. WalletDigest(t) = <<<<"HavenAOL", LowerHex(p.contract)>>, BATCH_GATE_REQUEST_TYPE,
                          <<LowerHex(p.evmAddress), Keccak(key), Keccak(Inputs(p)), p.nonce>>>>
  BY <1>2, <1>5 DEF WalletDigest, BATCH_GATE_REQUEST_TYPE
<1> QED
  BY <1>1, <1>6, <1>7 DEF Expected, FieldsOf, HashType, InRange

LEMMA WalletV3 ==
  ASSUME NEW p, NEW key, Endpoint(p) = "gate_v3"
  PROVE  /\ WalletDigest(Built(p, key)) = Expected(p, key)
         /\ WalletSigns(Built(p, key)) => InRange(p)
<1> DEFINE t == buildGateRequestV3TypedData(p, key)
           types == <<<<"evmAddress", "address">>,
                      <<"transportPublicKey", "bytes">>,
                      <<"epoch", "uint256">>,
                      <<"nonce", "uint256">>>>
           msg == [evmAddress |-> p.evmAddress,
                   transportPublicKey |-> key,
                   epoch |-> p.epoch,
                   nonce |-> p.nonce]
<1>1. Built(p, key) = t
  BY BuiltCases
<1>2. /\ t.domain.name = "HavenAOL" /\ t.domain.verifyingContract = p.contract
      /\ t.primaryType = "GateRequestV3" /\ t.types = types /\ t.message = msg
  BY DEF buildGateRequestV3TypedData, TypedData
<1>3. DOMAIN types = 1..4
  OBVIOUS
<1>4. /\ types[1][1] = "evmAddress" /\ types[1][2] = "address"
      /\ types[2][1] = "transportPublicKey" /\ types[2][2] = "bytes"
      /\ types[3][1] = "epoch" /\ types[3][2] = "uint256"
      /\ types[4][1] = "nonce" /\ types[4][2] = "uint256"
      /\ msg["evmAddress"] = p.evmAddress
      /\ msg["transportPublicKey"] = key
      /\ msg["epoch"] = p.epoch
      /\ msg["nonce"] = p.nonce
  OBVIOUS
<1> HIDE DEF t, msg
<1>5. [i \in DOMAIN types |-> Encoded(types[i][2], msg[types[i][1]])]
      = <<LowerHex(p.evmAddress), Keccak(key), p.epoch, p.nonce>>
  BY <1>3, <1>4, EncodedCases
<1>6. WalletSigns(t) => p.epoch \in 0 .. Width - 1 /\ p.nonce \in 0 .. Width - 1
  BY <1>2, <1>3, <1>4, EncodesCases DEF WalletSigns
<1>7. WalletDigest(t) = <<<<"HavenAOL", LowerHex(p.contract)>>, GATE_REQUEST_V3_TYPE,
                          <<LowerHex(p.evmAddress), Keccak(key), p.epoch, p.nonce>>>>
  BY <1>2, <1>5 DEF WalletDigest, GATE_REQUEST_V3_TYPE
<1> QED
  BY <1>1, <1>6, <1>7 DEF Expected, FieldsOf, HashType, InRange

LEMMA WalletV4 ==
  ASSUME NEW p, NEW key, Endpoint(p) = "gate_v4"
  PROVE  /\ WalletDigest(Built(p, key)) = Expected(p, key)
         /\ WalletSigns(Built(p, key)) => InRange(p)
<1> DEFINE t == buildGateRequestV4TypedData(p, key)
           types == <<<<"evmAddress", "address">>,
                      <<"transportPublicKey", "bytes">>,
                      <<"epoch", "uint256">>,
                      <<"marketCapTarget", "uint256">>,
                      <<"nonce", "uint256">>>>
           msg == [evmAddress |-> p.evmAddress,
                   transportPublicKey |-> key,
                   epoch |-> p.epoch,
                   marketCapTarget |-> p.target,
                   nonce |-> p.nonce]
<1>1. Built(p, key) = t
  BY BuiltCases
<1>2. /\ t.domain.name = "HavenAOL" /\ t.domain.verifyingContract = p.contract
      /\ t.primaryType = "GateRequestV4" /\ t.types = types /\ t.message = msg
  BY DEF buildGateRequestV4TypedData, TypedData
<1>3. DOMAIN types = 1..5
  OBVIOUS
<1>4. /\ types[1][1] = "evmAddress" /\ types[1][2] = "address"
      /\ types[2][1] = "transportPublicKey" /\ types[2][2] = "bytes"
      /\ types[3][1] = "epoch" /\ types[3][2] = "uint256"
      /\ types[4][1] = "marketCapTarget" /\ types[4][2] = "uint256"
      /\ types[5][1] = "nonce" /\ types[5][2] = "uint256"
      /\ msg["evmAddress"] = p.evmAddress
      /\ msg["transportPublicKey"] = key
      /\ msg["epoch"] = p.epoch
      /\ msg["marketCapTarget"] = p.target
      /\ msg["nonce"] = p.nonce
  OBVIOUS
<1> HIDE DEF t, msg
<1>5. [i \in DOMAIN types |-> Encoded(types[i][2], msg[types[i][1]])]
      = <<LowerHex(p.evmAddress), Keccak(key), p.epoch, p.target, p.nonce>>
  BY <1>3, <1>4, EncodedCases
<1>6. WalletSigns(t) => /\ p.epoch \in 0 .. Width - 1 /\ p.target \in 0 .. Width - 1
                        /\ p.nonce \in 0 .. Width - 1
  BY <1>2, <1>3, <1>4, EncodesCases DEF WalletSigns
<1>7. WalletDigest(t) = <<<<"HavenAOL", LowerHex(p.contract)>>, GATE_REQUEST_V4_TYPE,
                          <<LowerHex(p.evmAddress), Keccak(key), p.epoch, p.target, p.nonce>>>>
  BY <1>2, <1>5 DEF WalletDigest, GATE_REQUEST_V4_TYPE
<1> QED
  BY <1>1, <1>6, <1>7 DEF Expected, FieldsOf, HashType, InRange

LEMMA WalletDigests ==
  ASSUME NEW p, NEW key, Endpoint(p) \in Endpoints
  PROVE  /\ WalletDigest(Built(p, key)) = Expected(p, key)
         /\ WalletSigns(Built(p, key)) => InRange(p)
BY WalletGate, WalletBatch, WalletV3, WalletV4 DEF Endpoints

(* A request of the plan p, whatever transport key it is sent with. *)
Carries(q, p) ==
  /\ q.endpoint = Endpoint(p) /\ q.evmAddress = p.evmAddress
  /\ q.contract = p.contract /\ q.gate = p.gate /\ q.nonce = p.nonce
  /\ q.cids = IF Endpoint(p) = "batch_gate" THEN p.cids ELSE <<p.cids[1]>>
  /\ Endpoint(p) \in {"gate_v3", "gate_v4"} => q.epoch = p.epoch
  /\ Endpoint(p) = "gate_v4" => q.target = p.target

LEMMA Uint256 ==
  ASSUME NEW n \in 0 .. Width - 1
  PROVE  encodeUint256(n) = n
BY SignedConstants DEF encodeUint256

LEMMA HashIs ==
  ASSUME NEW q, NEW p, Endpoint(p) \in Endpoints, Carries(q, p), InRange(p)
  PROVE  StructHash(q) = <<HashType(Endpoint(p)), FieldsOf(p, q.transport)>>
<1>1. CASE Endpoint(p) = "gate"
  BY <1>1, HashCases, Uint256
     DEF eip712GateStructHash, HashType, FieldsOf, Carries, InRange
<1>2. CASE Endpoint(p) = "batch_gate"
  <2>1. Inputs(q) = Inputs(p)
    BY <1>2 DEF Carries, Inputs, computeDerivationInput
  <2> QED
    BY <1>2, <2>1, HashCases, Uint256
       DEF eip712BatchGateStructHash, HashType, FieldsOf, Carries, InRange
<1>3. CASE Endpoint(p) = "gate_v3"
  BY <1>3, HashCases, Uint256
     DEF eip712GateStructHashV3, HashType, FieldsOf, Carries, InRange
<1>4. CASE Endpoint(p) = "gate_v4"
  BY <1>4, HashCases, Uint256
     DEF eip712GateStructHashV4, HashType, FieldsOf, Carries, InRange
<1> QED
  BY <1>1, <1>2, <1>3, <1>4 DEF Endpoints

LEMMA PutInFront ==
  ASSUME NEW d, NEW y, NEW z
  PROVE  <<d>> \o <<y, z>> = <<d, y, z>>
<1> DEFINE S == {d, y, z}
<1>1. <<d>> \in Seq(S) /\ <<y, z>> \in Seq(S) /\ <<d, y, z>> \in Seq(S)
  OBVIOUS
<1>2. /\ <<d>> \o <<y, z>> \in Seq(S) /\ Len(<<d>> \o <<y, z>>) = 3
      /\ \A i \in 1..3 : (<<d>> \o <<y, z>>)[i] = <<d, y, z>>[i]
  BY <1>1, ConcatProperties
<1> QED
  BY <1>1, <1>2, SeqEqual

(* The canister computes, from the request, what the wallet computed from  *)
(* the typed data, with the key the request is sent with.                  *)
LEMMA DigestIs ==
  ASSUME NEW q, NEW p, Endpoint(p) \in Endpoints, Carries(q, p), InRange(p)
  PROVE  eip712Digest(q) = Expected(p, q.transport)
<1> DEFINE d == eip712DomainSeparator(q)
           y == HashType(Endpoint(p))
           z == FieldsOf(p, q.transport)
<1>1. StructHash(q) = <<y, z>> /\ d = <<"HavenAOL", LowerHex(p.contract)>>
  BY HashIs DEF eip712DomainSeparator, Carries
<1>2. Expected(p, q.transport) = <<d, y, z>>
  BY <1>1 DEF Expected
<1>3. eip712Digest(q) = <<d>> \o <<y, z>>
  BY <1>1 DEF eip712Digest
<1> HIDE DEF d, y, z
<1> QED
  BY <1>2, <1>3, PutInFront

(* A digest determines the type, the nonce and the hash of the key.        *)
LEMMA ExpectedDiffers ==
  ASSUME NEW p, NEW key, NEW r, NEW other,
         Endpoint(p) \in Endpoints, Endpoint(r) \in Endpoints,
         Expected(p, key) = Expected(r, other)
  PROVE  /\ Endpoint(p) = Endpoint(r) /\ key = other /\ p.nonce = r.nonce
         /\ LowerHex(p.contract) = LowerHex(r.contract)
<1>1. /\ <<"HavenAOL", LowerHex(p.contract)>> = <<"HavenAOL", LowerHex(r.contract)>>
      /\ HashType(Endpoint(p)) = HashType(Endpoint(r))
      /\ FieldsOf(p, key) = FieldsOf(r, other)
  BY Zenon DEF Expected
<1>2. Endpoint(p) = Endpoint(r)
  <2> DEFINE e == Endpoint(p)
             f == Endpoint(r)
  <2>1. HashType(e) = HashType(f) /\ e \in Endpoints /\ f \in Endpoints
    BY <1>1
  <2> HIDE DEF e, f
  <2>2. HashType(e)[1] = HashType(f)[1]
    BY <2>1
  <2>3. e = f
    BY <2>1, <2>2 DEF HashType, GATE_REQUEST_TYPE, BATCH_GATE_REQUEST_TYPE,
       GATE_REQUEST_V3_TYPE, GATE_REQUEST_V4_TYPE, Endpoints
  <2> QED
    BY <2>3 DEF e, f
<1>3. Keccak(key) = Keccak(other) /\ p.nonce = r.nonce
  BY <1>1, <1>2 DEF FieldsOf, Endpoints
<1>4. key = other
  BY <1>3 DEF Keccak
<1> QED
  BY <1>1, <1>2, <1>3, <1>4

-----------------------------------------------------------------------------
(* The inductive invariant. *)

Typed ==
  /\ epoch \in 0 .. MaxEpoch
  /\ DOMAIN usedNonces = Canisters
  /\ DOMAIN actorCache = Agents
  /\ \A a \in Agents :
       /\ actorCache[a] \in [DOMAIN actorCache[a] -> Canisters]
       /\ \A i \in DOMAIN actorCache[a] : actorCache[a][i] = i
  /\ phase \in [Sessions -> Phases]
  /\ plan \in [Sessions -> Plans \cup {NoPlan}]
  /\ keyPairs \in [Sessions -> Nat]
  /\ DOMAIN signature = Sessions
  /\ calls \in [Sessions -> 0 .. MaxCalls]

(* A session calls only with what its wallet signed for its plan, and      *)
(* makes one transport key, or one more for each call.                     *)
Planned(s) ==
  /\ phase[s] = "idle" => keyPairs[s] = 0
  /\ phase[s] # "idle" =>
       /\ plan[s] \in Plans /\ keyPairs[s] >= 1
       /\ plan[s].flow # "decryptGatedFile" => keyPairs[s] <= 1
  /\ phase[s] \in {"idle", "built"} => signature[s] = NoSignature
  /\ keyPairs[s] <= calls[s] + 1
  /\ calls[s] > 0 => signature[s] # NoSignature
  /\ signature[s] # NoSignature =>
       /\ signature[s].signer = plan[s].account
       /\ signature[s].over = WalletDigest(SignedData(s))
       /\ WalletSigns(SignedData(s))

(* A message on its way, or answered, says what its session planned and    *)
(* signed; the last one is under the key the session holds.                *)
Mail(m) ==
  /\ m.from \in Sessions /\ m.call \in 1 .. calls[m.from]
  /\ m.to = plan[m.from].canister
  /\ Carries(m.req, plan[m.from])
  /\ m.req.signature = signature[m.from]
  /\ plan[m.from].flow # "decryptGatedFile" =>
       m.req.transport = TransportKey(m.from, 1)
  /\ m.call = calls[m.from] => m.req.transport = HeldKey(m.from)

SameCall(m, n) == m.from = n.from /\ m.call = n.call

BoxInv ==
  /\ \A m \in inbox \cup answers : Mail(m)
  /\ \A m, n \in inbox : SameCall(m, n) => m = n
  /\ \A m \in inbox, a \in answers : ~ SameCall(m, a)
  /\ \A a, b \in answers : SameCall(a, b) => a = b

Costly == {"ok", "InsufficientBalance", "InvalidSignature"}

(* What an answer says of the request and of the nonces of its canister.   *)
Ruled(a) ==
  /\ a.outcome \in GateErrorVariant \cup {"InvalidEpoch", "ok"}
  /\ a.outcome = "InvalidEpoch" => a.req.endpoint \in {"gate_v3", "gate_v4"}
  /\ Admitted(a) => SignatureMatches(a.req)
  /\ a.outcome = "InvalidSignature" => ~ SignatureMatches(a.req)
  /\ a.outcome = "ok" => a.keys = DerivedKeys(a.to, a.req)
  /\ a.outcome \in Costly \cup {"NonceAlreadyUsed"} =>
       NonceKey(a.req) \in usedNonces[a.to]

(* A nonce is spent by an answer, and lets one request behind the          *)
(* signature.                                                              *)
LedgerInv ==
  /\ \A a \in answers : Ruled(a)
  /\ \A c \in Canisters : \A k \in usedNonces[c] :
       \E b \in answers :
         b.to = c /\ NonceKey(b.req) = k /\ b.outcome \in Costly
  /\ \A a, b \in answers :
       /\ Admitted(a) /\ Admitted(b) /\ a.to = b.to
       /\ NonceKey(a.req) = NonceKey(b.req)
       => a = b

Opened(s) ==
  /\ phase[s] # "unverified"
  /\ phase[s] = "recovered" =>
       \E a \in answers : a.from = s /\ a.call = calls[s] /\ a.outcome = "ok"

SignedInv ==
  /\ Typed
  /\ \A s \in Sessions : Planned(s) /\ Opened(s)
  /\ BoxInv
  /\ LedgerInv

-----------------------------------------------------------------------------
(* Steps of the canister. *)

LEMMA PlanFields ==
  ASSUME NEW p \in Plans
  PROVE  /\ p.flow \in Flows /\ p.canister \in Canisters /\ p.agent \in Agents
         /\ Endpoint(p) \in Endpoints
         /\ p.cids \in Seq({p.cids[i] : i \in DOMAIN p.cids})
         /\ p.flow # "batch_gate" => Len(p.cids) = 1
         /\ p.flow = "decryptGatedFile" => Endpoint(p) = "gate"
         /\ p.flow # "decryptGatedFile" => Endpoint(p) = p.flow
BY SignedConstants DEF IsPlan, Endpoint, Endpoints, Flows

LEMMA MailFields ==
  ASSUME SignedInv, NEW m \in inbox \cup answers
  PROVE  /\ m.from \in Sessions /\ plan[m.from] \in Plans
         /\ m.to \in Canisters
         /\ phase[m.from] # "idle" /\ phase[m.from] # "built"
         /\ signature[m.from] # NoSignature
         /\ calls[m.from] > 0
<1>1. Mail(m)
  BY DEF SignedInv, BoxInv
<1>2. m.from \in Sessions /\ calls[m.from] > 0
  BY <1>1 DEF Mail, SignedInv, Typed
<1>3. Planned(m.from)
  BY <1>2 DEF SignedInv
<1>4. plan[m.from] \in Plans
  BY <1>2, <1>3 DEF Planned
<1> QED
  BY <1>1, <1>2, <1>3, <1>4, PlanFields DEF Mail, Planned

LEMMA MailKept ==
  ASSUME NEW m, Mail(m), plan'[m.from] = plan[m.from],
         signature'[m.from] = signature[m.from], calls'[m.from] = calls[m.from],
         keyPairs'[m.from] = keyPairs[m.from]
  PROVE  Mail(m)'
BY DEF Mail, HeldKey

LEMMA LedgerSame ==
  ASSUME LedgerInv, UNCHANGED <<answers, usedNonces>>
  PROVE  LedgerInv'
BY DEF LedgerInv, Ruled

(* An answer, with or without its nonce spent. *)
LEMMA AnswerKeeps ==
  ASSUME SignedInv, NEW m \in inbox, NEW outcome, NEW keys, Answer(m, outcome, keys),
         LedgerInv'
  PROVE  DOMAIN usedNonces' = Canisters => SignedInv'
<1> SUFFICES ASSUME DOMAIN usedNonces' = Canisters PROVE SignedInv'
  OBVIOUS
<1> DEFINE a == [from |-> m.from, call |-> m.call, to |-> m.to, req |-> m.req,
                 outcome |-> outcome, keys |-> keys]
<1>1. /\ a.from = m.from /\ a.call = m.call /\ a.to = m.to /\ a.req = m.req
      /\ inbox' = inbox \ {m} /\ answers' = answers \cup {a}
      /\ UNCHANGED <<client, epoch>>
  BY DEF Answer
<1> HIDE DEF a
<1>2. Typed' /\ \A s \in Sessions : Planned(s)'
  BY <1>1 DEF SignedInv, Typed, Planned, client, SignedData
<1>3. \A s \in Sessions : Opened(s)'
  BY <1>1 DEF SignedInv, Opened, client
<1>4. BoxInv'
  <2>1. Mail(a)
    <3>1. Mail(m)
      BY DEF SignedInv, BoxInv
    <3> QED
      BY <1>1, <3>1 DEF Mail
  <2>2. \A n \in inbox' \cup answers' : Mail(n)'
    BY <1>1, <2>1, MailKept DEF SignedInv, BoxInv, client
  <2>3. /\ \A x, y \in inbox' : SameCall(x, y) => x = y
        /\ \A x \in inbox', y \in answers' : ~ SameCall(x, y)
        /\ \A x, y \in answers' : SameCall(x, y) => x = y
    BY <1>1 DEF SignedInv, BoxInv, SameCall
  <2> QED
    BY <2>2, <2>3 DEF BoxInv
<1> QED
  BY <1>2, <1>3, <1>4 DEF SignedInv

(* An answer that leaves the nonces alone. *)
LEMMA RefusalRuled ==
  ASSUME SignedInv, NEW m \in inbox, UNCHANGED usedNonces,
         NEW outcome \in {"InvalidEpoch", "InvalidThreshold", "InvalidAddress",
                          "NonceAlreadyUsed"},
         outcome = "InvalidEpoch" => Early(m.req),
         outcome = "NonceAlreadyUsed" => Spent(m),
         Answer(m, outcome, <<>>)
  PROVE  LedgerInv'
<1> DEFINE a == [from |-> m.from, call |-> m.call, to |-> m.to, req |-> m.req,
                 outcome |-> outcome, keys |-> <<>>]
<1>1. /\ a.to = m.to /\ a.req = m.req /\ a.outcome = outcome
      /\ answers' = answers \cup {a}
  BY DEF Answer
<1> HIDE DEF a
<1>2. Ruled(a)
  BY <1>1 DEF Ruled, Admitted, Costly, GateErrorVariant, Early, Spent
<1>3. \A b \in answers' : Ruled(b)'
  BY <1>1, <1>2 DEF SignedInv, LedgerInv, Ruled
<1>4. ~ Admitted(a) /\ \A c \in Canisters : usedNonces'[c] = usedNonces[c]
  BY <1>1 DEF Admitted
<1> QED
  BY <1>1, <1>3, <1>4 DEF SignedInv, LedgerInv, Admitted

(* An answer that spends the nonce. *)
LEMMA SpendingRuled ==
  ASSUME SignedInv, NEW m \in inbox, Fresh(m), Spend(m),
         NEW outcome \in Costly, NEW keys,
         outcome = "InvalidSignature" <=> ~ SignatureMatches(m.req),
         outcome = "ok" => keys = DerivedKeys(m.to, m.req),
         Answer(m, outcome, keys)
  PROVE  LedgerInv'
<1> DEFINE a == [from |-> m.from, call |-> m.call, to |-> m.to, req |-> m.req,
                 outcome |-> outcome, keys |-> keys]
           k == NonceKey(m.req)
<1>1. /\ a.to = m.to /\ a.req = m.req /\ a.outcome = outcome /\ a.keys = keys
      /\ answers' = answers \cup {a}
  BY DEF Answer
<1> HIDE DEF a
<1>2. m.to \in Canisters
  BY MailFields
<1>3. /\ usedNonces'[m.to] = usedNonces[m.to] \cup {k}
      /\ \A c \in Canisters : c # m.to => usedNonces'[c] = usedNonces[c]
  BY <1>2 DEF Spend, SignedInv, Typed
<1>4. k \notin usedNonces[m.to]
  BY DEF Fresh, Spent
<1> HIDE DEF k
<1>5. NonceKey(a.req) = k
  BY <1>1 DEF k
<1>6. Ruled(a)'
  BY <1>1, <1>3, <1>5 DEF Ruled, Admitted, Costly, GateErrorVariant
<1>7. \A b \in answers : b.to \in Canisters
  BY MailFields
<1>8. \A b \in answers : Ruled(b)'
  BY <1>3, <1>7 DEF SignedInv, LedgerInv, Ruled
<1>9. \A c \in Canisters : \A x \in usedNonces'[c] :
        \E b \in answers' : b.to = c /\ NonceKey(b.req) = x /\ b.outcome \in Costly
  <2> SUFFICES ASSUME NEW c \in Canisters, NEW x \in usedNonces'[c]
               PROVE  \E b \in answers' :
                        b.to = c /\ NonceKey(b.req) = x /\ b.outcome \in Costly
    OBVIOUS
  <2>1. CASE x \in usedNonces[c]
    BY <1>1, <2>1 DEF SignedInv, LedgerInv
  <2>2. CASE c = m.to /\ x = k
    BY <1>1, <1>5, <2>2
  <2> QED
    BY <1>3, <2>1, <2>2
<1>10. \A b \in answers : Admitted(b) /\ b.to = m.to => NonceKey(b.req) # k
  BY <1>4 DEF SignedInv, LedgerInv, Ruled, Admitted, Costly
<1>11. \A x, y \in answers' :
         /\ Admitted(x) /\ Admitted(y) /\ x.to = y.to
         /\ NonceKey(x.req) = NonceKey(y.req)
         => x = y
  BY <1>1, <1>5, <1>10 DEF SignedInv, LedgerInv
<1> QED
  BY <1>1, <1>6, <1>8, <1>9, <1>11 DEF LedgerInv

LEMMA ServeKeeps ==
  ASSUME SignedInv, NEW m \in inbox, Serve(m)
  PROVE  SignedInv'
<1>1. DOMAIN usedNonces' = Canisters
  BY DEF Serve, RefuseEarly, RefuseInput, RefuseSpent, RefuseSignature,
     RefuseBalance, Grant, Spend, SignedInv, Typed
<1>2. \E outcome, keys : Answer(m, outcome, keys)
  BY DEF Serve, RefuseEarly, RefuseInput, RefuseSpent, RefuseSignature,
     RefuseBalance, Grant
<1>3. ASSUME RefuseEarly(m) PROVE LedgerInv'
  BY <1>3, RefusalRuled DEF RefuseEarly
<1>4. ASSUME RefuseInput(m) PROVE LedgerInv'
  <2>1. CASE TooMany(m.req)
    BY <1>4, <2>1, RefusalRuled DEF RefuseInput
  <2>2. CASE ~ TooMany(m.req)
    BY <1>4, <2>2, RefusalRuled DEF RefuseInput
  <2> QED
    BY <2>1, <2>2
<1>5. ASSUME RefuseSpent(m) PROVE LedgerInv'
  BY <1>5, RefusalRuled DEF RefuseSpent
<1>6. ASSUME RefuseSignature(m) PROVE LedgerInv'
  BY <1>6, SpendingRuled DEF RefuseSignature, Costly
<1>7. ASSUME RefuseBalance(m) PROVE LedgerInv'
  BY <1>7, SpendingRuled DEF RefuseBalance, Costly
<1>8. ASSUME Grant(m) PROVE LedgerInv'
  BY <1>8, SpendingRuled DEF Grant, Costly
<1>9. LedgerInv'
  BY <1>3, <1>4, <1>5, <1>6, <1>7, <1>8 DEF Serve
<1> QED
  BY <1>1, <1>2, <1>9, AnswerKeeps

LEMMA EpochKeeps ==
  ASSUME SignedInv, EpochBegins
  PROVE  SignedInv'
<1>1. UNCHANGED <<client, usedNonces, inbox, answers>>
  BY DEF EpochBegins
<1>2. epoch' \in 0 .. MaxEpoch
  BY SignedConstants DEF EpochBegins, SignedInv, Typed
<1>3. Typed' /\ \A s \in Sessions : Planned(s)' /\ Opened(s)'
  BY <1>1, <1>2 DEF SignedInv, Typed, Planned, Opened, client, SignedData
<1>4. BoxInv'
  BY <1>1, MailKept DEF SignedInv, BoxInv, client, SameCall
<1> QED
  BY <1>1, <1>3, <1>4, LedgerSame DEF SignedInv

-----------------------------------------------------------------------------
(* Steps of a session. *)

(* A record with one field more keeps its fields. *)
LEMMA WithField ==
  ASSUME NEW q, NEW field, NEW value
  PROVE  /\ With(q, field, value)[field] = value
         /\ \A f \in DOMAIN q : f # field => With(q, field, value)[f] = q[f]
         /\ DOMAIN With(q, field, value) = DOMAIN q \cup {field}
BY DEF With

RequestFields == {"endpoint", "gate", "cids", "evmAddress", "transport", "nonce",
                  "contract", "signature"}

(* What the SDK and the program send carries the plan and its signature.   *)
Faithful(q, s, key) ==
  Carries(q, plan[s]) /\ q.signature = signature[s] /\ q.transport = key

LEMMA RequestIsFaithful ==
  ASSUME NEW s, NEW key
  PROVE  /\ Endpoint(plan[s]) = "gate" => Faithful(GateRequest(s, key), s, key)
         /\ Endpoint(plan[s]) = "batch_gate" =>
              Faithful(BatchGateRequest(s, key), s, key)
         /\ Endpoint(plan[s]) = "gate_v3" => Faithful(GateRequestV3(s, key), s, key)
         /\ Endpoint(plan[s]) = "gate_v4" => Faithful(GateRequestV4(s, key), s, key)
<1> DEFINE q1 == GateRequest(s, key)
           q3 == GateRequestV3(s, key)
           q4 == GateRequestV4(s, key)
<1>1. /\ DOMAIN q1 = RequestFields
      /\ q1.endpoint = Endpoint(plan[s]) /\ q1.gate = plan[s].gate
      /\ q1.cids = <<plan[s].cids[1]>> /\ q1.evmAddress = plan[s].evmAddress
      /\ q1.transport = key /\ q1.nonce = plan[s].nonce
      /\ q1.contract = plan[s].contract /\ q1.signature = signature[s]
  BY DEF GateRequest, Request, RequestFields
<1>2. q3 = With(q1, "epoch", plan[s].epoch)
  BY DEF GateRequestV3
<1>3. q4 = With(q3, "target", plan[s].target)
  BY DEF GateRequestV4
<1>4. Endpoint(plan[s]) = "batch_gate" => Faithful(BatchGateRequest(s, key), s, key)
  BY DEF BatchGateRequest, Request, Faithful, Carries
<1> HIDE DEF q1, q3, q4
<1>5. /\ q3["epoch"] = plan[s].epoch /\ DOMAIN q3 = RequestFields \cup {"epoch"}
      /\ \A f \in RequestFields : q3[f] = q1[f]
  <2>1. \A f \in RequestFields : f # "epoch"
    BY DEF RequestFields
  <2>2. /\ With(q1, "epoch", plan[s].epoch)["epoch"] = plan[s].epoch
        /\ \A f \in DOMAIN q1 : f # "epoch" =>
             With(q1, "epoch", plan[s].epoch)[f] = q1[f]
        /\ DOMAIN With(q1, "epoch", plan[s].epoch) = DOMAIN q1 \cup {"epoch"}
    BY Zenon, WithField
  <2> QED
    BY Zenon, <1>1, <1>2, <2>1, <2>2
<1>6. /\ q4["target"] = plan[s].target
      /\ \A f \in RequestFields \cup {"epoch"} : q4[f] = q3[f]
  <2>1. \A f \in RequestFields \cup {"epoch"} : f # "target"
    BY DEF RequestFields
  <2>2. /\ With(q3, "target", plan[s].target)["target"] = plan[s].target
        /\ \A f \in DOMAIN q3 : f # "target" =>
             With(q3, "target", plan[s].target)[f] = q3[f]
    BY WithField DEF With
  <2>3. /\ q4["target"] = plan[s].target
        /\ \A f \in DOMAIN q3 : f # "target" => q4[f] = q3[f]
    BY Zenon, <1>3, <2>2
  <2> QED
    BY Zenon, <1>5, <2>1, <2>3
<1>7. Endpoint(plan[s]) = "gate" => Faithful(q1, s, key)
  BY <1>1 DEF Faithful, Carries
<1>8. Endpoint(plan[s]) = "gate_v3" => Faithful(q3, s, key)
  BY <1>1, <1>5 DEF Faithful, Carries, RequestFields
<1>9. Endpoint(plan[s]) = "gate_v4" => Faithful(q4, s, key)
  BY <1>1, <1>5, <1>6 DEF Faithful, Carries, RequestFields
<1> QED
  BY <1>4, <1>7, <1>8, <1>9 DEF q1, q3, q4

(* A session that has never called has no message on its way.              *)
LEMMA NoMailYet ==
  ASSUME SignedInv, NEW s \in Sessions, phase[s] \in {"idle", "built"}
  PROVE  \A m \in inbox \cup answers : m.from # s
BY MailFields

LEMMA BuildKeeps ==
  ASSUME SignedInv, NEW s \in Sessions, NEW p \in Plans, Build(s, p)
  PROVE  SignedInv'
<1>1. /\ phase[s] = "idle" /\ plan' = [plan EXCEPT ![s] = p]
      /\ keyPairs' = [keyPairs EXCEPT ![s] = @ + 1]
      /\ phase' = [phase EXCEPT ![s] = phase'[s]] /\ phase'[s] \in {"built", "failed"}
      /\ UNCHANGED <<signature, calls, actorCache, canister, inbox, answers>>
  BY DEF Build, createTransportKeyPair, Goto, SignedInv, Typed
<1>2. Typed'
  BY <1>1 DEF SignedInv, Typed, canister, Phases
<1>3. \A r \in Sessions : Planned(r)'
  <2> TAKE r \in Sessions
  <2>1. CASE r # s
    BY <1>1, <2>1 DEF SignedInv, Typed, Planned, SignedData
  <2>2. CASE r = s
    <3>1. keyPairs[s] = 0 /\ signature[s] = NoSignature
      BY <1>1 DEF SignedInv, Planned
    <3>2. calls[s] \in Nat /\ ~ calls[s] > 0
      BY <3>1 DEF SignedInv, Planned, Typed
    <3> QED
      BY <1>1, <2>2, <3>1, <3>2 DEF SignedInv, Typed, Planned
  <2> QED
    BY <2>1, <2>2
<1>4. \A r \in Sessions : Opened(r)'
  BY <1>1 DEF SignedInv, Typed, Opened
<1>5. BoxInv'
  <2>1. \A m \in inbox \cup answers : Mail(m)'
    <3> TAKE m \in inbox \cup answers
    <3>1. Mail(m) /\ m.from \in Sessions /\ m.from # s
      BY <1>1, NoMailYet DEF SignedInv, BoxInv, Mail
    <3> QED
      BY <1>1, <3>1, MailKept DEF SignedInv, Typed
  <2> QED
    BY <1>1, <2>1 DEF SignedInv, BoxInv
<1> QED
  BY <1>1, <1>2, <1>3, <1>4, <1>5, LedgerSame DEF SignedInv, canister

LEMMA SignKeeps ==
  ASSUME SignedInv, NEW s \in Sessions, NEW form \in Forms, Sign(s, form)
  PROVE  SignedInv'
<1>1. /\ phase[s] = "built"
      /\ phase' = [phase EXCEPT ![s] = phase'[s]] /\ phase'[s] \in {"signed", "failed"}
      /\ UNCHANGED <<plan, keyPairs, calls, actorCache, canister, inbox, answers>>
      /\ \A r \in Sessions : r # s => signature'[r] = signature[r]
      /\ DOMAIN signature' = Sessions
  BY DEF Sign, Goto, SignedInv, Typed
<1>2. \/ signature'[s] = NoSignature
      \/ /\ signature'[s].signer = plan[s].account
         /\ signature'[s].over = WalletDigest(SignedData(s))
         /\ WalletSigns(SignedData(s))
  <2>1. signature[s] = NoSignature
    BY <1>1 DEF SignedInv, Planned
  <2> QED
    BY <2>1 DEF Sign, SignedInv, Typed
<1>3. Typed'
  BY <1>1 DEF SignedInv, Typed, canister, Phases
<1>4. \A r \in Sessions : Planned(r)'
  <2> TAKE r \in Sessions
  <2>1. CASE r # s
    BY <1>1, <2>1 DEF SignedInv, Typed, Planned, SignedData
  <2>2. CASE r = s
    <3>1. /\ ~ calls[s] > 0 /\ plan[s] \in Plans /\ keyPairs[s] >= 1
          /\ keyPairs[s] <= calls[s] + 1
          /\ plan[s].flow # "decryptGatedFile" => keyPairs[s] <= 1
      BY <1>1 DEF SignedInv, Planned
    <3> QED
      BY <1>1, <1>2, <2>2, <3>1 DEF Planned, SignedData
  <2> QED
    BY <2>1, <2>2
<1>5. \A r \in Sessions : Opened(r)'
  BY <1>1 DEF SignedInv, Typed, Opened
<1>6. BoxInv'
  <2>1. \A m \in inbox \cup answers : Mail(m)'
    <3> TAKE m \in inbox \cup answers
    <3>1. Mail(m) /\ m.from \in Sessions /\ m.from # s
      BY <1>1, NoMailYet DEF SignedInv, BoxInv, Mail
    <3> QED
      BY <1>1, <3>1, MailKept
  <2> QED
    BY <1>1, <2>1 DEF SignedInv, BoxInv
<1> QED
  BY <1>1, <1>3, <1>4, <1>5, <1>6, LedgerSame DEF SignedInv, canister

CacheTyped ==
  /\ DOMAIN actorCache = Agents
  /\ \A a \in Agents :
       /\ actorCache[a] \in [DOMAIN actorCache[a] -> Canisters]
       /\ \A i \in DOMAIN actorCache[a] : actorCache[a][i] = i

(* A call, with a key of its own or without.                               *)
LEMMA SendKeeps ==
  ASSUME SignedInv, NEW s \in Sessions, MayCall(s), NEW q,
         Send(s, plan[s].canister, q),
         Faithful(q, s, TransportKey(s, keyPairs'[s])),
         \/ UNCHANGED keyPairs
         \/ plan[s].flow = "decryptGatedFile" /\ createTransportKeyPair(s),
         CacheTyped'
  PROVE  SignedInv'
<1>0. PICK n : n = [from |-> s, call |-> calls[s] + 1, to |-> plan[s].canister, req |-> q]
  OBVIOUS
<1>1. /\ calls[s] \in Nat /\ calls[s] < MaxCalls /\ calls'[s] = calls[s] + 1
      /\ calls' = [calls EXCEPT ![s] = calls'[s]]
      /\ phase' = [phase EXCEPT ![s] = "calling"]
      /\ UNCHANGED <<plan, signature, canister, answers>>
      /\ n.from = s /\ n.call = calls[s] + 1 /\ n.to = plan[s].canister /\ n.req = q
      /\ inbox' = inbox \cup {n}
  BY <1>0 DEF Send, Goto, SignedInv, Typed
<1>2. /\ keyPairs' \in [Sessions -> Nat]
      /\ \A r \in Sessions : r # s => keyPairs'[r] = keyPairs[r]
      /\ keyPairs'[s] <= keyPairs[s] + 1 /\ keyPairs'[s] >= keyPairs[s]
      /\ plan[s].flow # "decryptGatedFile" => keyPairs'[s] = keyPairs[s]
  BY DEF createTransportKeyPair, SignedInv, Typed
<1>3. /\ plan[s] \in Plans /\ keyPairs[s] >= 1 /\ keyPairs[s] <= calls[s] + 1
      /\ plan[s].flow # "decryptGatedFile" => keyPairs[s] = 1
      /\ signature[s] # NoSignature
      /\ signature[s].signer = plan[s].account
      /\ signature[s].over = WalletDigest(SignedData(s))
      /\ WalletSigns(SignedData(s))
  <2>1. phase[s] \in {"signed", "failed"} /\ signature[s] # NoSignature
    BY DEF MayCall
  <2> QED
    BY <2>1 DEF SignedInv, Planned, Typed
<1>4. Typed'
  <2>1. calls' \in [Sessions -> 0 .. MaxCalls]
    BY <1>1, SignedConstants DEF SignedInv, Typed
  <2>2. phase' \in [Sessions -> Phases]
    BY <1>1 DEF SignedInv, Typed, Phases
  <2> QED
    BY <1>1, <1>2, <2>1, <2>2 DEF SignedInv, Typed, CacheTyped, canister
<1>5. \A r \in Sessions : Planned(r)'
  <2> TAKE r \in Sessions
  <2>1. CASE r # s
    BY <1>1, <1>2, <2>1 DEF SignedInv, Typed, Planned, SignedData
  <2>2. CASE r = s
    <3>1. phase'[s] = "calling" /\ keyPairs[s] \in Nat
      BY <1>1 DEF SignedInv, Typed
    <3>2. keyPairs'[s] \in Nat
      BY <1>2
    <3> QED
      BY <1>1, <1>2, <1>3, <2>2, <3>1, <3>2 DEF Planned, SignedData
  <2> QED
    BY <2>1, <2>2
<1>6. \A r \in Sessions : Opened(r)'
  BY <1>1 DEF SignedInv, Typed, Opened
<1>7. BoxInv'
  <2>1. Mail(n)'
    <3>1. plan[s].flow # "decryptGatedFile" => keyPairs'[s] = 1
      BY <1>2, <1>3
    <3>2. Carries(n.req, plan'[s]) /\ n.req.signature = signature'[s]
          /\ n.req.transport = TransportKey(s, keyPairs'[s])
      BY <1>1 DEF Faithful
    <3>3. n.call \in 1 .. calls'[s]
      BY <1>1
    <3> QED
      BY <1>1, <3>1, <3>2, <3>3 DEF Mail, HeldKey
  <2>2. \A m \in inbox \cup answers : Mail(m)' /\ ~ SameCall(m, n)
    <3> TAKE m \in inbox \cup answers
    <3>1. Mail(m) /\ m.from \in Sessions
      BY DEF SignedInv, BoxInv, Mail
    <3>2. CASE m.from # s
      BY <1>1, <1>2, <3>1, <3>2, MailKept DEF SignedInv, Typed, SameCall
    <3>3. CASE m.from = s
      <4>1. m.call \in 1 .. calls'[s] /\ m.call # calls'[s] /\ m.call # n.call
        BY <1>1, <3>1, <3>3 DEF Mail
      <4> QED
        BY <1>1, <3>1, <3>3, <4>1 DEF Mail, SameCall
    <3> QED
      BY <3>2, <3>3
  <2>3. \A m \in inbox' \cup answers' : Mail(m)'
    BY <1>1, <2>1, <2>2
  <2>4. \A x, y \in inbox' : SameCall(x, y) => x = y
    BY <1>1, <2>2 DEF SignedInv, BoxInv, SameCall
  <2>5. \A x \in inbox', a \in answers' : ~ SameCall(x, a)
    BY <1>1, <2>2 DEF SignedInv, BoxInv, SameCall
  <2> QED
    BY <1>1, <2>3, <2>4, <2>5 DEF SignedInv, BoxInv, SameCall
<1> QED
  BY <1>1, <1>4, <1>5, <1>6, <1>7, LedgerSame DEF SignedInv, canister

(* The actor kept for a canister id calls that canister.                   *)
LEMMA ActorIs ==
  ASSUME SignedInv, NEW s \in Sessions, MayCall(s)
  PROVE  /\ plan[s] \in Plans
         /\ Actor(plan[s].agent, plan[s].canister) = plan[s].canister
         /\ getOrCreateActor(plan[s].agent, plan[s].canister) => CacheTyped'
         /\ UNCHANGED actorCache => CacheTyped'
<1>1. plan[s] \in Plans
  BY DEF MayCall, SignedInv, Planned
<1> DEFINE g == plan[s].agent
           c == plan[s].canister
<1>2. g \in Agents /\ c \in Canisters
  BY <1>1, PlanFields
<1>3. CacheTyped
  BY DEF SignedInv, Typed, CacheTyped
<1> HIDE DEF g, c
<1>4. Actor(g, c) = c
  BY <1>2, <1>3 DEF Actor, CacheTyped
<1>5. ASSUME getOrCreateActor(g, c) PROVE CacheTyped'
  <2>1. /\ DOMAIN actorCache' = Agents
        /\ actorCache'[g] = [i \in DOMAIN actorCache[g] \cup {c} |->
                               IF i = c THEN c ELSE actorCache[g][i]]
        /\ \A a \in Agents : a # g => actorCache'[a] = actorCache[a]
    BY <1>2, <1>3, <1>4, <1>5 DEF getOrCreateActor, CacheTyped
  <2>2. /\ actorCache'[g] \in [DOMAIN actorCache'[g] -> Canisters]
        /\ \A i \in DOMAIN actorCache'[g] : actorCache'[g][i] = i
    BY <1>2, <1>3, <2>1 DEF CacheTyped
  <2> QED
    BY <1>3, <2>1, <2>2 DEF CacheTyped
<1>6. UNCHANGED actorCache => CacheTyped'
  BY <1>3 DEF CacheTyped
<1> QED
  BY <1>1, <1>4, <1>5, <1>6 DEF g, c

LEMMA CallKeeps ==
  ASSUME SignedInv, NEW s \in Sessions,
         \/ requestDecryptionKey(s) \/ batchRequestDecryptionKey(s)
         \/ CallOwnActor(s) \/ decryptGatedFile(s)
  PROVE  SignedInv'
<1>1. MayCall(s)
  BY DEF requestDecryptionKey, batchRequestDecryptionKey, CallOwnActor, decryptGatedFile
<1>2. plan[s] \in Plans
  BY <1>1, ActorIs
<1>3. ASSUME requestDecryptionKey(s) PROVE SignedInv'
  <2>1. Faithful(GateRequest(s, HeldKey(s)), s, TransportKey(s, keyPairs'[s]))
    BY <1>2, <1>3, RequestIsFaithful, PlanFields DEF requestDecryptionKey, HeldKey
  <2>2. CacheTyped' /\ UNCHANGED keyPairs
        /\ Send(s, plan[s].canister, GateRequest(s, HeldKey(s)))
    BY <1>1, <1>3, ActorIs DEF requestDecryptionKey
  <2> QED
    BY <1>1, <2>1, <2>2, SendKeeps
<1>4. ASSUME batchRequestDecryptionKey(s) PROVE SignedInv'
  <2>1. Faithful(BatchGateRequest(s, HeldKey(s)), s, TransportKey(s, keyPairs'[s]))
    BY <1>2, <1>4, RequestIsFaithful, PlanFields DEF batchRequestDecryptionKey, HeldKey
  <2>2. CacheTyped' /\ UNCHANGED keyPairs
        /\ Send(s, plan[s].canister, BatchGateRequest(s, HeldKey(s)))
    BY <1>1, <1>4, ActorIs DEF batchRequestDecryptionKey
  <2> QED
    BY <1>1, <2>1, <2>2, SendKeeps
<1>5. ASSUME CallOwnActor(s) PROVE SignedInv'
  <2>1. CacheTyped' /\ UNCHANGED keyPairs
    BY <1>1, <1>5, ActorIs DEF CallOwnActor
  <2>2. ASSUME plan[s].flow = "gate_v3",
               Send(s, plan[s].canister, GateRequestV3(s, HeldKey(s)))
        PROVE  SignedInv'
    <3>1. Faithful(GateRequestV3(s, HeldKey(s)), s, TransportKey(s, keyPairs'[s]))
      BY <1>2, <2>1, <2>2, RequestIsFaithful, PlanFields DEF HeldKey
    <3> QED
      BY <1>1, <2>1, <2>2, <3>1, SendKeeps
  <2>3. ASSUME plan[s].flow = "gate_v4",
               Send(s, plan[s].canister, GateRequestV4(s, HeldKey(s)))
        PROVE  SignedInv'
    <3>1. Faithful(GateRequestV4(s, HeldKey(s)), s, TransportKey(s, keyPairs'[s]))
      BY <1>2, <2>1, <2>3, RequestIsFaithful, PlanFields DEF HeldKey
    <3> QED
      BY <1>1, <2>1, <2>3, <3>1, SendKeeps
  <2> QED
    BY <1>5, <2>2, <2>3 DEF CallOwnActor
<1>6. ASSUME decryptGatedFile(s) PROVE SignedInv'
  <2>1. CacheTyped' /\ createTransportKeyPair(s) /\ plan[s].flow = "decryptGatedFile"
        /\ Send(s, plan[s].canister, GateRequest(s, TransportKey(s, keyPairs'[s])))
    BY <1>1, <1>6, ActorIs DEF decryptGatedFile
  <2>2. Faithful(GateRequest(s, TransportKey(s, keyPairs'[s])), s,
                 TransportKey(s, keyPairs'[s]))
    BY <1>2, <2>1, RequestIsFaithful, PlanFields
  <2> QED
    BY <1>1, <2>1, <2>2, SendKeeps
<1> QED
  BY <1>3, <1>4, <1>5, <1>6

LEMMA KeyInputCases ==
  ASSUME NEW q, NEW cid
  PROVE  /\ q.endpoint \in {"gate", "batch_gate"} =>
              KeyInput(q, cid) = computeDerivationInput(q, cid)
         /\ q.endpoint = "gate_v3" =>
              KeyInput(q, cid) = <<"accessol_v3", q.gate, q.epoch>>
         /\ q.endpoint = "gate_v4" =>
              KeyInput(q, cid) = <<"accessol_v4", q.gate, q.epoch, q.target>>
<1>1. q.endpoint \in {"gate", "batch_gate"} =>
        KeyInput(q, cid) = computeDerivationInput(q, cid)
  BY Zenon DEF KeyInput
<1>2. q.endpoint = "gate_v3" =>
        KeyInput(q, cid) = <<"accessol_v3", q.gate, q.epoch>>
  <2>1. "gate_v3" \notin {"gate", "batch_gate"}
    OBVIOUS
  <2> QED
    BY Zenon, <2>1 DEF KeyInput
<1>3. q.endpoint = "gate_v4" =>
        KeyInput(q, cid) = <<"accessol_v4", q.gate, q.epoch, q.target>>
  <2>1. "gate_v4" \notin {"gate", "batch_gate"}
    OBVIOUS
  <2> QED
    BY Zenon, <2>1 DEF KeyInput
<1> QED
  BY <1>1, <1>2, <1>3

LEMMA IdentityCases ==
  ASSUME NEW s, NEW cid
  PROVE  /\ plan[s].flow = "gate_v3" =>
              Identity(s, cid) = <<"accessol_v3", plan[s].gate, plan[s].epoch>>
         /\ plan[s].flow = "gate_v4" =>
              Identity(s, cid) =
                <<"accessol_v4", plan[s].gate, plan[s].epoch, plan[s].target>>
         /\ plan[s].flow \notin {"gate_v3", "gate_v4"} =>
              Identity(s, cid) = computeDerivationInput(plan[s], cid)
BY Zenon DEF Identity

(* The canister derives a key for the identity the session derives.        *)
LEMMA SameIdentity ==
  ASSUME NEW s, plan[s] \in Plans, NEW q, Carries(q, plan[s]), NEW cid
  PROVE  KeyInput(q, cid) = Identity(s, cid)
<1>1. /\ plan[s].flow \in Flows /\ q.endpoint = Endpoint(plan[s])
      /\ plan[s].flow = "decryptGatedFile" => Endpoint(plan[s]) = "gate"
      /\ plan[s].flow # "decryptGatedFile" => Endpoint(plan[s]) = plan[s].flow
  BY PlanFields DEF Carries
<1>2. CASE plan[s].flow \in {"gate", "batch_gate", "decryptGatedFile"}
  BY <1>1, <1>2, KeyInputCases, IdentityCases DEF computeDerivationInput, Carries
<1>3. CASE plan[s].flow = "gate_v3"
  BY <1>1, <1>3, KeyInputCases, IdentityCases DEF Carries
<1>4. CASE plan[s].flow = "gate_v4"
  BY <1>1, <1>4, KeyInputCases, IdentityCases DEF Carries
<1> QED
  BY <1>1, <1>2, <1>3, <1>4 DEF Flows, Endpoints

LEMMA DerivedFields ==
  ASSUME NEW c, NEW q
  PROVE  /\ DOMAIN DerivedKeys(c, q) = DOMAIN q.cids
         /\ \A i \in DOMAIN q.cids :
              /\ DerivedKeys(c, q)[i].cid = q.cids[i]
              /\ DerivedKeys(c, q)[i].key.of = c
              /\ DerivedKeys(c, q)[i].key.input = KeyInput(q, q.cids[i])
              /\ DerivedKeys(c, q)[i].key.transport = q.transport
BY DEF DerivedKeys, EncryptedKey

LEMMA AnswerIs ==
  ASSUME NEW s, NEW b \in answers, b.from = s, b.call = calls[s]
  PROVE  AnswerTo(s) \in answers /\ AnswerTo(s).from = s /\ AnswerTo(s).call = calls[s]
BY Zenon DEF AnswerTo

(* Every key of a grant opens: it is for the key the session holds and the *)
(* identity the session derives.                                           *)
LEMMA GrantOpens ==
  ASSUME SignedInv, NEW s \in Sessions, NEW a \in answers,
         a.from = s, a.call = calls[s], a.outcome = "ok"
  PROVE  \A i \in DOMAIN a.keys : recoverVetKey(s, a.keys[i])
<1>1. /\ Mail(a) /\ Ruled(a) /\ plan[s] \in Plans
  BY MailFields DEF SignedInv, BoxInv, LedgerInv
<1>2. /\ Carries(a.req, plan[s]) /\ a.req.transport = HeldKey(s)
      /\ a.keys = DerivedKeys(a.to, a.req)
  BY <1>1 DEF Mail, Ruled
<1> QED
  BY <1>1, <1>2, DerivedFields, SameIdentity DEF recoverVetKey

(* A session that stops waiting.                                           *)
LEMMA WaitEnds ==
  ASSUME SignedInv, NEW s \in Sessions, phase[s] = "calling",
         NEW p \in {"failed", "recovered"}, Goto(s, p),
         p = "recovered" =>
           \E a \in answers : a.from = s /\ a.call = calls[s] /\ a.outcome = "ok",
         UNCHANGED <<plan, keyPairs, signature, calls, actorCache, canister, inbox,
                     answers>>
  PROVE  SignedInv'
<1>1. Typed'
  BY DEF SignedInv, Typed, Goto, canister, Phases
<1>2. \A r \in Sessions : Planned(r)'
  BY DEF SignedInv, Typed, Planned, Goto, SignedData
<1>3. \A r \in Sessions : Opened(r)'
  BY DEF SignedInv, Typed, Opened, Goto
<1>4. BoxInv'
  BY MailKept DEF SignedInv, BoxInv
<1> QED
  BY <1>1, <1>2, <1>3, <1>4, LedgerSame DEF SignedInv, canister

LEMMA ReceiveKeeps ==
  ASSUME SignedInv, NEW s \in Sessions, Receive(s)
  PROVE  SignedInv'
<1> DEFINE a == AnswerTo(s)
<1>1. phase[s] = "calling" /\ a \in answers /\ a.from = s /\ a.call = calls[s]
  BY AnswerIs DEF Receive, Answered
<1>2. a.outcome = "ok" => \A i \in DOMAIN a.keys : recoverVetKey(s, a.keys[i])
  BY <1>1, GrantOpens
<1>3. /\ \/ a.outcome # "ok" /\ Goto(s, "failed")
         \/ /\ a.outcome = "ok"
            /\ Goto(s, IF \A i \in DOMAIN a.keys : recoverVetKey(s, a.keys[i])
                       THEN "recovered" ELSE "unverified")
      /\ UNCHANGED <<plan, keyPairs, signature, calls, actorCache, canister, inbox,
                     answers>>
  BY DEF Receive
<1> DEFINE opens == \A i \in DOMAIN a.keys : recoverVetKey(s, a.keys[i])
<1>4. /\ a.outcome # "ok" => Goto(s, "failed")
      /\ a.outcome = "ok" => opens /\ Goto(s, IF opens THEN "recovered" ELSE "unverified")
  BY Zenon, <1>2, <1>3
<1> HIDE DEF a, opens
<1>5. a.outcome = "ok" => Goto(s, "recovered")
  BY <1>4
<1>6. CASE a.outcome = "ok"
  BY <1>1, <1>3, <1>5, <1>6, WaitEnds
<1>7. CASE a.outcome # "ok"
  BY <1>1, <1>3, <1>4, <1>7, WaitEnds
<1> QED
  BY <1>6, <1>7

LEMMA SignedStep ==
  ASSUME SignedInv, [Next]_vars
  PROVE  SignedInv'
<1>1. ASSUME NEW s \in Sessions, NEW p \in Plans, Build(s, p) PROVE SignedInv'
  BY <1>1, BuildKeeps
<1>2. ASSUME NEW s \in Sessions, NEW form \in Forms, Sign(s, form) PROVE SignedInv'
  BY <1>2, SignKeeps
<1>3. ASSUME NEW s \in Sessions,
             \/ requestDecryptionKey(s) \/ batchRequestDecryptionKey(s)
             \/ CallOwnActor(s) \/ decryptGatedFile(s)
      PROVE  SignedInv'
  BY <1>3, CallKeeps
<1>4. ASSUME NEW s \in Sessions, Receive(s) PROVE SignedInv'
  BY <1>4, ReceiveKeeps
<1>5. ASSUME NEW s \in Sessions, GiveUp(s) PROVE SignedInv'
  BY <1>5, WaitEnds DEF GiveUp
<1>6. ASSUME NEW m \in inbox, Serve(m) PROVE SignedInv'
  BY <1>6, ServeKeeps
<1>7. EpochBegins => SignedInv'
  BY EpochKeeps
<1>8. UNCHANGED vars => SignedInv'
  <2> SUFFICES ASSUME UNCHANGED vars PROVE SignedInv'
    OBVIOUS
  <2>1. Typed' /\ \A s \in Sessions : Planned(s)' /\ Opened(s)'
    BY DEF vars, client, canister, SignedInv, Typed, Planned, Opened, SignedData
  <2>2. BoxInv'
    BY MailKept DEF vars, client, canister, SignedInv, BoxInv
  <2> QED
    BY <2>1, <2>2, LedgerSame DEF vars, client, canister, SignedInv
<1> QED
  BY <1>1, <1>2, <1>3, <1>4, <1>5, <1>6, <1>7, <1>8 DEF Next

(* What every reachable state satisfies: sessions call with what they have *)
(* signed, messages say what their sessions planned, nonces are spent by   *)
(* answers.                                                                *)
THEOREM SignedAlways == Spec => []SignedInv
<1>1. Init => SignedInv
  <2> SUFFICES ASSUME Init PROVE SignedInv
    OBVIOUS
  <2>1. Typed
    BY SignedConstants DEF Init, Typed, Phases
  <2>2. ASSUME NEW s \in Sessions PROVE Planned(s) /\ Opened(s)
    <3>1. /\ phase[s] = "idle" /\ keyPairs[s] = 0 /\ calls[s] = 0
          /\ signature[s] = NoSignature
      BY DEF Init
    <3> QED
      BY <3>1 DEF Planned, Opened
  <2>3. BoxInv /\ LedgerInv
    BY DEF Init, BoxInv, LedgerInv
  <2> QED
    BY <2>1, <2>2, <2>3 DEF SignedInv
<1> QED
  BY <1>1, SignedStep, PTL DEF Spec

-----------------------------------------------------------------------------
(* What follows from it. *)

LEMMA BuiltMessage ==
  ASSUME NEW p, NEW key, Endpoint(p) \in Endpoints
  PROVE  DOMAIN Built(p, key).message = MessageOf(p)
<1>1. /\ Endpoint(p) = "gate" => MessageOf(p) = GateRequestMessage
      /\ Endpoint(p) = "batch_gate" => MessageOf(p) = BatchGateRequestMessage
      /\ Endpoint(p) = "gate_v3" => MessageOf(p) = GateRequestV3Message
      /\ Endpoint(p) = "gate_v4" => MessageOf(p) = GateRequestV4Message
  BY Zenon DEF MessageOf
<1>2. CASE Endpoint(p) = "gate"
  BY <1>1, <1>2, BuiltCases
     DEF buildGateRequestTypedData, TypedData, GateRequestMessage
<1>3. CASE Endpoint(p) = "batch_gate"
  BY <1>1, <1>3, BuiltCases
     DEF buildBatchGateRequestTypedData, TypedData, BatchGateRequestMessage
<1>4. CASE Endpoint(p) = "gate_v3"
  BY <1>1, <1>4, BuiltCases
     DEF buildGateRequestV3TypedData, TypedData, GateRequestV3Message
<1>5. CASE Endpoint(p) = "gate_v4"
  BY <1>1, <1>5, BuiltCases
     DEF buildGateRequestV4TypedData, TypedData, GateRequestV4Message
<1> QED
  BY <1>2, <1>3, <1>4, <1>5 DEF Endpoints

LEMMA TypeFollows ==
  ASSUME SignedInv
  PROVE  TypeOK
<1>1. \A s \in Sessions : plan[s] # NoPlan =>
        DOMAIN Built(plan[s], <<s, 1>>).message = MessageOf(plan[s])
  BY BuiltMessage, PlanFields DEF SignedInv, Typed
<1>2. \A c \in Canisters : \A k \in usedNonces[c] : k[2] \in Endpoints
  <2> SUFFICES ASSUME NEW c \in Canisters, NEW k \in usedNonces[c]
               PROVE  k[2] \in Endpoints
    OBVIOUS
  <2>1. PICK b \in answers : NonceKey(b.req) = k
    BY DEF SignedInv, LedgerInv
  <2>2. b.req.endpoint = Endpoint(plan[b.from]) /\ plan[b.from] \in Plans
    BY MailFields DEF SignedInv, BoxInv, Mail, Carries
  <2>3. k[2] = b.req.endpoint
    BY <2>1 DEF NonceKey
  <2> QED
    BY <2>2, <2>3, PlanFields
<1>3. keyPairs \in [Sessions -> 0 .. MaxCalls + 1]
  <2>1. ASSUME NEW s \in Sessions PROVE keyPairs[s] \in 0 .. MaxCalls + 1
    <3>1. keyPairs[s] \in Nat /\ calls[s] \in 0 .. MaxCalls
      BY DEF SignedInv, Typed
    <3>2. keyPairs[s] <= calls[s] + 1
      BY DEF SignedInv, Planned
    <3> QED
      BY <3>1, <3>2, SignedConstants
  <2> QED
    BY <2>1 DEF SignedInv, Typed
<1>4. \A m \in inbox \cup answers :
        [from |-> m.from, call |-> m.call, to |-> m.to] \in Messages
  <2> SUFFICES ASSUME NEW m \in inbox \cup answers
               PROVE  /\ m.from \in Sessions /\ m.call \in 1 .. MaxCalls
                      /\ m.to \in Canisters
    BY DEF Messages
  <2>1. m.call \in 1 .. calls[m.from] /\ calls[m.from] \in 0 .. MaxCalls
    BY MailFields DEF SignedInv, BoxInv, Mail, Typed
  <2> QED
    BY <2>1, MailFields, SignedConstants
<1>5. \A a \in answers : a.outcome \in GateErrors \cup {"ok"}
  BY DEF SignedInv, LedgerInv, Ruled, GateErrors
<1> QED
  BY <1>1, <1>2, <1>3, <1>4, <1>5 DEF TypeOK, SignedInv, Typed

(* Every variable has its type, and the message of typed data has the      *)
(* fields of its interface: the type invariant of the run.                 *)
THEOREM SignedTypes == Spec => []TypeOK
BY SignedAlways, TypeFollows, PTL

(* A nonce a request is refused for was spent by a request that had its    *)
(* signature looked at: early and malformed ones are free (main.mo         *)
(* 2038-2050).                                                             *)
THEOREM EarlySafety == Spec => []EarlyKeepsNonce
<1>1. ASSUME SignedInv PROVE EarlyKeepsNonce
  <2> SUFFICES ASSUME NEW a \in answers, a.outcome = "NonceAlreadyUsed"
               PROVE  \E b \in answers :
                        /\ b.to = a.to /\ NonceKey(b.req) = NonceKey(a.req)
                        /\ b.outcome \in {"ok", "InsufficientBalance", "InvalidSignature"}
    BY DEF EarlyKeepsNonce
  <2>1. NonceKey(a.req) \in usedNonces[a.to] /\ a.to \in Canisters
    BY <1>1, MailFields DEF SignedInv, LedgerInv, Ruled
  <2> QED
    BY <1>1, <2>1 DEF SignedInv, LedgerInv, Costly
<1> QED
  BY <1>1, SignedAlways, PTL

(* The digests of a session: what its wallet signed, what a canister       *)
(* computes from a message of it.                                          *)
LEMMA SessionDigests ==
  ASSUME SignedInv, NEW a \in answers
  PROVE  /\ a.from \in Sessions /\ plan[a.from] \in Plans
         /\ Endpoint(plan[a.from]) \in Endpoints
         /\ WalletDigest(SignedData(a.from)) =
              Expected(plan[a.from], TransportKey(a.from, 1))
         /\ eip712Digest(a.req) = Expected(plan[a.from], a.req.transport)
         /\ a.req.signature = signature[a.from]
         /\ signature[a.from].over = WalletDigest(SignedData(a.from))
         /\ Carries(a.req, plan[a.from])
<1>1. /\ a.from \in Sessions /\ plan[a.from] \in Plans
      /\ signature[a.from] # NoSignature
  BY MailFields
<1>2. Endpoint(plan[a.from]) \in Endpoints
  BY <1>1, PlanFields
<1>3. /\ signature[a.from].over = WalletDigest(SignedData(a.from))
      /\ WalletSigns(SignedData(a.from))
  BY <1>1 DEF SignedInv, Planned
<1>4. /\ WalletDigest(SignedData(a.from)) =
           Expected(plan[a.from], TransportKey(a.from, 1))
      /\ InRange(plan[a.from])
  BY <1>2, <1>3, WalletDigests DEF SignedData
<1>5. Carries(a.req, plan[a.from]) /\ a.req.signature = signature[a.from]
  BY DEF SignedInv, BoxInv, Mail
<1>6. eip712Digest(a.req) = Expected(plan[a.from], a.req.transport)
  BY <1>2, <1>4, <1>5, DigestIs
<1> QED
  BY <1>1, <1>2, <1>3, <1>4, <1>5, <1>6

(* What the SDK built and the account named signed is not refused for its  *)
(* signature: the digests agree at all four endpoints, for every spelling  *)
(* of the addresses and every list of CIDs.                                *)
THEOREM BuiltSafety == Spec => []BuiltIsAccepted
<1>1. ASSUME SignedInv PROVE BuiltIsAccepted
  <2> SUFFICES ASSUME NEW a \in answers, AsBuilt(a), a.outcome = "InvalidSignature"
               PROVE  FALSE
    BY DEF BuiltIsAccepted
  <2>1. ~ SignatureMatches(a.req)
    BY <1>1 DEF SignedInv, LedgerInv, Ruled
  <2>2. a.req.signature.over = eip712Digest(a.req)
    BY <1>1, SessionDigests DEF AsBuilt
  <2>3. a.req.signature.form = "v27"
        /\ a.req.signature.signer = LowerHex(a.req.evmAddress)
    BY <1>1, SessionDigests DEF AsBuilt, Carries
  <2> QED
    BY <2>1, <2>2, <2>3 DEF SignatureMatches
<1> QED
  BY <1>1, SignedAlways, PTL

(* A signature admits what its session signed, under the key it signed,    *)
(* and admits it once for each canister.                                   *)
THEOREM OnceSafety == Spec => []SignedOnce
<1>1. ASSUME SignedInv PROVE SignedOnce
  <2>1. ASSUME NEW a \in answers, Admitted(a)
        PROVE  /\ a.req.signature.over = WalletDigest(SignedData(a.from))
               /\ a.req.signature.signer = LowerHex(a.req.evmAddress)
               /\ a.req.transport = TransportKey(a.from, 1)
    <3>1. SignatureMatches(a.req)
      BY <1>1, <2>1 DEF SignedInv, LedgerInv, Ruled
    <3>2. a.req.signature.over = eip712Digest(a.req)
          /\ a.req.signature.over = WalletDigest(SignedData(a.from))
      BY <1>1, <3>1, SessionDigests DEF SignatureMatches
    <3>3. Expected(plan[a.from], a.req.transport) =
            Expected(plan[a.from], TransportKey(a.from, 1))
      BY <1>1, <3>2, SessionDigests
    <3>4. a.req.transport = TransportKey(a.from, 1)
      BY <1>1, <3>3, SessionDigests, ExpectedDiffers
    <3> QED
      BY <3>1, <3>2, <3>4 DEF SignatureMatches
  <2>2. ASSUME NEW a \in answers, NEW b \in answers, Admitted(a), Admitted(b),
               b.to = a.to, b.req.signature.over = a.req.signature.over
        PROVE  a = b
    <3>1. Expected(plan[b.from], TransportKey(b.from, 1)) =
            Expected(plan[a.from], TransportKey(a.from, 1))
      BY <1>1, <2>2, SessionDigests
    <3>2. TransportKey(a.from, 1) = TransportKey(b.from, 1)
      BY <1>1, <3>1, SessionDigests, ExpectedDiffers
    <3>3. a.from = b.from
      BY <3>2 DEF TransportKey
    <3>4. NonceKey(a.req) = NonceKey(b.req)
      BY <1>1, <3>3, SessionDigests DEF Carries, NonceKey, eip712DomainSeparator
    <3> QED
      BY <1>1, <2>2, <3>4 DEF SignedInv, LedgerInv
  <2> QED
    BY <2>1, <2>2 DEF SignedOnce
<1> QED
  BY <1>1, SignedAlways, PTL

(* Grants that arrive are opened, with one key for each CID, in order and  *)
(* by the canister asked; the answers of v1 are in the SDK's types.        *)
THEOREM KeysSafety == Spec => []KeysForTheSession
<1>1. ASSUME SignedInv PROVE KeysForTheSession
  <2>1. ASSUME NEW a \in answers, plan[a.from].flow \notin {"gate_v3", "gate_v4"}
        PROVE  a.outcome \in GateErrorVariant \cup {"ok"}
    <3>1. a.req.endpoint = Endpoint(plan[a.from]) /\ plan[a.from] \in Plans
      BY <1>1, SessionDigests DEF Carries
    <3>2. a.req.endpoint \notin {"gate_v3", "gate_v4"}
      BY <2>1, <3>1, PlanFields
    <3> QED
      BY <1>1, <3>2 DEF SignedInv, LedgerInv, Ruled
  <2>2. ASSUME NEW s \in Sessions, phase[s] = "recovered"
        PROVE  LET a == AnswerTo(s) IN
               /\ a.to = plan[s].canister
               /\ Len(a.keys) = Len(plan[s].cids)
               /\ \A i \in DOMAIN a.keys :
                    /\ a.keys[i].cid = plan[s].cids[i]
                    /\ a.keys[i].key.of = plan[s].canister
    <3> DEFINE a == AnswerTo(s)
    <3>1. PICK b \in answers : b.from = s /\ b.call = calls[s] /\ b.outcome = "ok"
      BY <1>1, <2>2 DEF SignedInv, Opened
    <3>2. a \in answers /\ a.from = s /\ a.call = calls[s]
      BY <3>1, AnswerIs
    <3>3. a = b
      BY <1>1, <3>1, <3>2 DEF SignedInv, BoxInv, SameCall
    <3> HIDE DEF a
    <3>4. a.to = plan[s].canister /\ Carries(a.req, plan[s]) /\ plan[s] \in Plans
      BY <1>1, <3>2, MailFields DEF SignedInv, BoxInv, Mail
    <3>5. a.keys = DerivedKeys(a.to, a.req)
      BY <1>1, <3>1, <3>3 DEF SignedInv, LedgerInv, Ruled
    <3>6. DOMAIN a.req.cids = 1 .. Len(plan[s].cids) /\ Len(plan[s].cids) \in Nat
          /\ \A i \in DOMAIN a.req.cids : a.req.cids[i] = plan[s].cids[i]
      <4>1. /\ plan[s].cids \in Seq({plan[s].cids[i] : i \in DOMAIN plan[s].cids})
            /\ Endpoint(plan[s]) # "batch_gate" => Len(plan[s].cids) = 1
        BY <3>4, PlanFields DEF Endpoint
      <4>2. a.req.cids = IF Endpoint(plan[s]) = "batch_gate" THEN plan[s].cids
                         ELSE <<plan[s].cids[1]>>
        BY <3>4 DEF Carries
      <4> QED
        BY <4>1, <4>2
    <3>7. DOMAIN a.keys = 1 .. Len(plan[s].cids)
          /\ \A i \in DOMAIN a.keys :
               /\ a.keys[i].cid = plan[s].cids[i]
               /\ a.keys[i].key.of = plan[s].canister
      BY <3>4, <3>5, <3>6, DerivedFields
    <3>8. Len(a.keys) = Len(plan[s].cids)
      BY <3>6, <3>7
    <3> QED
      BY <3>4, <3>7, <3>8 DEF a
  <2>3. \A s \in Sessions : phase[s] # "unverified"
    BY <1>1 DEF SignedInv, Opened
  <2> QED
    BY <2>1, <2>2, <2>3 DEF KeysForTheSession
<1> QED
  BY <1>1, SignedAlways, PTL


=============================================================================
