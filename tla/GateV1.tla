-------------------------------- MODULE GateV1 --------------------------------
(***************************************************************************)
(* The endpoints of the canister (src/backend/main.mo) that ask the chain  *)
(* on every request: the protocol-v1 gate, single and batch, and the two   *)
(* attestation endpoints, single and Merkle.  They share usedNonces, each  *)
(* with a scope of its own, and touch no approval cache.                   *)
(*                                                                         *)
(* As in GateV3, an action is one message.  The tree of a Merkle           *)
(* attestation is the subject of MerkleTree; its root stands here for the  *)
(* sorted leaves it commits to.                                            *)
(***************************************************************************)
EXTENDS CanisterMaps, TypedData, Sequences

CONSTANTS
  Calls,      \* slots for calls in flight
  Requests,   \* the requests clients send
  Wallets,    \* lowercased evmAddress values
  Thresholds,
  Transports, \* transport public keys
  Cids,       \* CIDs and CID hashes, as requests spell them
  Canon,      \* a CID hash in its canonical form: bare lowercase hex, 32 bytes
  KeyNames,   \* values of VETKD_KEY_NAME and SCHNORR_KEY_NAME
  Balances,   \* values of balanceOf()
  MaxCids,    \* the hard limit of a batch
  MaxTime,    \* bound on the clock
  NoRequest, NoPayload, NoKey

Endpoints == {"gate", "batch_gate", "attest", "merkle_attest"}

(* wellFormed stands for the checks on the form of addresses, CIDs,        *)
(* transport key and signature bytes.  An attestation has no transport     *)
(* key, and a single request one CID.                                      *)
IsRequest(q) ==
  /\ q.endpoint \in Endpoints
  /\ q.token \in Tokens /\ q.threshold \in Thresholds /\ q.wallet \in Wallets
  /\ q.transport \in Transports /\ q.nonce \in Nonces
  /\ q.cids \in Seq(Cids)
  /\ q.endpoint \in {"gate", "attest"} => Len(q.cids) = 1
  /\ q.wellFormed \in BOOLEAN

ASSUME GateConstants ==
  /\ \A q \in Requests : IsRequest(q)
  /\ Canon \in [Cids -> Cids]
  /\ \A x \in Cids : Canon[Canon[x]] = Canon[x]
  /\ Thresholds \subseteq Nat /\ Balances \subseteq Nat
  /\ MaxCids \in Nat \ {0}
  /\ MaxTime \in Nat
  /\ NoRequest \notin Requests
  /\ NoKey \notin KeyNames

VARIABLES
  now,                 \* the canister's clock
  keyName,             \* VETKD_KEY_NAME of the running version
  schnorrName,         \* SCHNORR_KEY_NAME of the running version
  usedNonces,          \* the four scopes of usedNonces
  cachedKey,           \* cachedVetKDPublicKey: the key name it was fetched under
  cachedAttestKey,     \* cachedAttestPublicKey, likewise
  pc,                  \* where each call waits
  req,                 \* the request of each call
  arrived,             \* history: when the request of each call came
  seen,                \* the answer to the eth_call of each call
  keys,                \* the keys a batch has derived so far
  payload,             \* the attestation a call builds before it signs
  signed,              \* history: the message sign_with_schnorr was asked to sign
  answer,              \* the answer the last message gave, if it gave one
  readings,            \* history: every balance the chain was seen to have
  responses            \* history: every #ok answer

memos    == <<cachedKey, cachedAttestKey>>
names    == <<keyName, schnorrName>>
callVars == <<req, arrived, seen, keys, payload, signed>>
history  == <<readings, responses>>
vars == <<now, names, usedNonces, memos, pc, callVars, answer, history>>

Errors ==
  {"InvalidRequest", "NonceAlreadyUsed", "InvalidSignature", "EvmRpcError",
   "InsufficientBalance", "VetKDError", "Rejected"}
Waiting == {"eth_call", "balance", "derive", "pubkey", "sign", "warmup", "warmup_attest"}
NothingSeen == [kind |-> "none", balance |-> 0]
Outcomes == [kind : {"none", "ok", "EvmRpcError", "Rejected"}, balance : Nat]

IsAttestation(q) == q.endpoint \in {"attest", "merkle_attest"}

(* computeDerivationInput: the token goes in as it is spelled. *)
DerivationInput(q, cid) == [token |-> q.token, threshold |-> q.threshold, cid |-> cid]

MapSeq(s, Op(_)) == [i \in DOMAIN s |-> Op(s[i])]

CanonSeq(q) == MapSeq(q.cids, LAMBDA x : Canon[x])

(* The structs the client signs, one EIP-712 type for each endpoint.  The  *)
(* single gate does not sign its CID.  The batch gate signs the derivation *)
(* input of each of its CIDs, and so the token and the threshold with      *)
(* them.  Attestations sign the canonical CID hashes in submitted order.   *)
StructHash(q) ==
  CASE q.endpoint = "gate" ->
         [type |-> "gate", wallet |-> q.wallet, nonce |-> EncodedNonce(q.nonce),
          transport |-> q.transport]
    [] q.endpoint = "batch_gate" ->
         [type |-> "batch_gate", wallet |-> q.wallet, nonce |-> EncodedNonce(q.nonce),
          transport |-> q.transport,
          inputs |-> MapSeq(q.cids, LAMBDA x : DerivationInput(q, x))]
    [] OTHER ->
         [type |-> q.endpoint, wallet |-> q.wallet, nonce |-> EncodedNonce(q.nonce),
          cids |-> CanonSeq(q)]

SignedByWallet(q) == q.sig = [signer |-> q.wallet, over |-> StructHash(q)]

(* Broken on purpose: a nonce is spent for the CIDs it came with only. *)
NonceKeyPerCids(q) == <<q.endpoint, q.nonce, q.cids>>

(* Each endpoint has a scope of its own, and takes the number as it came. *)
NonceKey(q) == <<q.endpoint, q.nonce>>

ValidInput(q) ==
  /\ q.wellFormed
  /\ q.threshold # 0
  /\ Len(q.cids) \in 1..MaxCids

TypeOK ==
  /\ now \in 0..MaxTime
  /\ keyName \in KeyNames /\ schnorrName \in KeyNames
  /\ usedNonces \subseteq Endpoints \X Nonces
  /\ cachedKey \in KeyNames \union {NoKey}
  /\ cachedAttestKey \in KeyNames \union {NoKey}
  /\ pc \in [Calls -> Waiting \union {"idle"}]
  /\ req \in [Calls -> Requests \union {NoRequest}]
  /\ arrived \in [Calls -> 0..MaxTime]
  /\ seen \in [Calls -> Outcomes]
  /\ \A c \in Calls : Len(keys[c]) <= MaxCids
  /\ answer \in Errors \union {"none", "ok"}

-----------------------------------------------------------------------------
Init ==
  /\ now = 0
  /\ keyName \in KeyNames /\ schnorrName \in KeyNames
  /\ usedNonces = {}
  /\ cachedKey = NoKey /\ cachedAttestKey = NoKey
  /\ pc = [c \in Calls |-> "idle"]
  /\ req = [c \in Calls |-> NoRequest]
  /\ arrived = [c \in Calls |-> 0]
  /\ seen = [c \in Calls |-> NothingSeen]
  /\ keys = [c \in Calls |-> <<>>]
  /\ payload = [c \in Calls |-> NoPayload]
  /\ signed = [c \in Calls |-> NoPayload]
  /\ answer = "none"
  /\ readings = {} /\ responses = {}

Finish(c, a) ==
  /\ pc' = [pc EXCEPT ![c] = "idle"]
  /\ req' = [req EXCEPT ![c] = NoRequest]
  /\ arrived' = [arrived EXCEPT ![c] = 0]
  /\ seen' = [seen EXCEPT ![c] = NothingSeen]
  /\ keys' = [keys EXCEPT ![c] = <<>>]
  /\ payload' = [payload EXCEPT ![c] = NoPayload]
  /\ signed' = [signed EXCEPT ![c] = NoPayload]
  /\ answer' = a

GoOn(c, place) ==
  /\ pc' = [pc EXCEPT ![c] = place]
  /\ answer' = "none"

AnswerAtOnce(e) ==
  /\ answer' = e
  /\ UNCHANGED <<pc, callVars>>

(* From the request to the await of checkBalance.  The nonce is consumed   *)
(* before the signature is looked at, and whatever becomes of the call.    *)
Enter(c, q) ==
  /\ pc[c] = "idle"
  /\ \/ /\ ~ ValidInput(q)
        /\ AnswerAtOnce("InvalidRequest")
        /\ UNCHANGED usedNonces
     \/ /\ ValidInput(q)
        /\ NonceKey(q) \in usedNonces
        /\ AnswerAtOnce("NonceAlreadyUsed")
        /\ UNCHANGED usedNonces
     \/ /\ ValidInput(q)
        /\ NonceKey(q) \notin usedNonces
        /\ usedNonces' = usedNonces \union {NonceKey(q)}
        /\ \/ ~ SignedByWallet(q) /\ AnswerAtOnce("InvalidSignature")
           \/ /\ SignedByWallet(q)
              /\ GoOn(c, "eth_call")
              /\ req' = [req EXCEPT ![c] = q]
              /\ arrived' = [arrived EXCEPT ![c] = now]
              /\ UNCHANGED <<seen, keys, payload, signed>>
  /\ UNCHANGED <<now, names, memos, history>>

RequestDecryptionKey(c, q)      == q.endpoint = "gate" /\ Enter(c, q)
BatchRequestDecryptionKey(c, q) == q.endpoint = "batch_gate" /\ Enter(c, q)
AttestHolding(c, q)             == q.endpoint = "attest" /\ Enter(c, q)
BatchAttestHolding(c, q)        == q.endpoint = "merkle_attest" /\ Enter(c, q)

(* The EVM RPC canister asks the providers at a moment of its own; what    *)
(* they see is any balance, an error, or a rejection.                      *)
EthCall(c) ==
  /\ pc[c] = "eth_call"
  /\ \/ \E b \in Balances :
        /\ seen' = [seen EXCEPT ![c] = [kind |-> "ok", balance |-> b]]
        /\ readings' = readings \union
             {[wallet |-> req[c].wallet, token |-> LowerHex[req[c].token],
               balance |-> b, at |-> now]}
     \/ \E e \in {"EvmRpcError", "Rejected"} :
        /\ seen' = [seen EXCEPT ![c] = [kind |-> e, balance |-> 0]]
        /\ UNCHANGED readings
  /\ GoOn(c, "balance")
  /\ UNCHANGED <<now, names, usedNonces, memos, req, arrived, keys, payload,
                 signed, responses>>

(* The attestation, built of what the call knows before it signs: a single *)
(* one carries the CID hash as it came, a Merkle one the canonical ones.   *)
Attestation(c) ==
  LET q == req[c] IN
  [endpoint |-> q.endpoint, wallet |-> q.wallet, token |-> q.token,
   threshold |-> q.threshold, balance |-> seen[c].balance, timestamp |-> now,
   cids |-> IF q.endpoint = "attest" THEN q.cids ELSE CanonSeq(q)]

(* The bytes that are signed.  The root of a Merkle attestation commits to *)
(* the leaves whatever order they were submitted in.                       *)
Occurrences(s) == [x \in Cids |-> Cardinality({i \in DOMAIN s : s[i] = x})]

Encoded(a) ==
  IF a.endpoint = "attest" THEN a ELSE [a EXCEPT !.cids = Occurrences(a.cids)]

(* Broken on purpose: a smaller balance will do when there are many CIDs.  *)
HoldsPerCid(c) == seen[c].balance * Len(req[c].cids) >= req[c].threshold

HoldsEnough(c) == seen[c].balance >= req[c].threshold

(* The continuation of await checkBalance. *)
CheckBalanceReturns(c) ==
  /\ pc[c] = "balance"
  /\ \/ seen[c].kind # "ok" /\ Finish(c, seen[c].kind)
     \/ seen[c].kind = "ok" /\ ~ HoldsEnough(c) /\ Finish(c, "InsufficientBalance")
     \/ /\ seen[c].kind = "ok" /\ HoldsEnough(c)
        /\ IF IsAttestation(req[c])
             THEN /\ GoOn(c, "sign")
                  /\ payload' = [payload EXCEPT ![c] = Attestation(c)]
                  /\ signed' = [signed EXCEPT ![c] = Encoded(Attestation(c))]
             ELSE GoOn(c, "derive") /\ UNCHANGED <<payload, signed>>
        /\ UNCHANGED <<req, arrived, seen, keys>>
  /\ UNCHANGED <<now, names, usedNonces, memos, history>>

Respond(c, body) ==
  responses' = responses \union {[req |-> req[c], arrived |-> arrived[c],
                                  at |-> now, body |-> body]}

(* Broken on purpose: what failed is tried again, without end. *)
RetryForEver(c) ==
  /\ GoOn(c, pc[c])
  /\ UNCHANGED callVars

(* The catch branch around all the awaits on the VetKD. *)
ReportVetKDError(c) == Finish(c, "VetKDError")

(* The next CID of the loop; the single gate has one. *)
NextCid(c) == req[c].cids[Len(keys[c]) + 1]

(* Broken on purpose: one derivation is replicated, as protocol v3 does. *)
WithSameKey(c) ==
  Append(keys[c], [cid |-> NextCid(c),
                   input |-> DerivationInput(req[c], req[c].cids[1])])

WithNextKey(c) ==
  Append(keys[c], [cid |-> NextCid(c), input |-> DerivationInput(req[c], NextCid(c))])

(* The continuation of await deriveKey: the loop of the batch goes on, or  *)
(* the verification key comes from the memo or is asked for.               *)
DeriveKeyReturns(c) ==
  LET got == WithNextKey(c) IN
  /\ pc[c] = "derive"
  /\ Len(keys[c]) < Len(req[c].cids)
  /\ \/ ReportVetKDError(c) /\ UNCHANGED responses
     \/ /\ Len(got) < Len(req[c].cids)
        /\ keys' = [keys EXCEPT ![c] = got]
        /\ GoOn(c, "derive")
        /\ UNCHANGED <<req, arrived, seen, payload, signed, responses>>
     \/ /\ Len(got) = Len(req[c].cids)
        /\ cachedKey # NoKey
        /\ Respond(c, got)
        /\ Finish(c, "ok")
     \/ /\ Len(got) = Len(req[c].cids)
        /\ cachedKey = NoKey
        /\ keys' = [keys EXCEPT ![c] = got]
        /\ GoOn(c, "pubkey")
        /\ UNCHANGED <<req, arrived, seen, payload, signed, responses>>
  /\ UNCHANGED <<now, names, usedNonces, memos, readings>>

PublicKeyReturns(c) ==
  /\ pc[c] = "pubkey"
  /\ \/ ReportVetKDError(c) /\ UNCHANGED <<cachedKey, responses>>
     \/ cachedKey' = keyName /\ Respond(c, keys[c]) /\ Finish(c, "ok")
  /\ UNCHANGED <<now, names, usedNonces, cachedAttestKey, readings>>

(* Broken on purpose: the clock is read again for the answer. *)
RestampedAttestation(c) == [payload[c] EXCEPT !.timestamp = now]

ReturnedAttestation(c) == payload[c]

(* The continuation of await sign_with_schnorr. *)
SignReturns(c) ==
  /\ pc[c] = "sign"
  /\ \/ ReportVetKDError(c) /\ UNCHANGED responses
     \/ /\ Respond(c, [attestation |-> ReturnedAttestation(c), over |-> signed[c]])
        /\ Finish(c, "ok")
  /\ UNCHANGED <<now, names, usedNonces, memos, readings>>

(* warmupVetKDPublicKey and warmupAttestationPublicKey. *)
Warmup(c, place) ==
  /\ pc[c] = "idle"
  /\ GoOn(c, place)
  /\ UNCHANGED <<now, names, usedNonces, memos, callVars, history>>

WarmupReturns(c) ==
  /\ pc[c] \in {"warmup", "warmup_attest"}
  /\ \/ Finish(c, "Rejected") /\ UNCHANGED memos
     \/ /\ pc[c] = "warmup"
        /\ Finish(c, "ok")
        /\ cachedKey' = keyName /\ UNCHANGED cachedAttestKey
     \/ /\ pc[c] = "warmup_attest"
        /\ Finish(c, "ok")
        /\ cachedAttestKey' = schnorrName /\ UNCHANGED cachedKey
  /\ UNCHANGED <<now, names, usedNonces, history>>

(* An upgrade, which waits until no callback is outstanding: the maps and  *)
(* the memos stay, the transient key names are read again.                 *)
Upgrade ==
  /\ \A c \in Calls : pc[c] = "idle"
  /\ keyName' \in KeyNames /\ schnorrName' \in KeyNames
  /\ answer' = "none"
  /\ UNCHANGED <<now, usedNonces, memos, pc, callVars, history>>

Tick ==
  /\ now < MaxTime
  /\ now' = now + 1
  /\ answer' = "none"
  /\ UNCHANGED <<names, usedNonces, memos, pc, callVars, history>>

Continue(c) ==
  \/ EthCall(c)
  \/ CheckBalanceReturns(c)
  \/ DeriveKeyReturns(c)
  \/ PublicKeyReturns(c)
  \/ SignReturns(c)
  \/ WarmupReturns(c)

Next ==
  \/ \E c \in Calls, q \in Requests :
       \/ RequestDecryptionKey(c, q)
       \/ BatchRequestDecryptionKey(c, q)
       \/ AttestHolding(c, q)
       \/ BatchAttestHolding(c, q)
  \/ \E c \in Calls : Continue(c)
  \/ \E c \in Calls, place \in {"warmup", "warmup_attest"} : Warmup(c, place)
  \/ Upgrade
  \/ Tick

Spec == Init /\ [][Next]_vars
FairSpec == Spec /\ \A c \in Calls : WF_vars(Continue(c))

-----------------------------------------------------------------------------
(* Properties. *)

InFlight(c) == req[c] # NoRequest

(* Two requests with one nonce to one endpoint, or with one signature over *)
(* nonces that are uint256.                                                *)
SameMessage(q, r) ==
  \/ q.endpoint = r.endpoint /\ q.nonce = r.nonce
  \/ Fits(q) /\ Fits(r) /\ q.sig = r.sig

(* A nonce is answered with a result at most once by each endpoint, and a  *)
(* signature on requests whose nonces are uint256 at most once by all of   *)
(* them, however the calls interleave; and the wallet signed the type of   *)
(* the endpoint that answers (main.mo, the four replay checks and the      *)
(* typehashes).  No more is said of a signature: one over the nonce n is   *)
(* one over n + 2^256 too, whose place in usedNonces is another (597-608   *)
(* against 1454), and it is answered for each.                             *)
NonceSpentOnce ==
  /\ \A c, d \in Calls :
       InFlight(c) /\ InFlight(d) /\ SameMessage(req[c], req[d]) => c = d
  /\ \A c \in Calls, r \in responses : InFlight(c) => ~ SameMessage(req[c], r.req)
  /\ \A r, s \in responses : SameMessage(r.req, s.req) => r = s
  /\ \A r \in responses : r.req.sig.over.type = r.req.endpoint

(* Behind every result is a balance the chain was asked for on behalf of   *)
(* that request, after it came and before it was answered ("its callers    *)
(* expect a balance check on every request", main.mo 1646-1647).           *)
AskedForEachRequest ==
  \A s \in responses : \E r \in readings :
    /\ r.wallet = s.req.wallet
    /\ r.token = LowerHex[s.req.token]
    /\ r.balance >= s.req.threshold
    /\ r.at \in s.arrived .. s.at

(* A batch is answered with one key for each CID, in the order of the      *)
(* request, each derived for its own CID and for the token and threshold   *)
(* that the wallet signed; a single gate with one (batchRequestDecryption- *)
(* Key, step D, against eip712BatchGateStructHash).                        *)
KeysAsAsked ==
  \A s \in responses :
    ~ IsAttestation(s.req) =>
      /\ Len(s.body) = Len(s.req.cids)
      /\ \A i \in DOMAIN s.body :
           /\ s.body[i].cid = s.req.cids[i]
           /\ s.body[i].input = DerivationInput(s.req, s.req.cids[i])
      /\ s.req.endpoint = "batch_gate" =>
           s.req.sig.over.inputs = MapSeq(s.body, LAMBDA k : k.input)

(* The attestation handed out is the one that was signed: a balance the    *)
(* chain had between the arrival of the request and the timestamp, and CID *)
(* hashes the wallet signed for (attestHolding and batchAttestHolding, on  *)
(* both sides of the await of sign_with_schnorr).                          *)
AttestationsTrue ==
  \A s \in responses :
    IsAttestation(s.req) =>
      LET a == s.body.attestation IN
      /\ s.body.over = Encoded(a)
      /\ a.timestamp \in s.arrived .. s.at
      /\ MapSeq(a.cids, LAMBDA x : Canon[x]) = s.req.sig.over.cids
      /\ \E r \in readings :
           /\ r.wallet = a.wallet
           /\ r.token = LowerHex[a.token]
           /\ r.balance = a.balance
           /\ r.at \in s.arrived .. a.timestamp

(* Every call is answered, also the batch that awaits a derivation for     *)
(* each of its CIDs, as long as the canisters it awaits answer.            *)
EveryCallAnswered == \A c \in Calls : pc[c] # "idle" ~> pc[c] = "idle"

=============================================================================
