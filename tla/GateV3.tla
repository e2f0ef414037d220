------------------------------- MODULE GateV3 -------------------------------
(***************************************************************************)
(* The protocol-v3 gate of the canister (src/backend/main.mo): the single  *)
(* and the batch endpoint, the approval cache behind them, the nonces they *)
(* consume, the memoized verification key, the janitor and the upgrade.    *)
(*                                                                         *)
(* A canister runs one message at a time, and a method that awaits gives   *)
(* the canister up until the answer arrives.  A call in flight is          *)
(* therefore a program counter plus the values it keeps across its awaits, *)
(* and each action below is one message: from an await to the next.        *)
(***************************************************************************)
EXTENDS ApprovalCache, TypedData

CONSTANTS
  Calls,        \* slots for calls in flight
  Requests,     \* the requests clients send
  Transports,   \* transport public keys
  KeyNames,     \* values of VETKD_KEY_NAME
  Balances,     \* token balances
  EpochLength,  \* EPOCH_LENGTH_SECONDS, in clock ticks
  MaxTime,      \* bound on the clock
  MaxCids,      \* the hard limit of a batch
  EvictBatches, \* the maxBatch values the operator passes to the janitor
  NoRequest, NoBasis, NoKey

Messages ==
  [wallet : Wallets, transport : Transports, epoch : Nat, nonce : Nonces]

(* A signature is the wallet that made it and the message it was made for. *)
Signatures == [signer : Wallets, over : Messages]

(* GateRequestV3 and BatchGateRequestV3.  wellFormed stands for the checks *)
(* on the form of addresses, transport key, signature bytes and CID texts. *)
GateRequests ==
  [endpoint : {"single", "batch"}, token : Tokens, threshold : Thresholds,
   epoch : Epochs, wallet : Wallets, transport : Transports, nonce : Nonces,
   cids : Nat, wellFormed : BOOLEAN, sig : Signatures]

ASSUME GateConstants ==
  /\ Requests \subseteq GateRequests
  /\ Balances \subseteq Nat
  /\ EpochLength \in Nat \ {0}
  /\ MaxTime \in Nat /\ MaxTime < Width
  /\ MaxCids \in Nat \ {0}
  /\ EvictBatches \subseteq Nat
  /\ NoRequest \notin Requests
  /\ NoKey \notin KeyNames

VARIABLES
  now,             \* the canister's clock
  keyName,         \* VETKD_KEY_NAME of the running version
  usedNonces,      \* the v3 scope of usedNonces
  approvedHolders, \* the approval cache
  cachedKeyV3,     \* cachedVetKDPublicKeyV3: the key name it was fetched under
  pc,              \* where each call waits
  req,             \* the request of each call
  seen,            \* the answer to the eth_call of each call
  basis,           \* when a call passed the gate, and on a row of what time
  ekey,            \* the key name the encrypted key of a call was derived under
  asked,           \* the key name an outstanding VetKD request names
  answer,          \* the answer the last message gave, if it gave one
  readings,        \* history: every balance the chain was seen to have
  grants           \* history: every key handed out

callVars  == <<req, seen, basis, ekey, asked>>
stateVars == <<usedNonces, approvedHolders, cachedKeyV3>>
vars == <<now, keyName, usedNonces, approvedHolders, cachedKeyV3,
          pc, req, seen, basis, ekey, asked, answer, readings, grants>>

Errors ==
  {"InvalidEpoch", "InvalidRequest", "NonceAlreadyUsed", "InvalidSignature",
   "EvmRpcError", "InsufficientBalance", "VetKDError", "Rejected"}

NothingSeen == [kind |-> "none", balance |-> 0]
Outcomes == [kind : {"none", "ok", "EvmRpcError", "Rejected"}, balance : Nat]
Bases == [verifiedAt : Nat, passedAt : Nat]
Readings == [wallet : Wallets, token : Tokens, balance : Nat, at : Nat]
Inputs == [token : Tokens, threshold : Thresholds, epoch : Epochs \union {0}]
Grants == [req : Requests, input : Inputs, basis : Bases,
           ekey : KeyNames, vkey : KeyNames]
Waiting == {"eth_call", "balance", "derive", "pubkey", "warmup"}

TypeOK ==
  /\ now \in 0..MaxTime
  /\ keyName \in KeyNames
  /\ usedNonces \subseteq Nonces
  /\ approvedHolders \in ApprovalRows
  /\ cachedKeyV3 \in KeyNames \union {NoKey}
  /\ pc \in [Calls -> Waiting \union {"idle"}]
  /\ req \in [Calls -> Requests \union {NoRequest}]
  /\ seen \in [Calls -> Outcomes]
  /\ basis \in [Calls -> Bases \union {NoBasis}]
  /\ ekey \in [Calls -> KeyNames \union {NoKey}]
  /\ asked \in [Calls -> KeyNames \union {NoKey}]
  /\ answer \in Errors \union {"none", "ok"}
  /\ readings \subseteq Readings
  /\ grants \subseteq Grants

-----------------------------------------------------------------------------
(* Pure helpers of main.mo. *)

CurrentEpoch == now \div EpochLength

(* Step 0 of both endpoints: a key for an epoch that has not begun is      *)
(* refused.                                                                *)
EpochStarted(q) == q.epoch <= CurrentEpoch

(* Broken on purpose: the batch endpoint keeps a scope of its own. *)
NonceKeyPerEndpoint(q) == [q.nonce EXCEPT !.domain = <<@, q.endpoint>>]

(* The scope of the replay check.  It is one scope for both endpoints,     *)
(* which honour the same signed message, and takes the number as it came.  *)
NonceKey(q) == q.nonce

(* The struct the client signs.  Neither the token nor the threshold is    *)
(* part of it.                                                             *)
StructHashV3(q) ==
  [wallet |-> q.wallet, transport |-> q.transport,
   epoch |-> encodeUint256(q.epoch), nonce |-> EncodedNonce(q.nonce)]

(* ecrecover over the digest gives the address the request claims.         *)
SignedByWallet(q) == q.sig = [signer |-> q.wallet, over |-> StructHashV3(q)]

(* The threshold-zero collapse: the free tier has one key for all epochs.  *)
(* The token goes in as it is spelled: two spellings of one token have two *)
(* keys, and one approval.                                                 *)
DerivationInputV3(q) ==
  [token |-> q.token, threshold |-> q.threshold,
   epoch |-> IF q.threshold = 0 THEN 0 ELSE q.epoch]

ValidSingle(q) == q.wellFormed

ValidBatch(q) == q.cids \in 1..MaxCids /\ q.wellFormed

ValidInput(q) == IF q.endpoint = "single" THEN ValidSingle(q) ELSE ValidBatch(q)

-----------------------------------------------------------------------------
Init ==
  /\ now = 0
  /\ keyName \in KeyNames
  /\ usedNonces = {}
  /\ approvedHolders = EmptyApprovals
  /\ cachedKeyV3 = NoKey
  /\ pc = [c \in Calls |-> "idle"]
  /\ req = [c \in Calls |-> NoRequest]
  /\ seen = [c \in Calls |-> NothingSeen]
  /\ basis = [c \in Calls |-> NoBasis]
  /\ ekey = [c \in Calls |-> NoKey]
  /\ asked = [c \in Calls |-> NoKey]
  /\ answer = "none"
  /\ readings = {}
  /\ grants = {}

NoAnswer == answer' = "none"

(* The call is over; its context is gone. *)
Finish(c, a) ==
  /\ pc' = [pc EXCEPT ![c] = "idle"]
  /\ req' = [req EXCEPT ![c] = NoRequest]
  /\ seen' = [seen EXCEPT ![c] = NothingSeen]
  /\ basis' = [basis EXCEPT ![c] = NoBasis]
  /\ ekey' = [ekey EXCEPT ![c] = NoKey]
  /\ asked' = [asked EXCEPT ![c] = NoKey]
  /\ answer' = a

(* An answer given within the message that brought the request. *)
Refuse(c, e) ==
  /\ answer' = e
  /\ UNCHANGED <<pc, callVars>>

(* Step D begins: deriveKeyV3 is sent.  r is the time of the approval the  *)
(* call passes on.                                                         *)
StartDerive(c, q, r) ==
  /\ pc' = [pc EXCEPT ![c] = "derive"]
  /\ req' = [req EXCEPT ![c] = q]
  /\ basis' = [basis EXCEPT ![c] = [verifiedAt |-> r, passedAt |-> now]]
  /\ ekey' = [ekey EXCEPT ![c] = keyName]
  /\ seen' = [seen EXCEPT ![c] = NothingSeen]
  /\ UNCHANGED asked
  /\ NoAnswer

(* Step C misses the cache: checkBalance is sent. *)
StartCheckBalance(c, q) ==
  /\ pc' = [pc EXCEPT ![c] = "eth_call"]
  /\ req' = [req EXCEPT ![c] = q]
  /\ UNCHANGED <<seen, basis, ekey, asked>>
  /\ NoAnswer

(* Steps 0, A and the replay check: the request is refused and the         *)
(* canister's state is as before.                                          *)
RefusedOnSight(c, q) ==
  /\ \/ ~ EpochStarted(q) /\ Refuse(c, "InvalidEpoch")
     \/ EpochStarted(q) /\ ~ ValidInput(q) /\ Refuse(c, "InvalidRequest")
     \/ /\ EpochStarted(q)
        /\ ValidInput(q)
        /\ NonceKey(q) \in usedNonces
        /\ Refuse(c, "NonceAlreadyUsed")
  /\ UNCHANGED stateVars

(* The rest of step B and step C.  The nonce is consumed before the        *)
(* signature is looked at, and whatever becomes of the call.               *)
Admitted(c, q) ==
  LET k == ApprovalCacheKey(q) IN
  /\ EpochStarted(q)
  /\ ValidInput(q)
  /\ NonceKey(q) \notin usedNonces
  /\ usedNonces' = usedNonces \union {NonceKey(q)}
  /\ \/ /\ ~ SignedByWallet(q)
        /\ Refuse(c, "InvalidSignature")
        /\ UNCHANGED approvedHolders
     \/ /\ SignedByWallet(q)
        /\ q.threshold = 0
        /\ StartDerive(c, q, now)
        /\ UNCHANGED approvedHolders
     \/ /\ SignedByWallet(q)
        /\ q.threshold # 0
        /\ IsApprovedHolder(approvedHolders, k, now)
        /\ StartDerive(c, q, approvedHolders[k])
        /\ UNCHANGED approvedHolders
     \/ /\ SignedByWallet(q)
        /\ q.threshold # 0
        /\ ~ IsApprovedHolder(approvedHolders, k, now)
        /\ StartCheckBalance(c, q)
        /\ approvedHolders' = DropIfStale(approvedHolders, k, now)
  /\ UNCHANGED cachedKeyV3

Gate(c, q) ==
  /\ pc[c] = "idle"
  /\ RefusedOnSight(c, q) \/ Admitted(c, q)
  /\ UNCHANGED <<now, keyName, grants, readings>>

RequestDecryptionKeyV3(c, q) == q.endpoint = "single" /\ Gate(c, q)

BatchRequestDecryptionKeyV3(c, q) == q.endpoint = "batch" /\ Gate(c, q)

(* The EVM RPC canister asks the providers for balanceOf at a moment of    *)
(* its own.  Between two messages the wallet may have bought or sold, so   *)
(* the balance it sees is any balance; it may also fail, find the          *)
(* providers disagreeing, or reject the call.                              *)
EthCall(c) ==
  /\ pc[c] = "eth_call"
  /\ pc' = [pc EXCEPT ![c] = "balance"]
  /\ \/ \E b \in Balances :
        /\ seen' = [seen EXCEPT ![c] = [kind |-> "ok", balance |-> b]]
        /\ readings' = readings \union
             {[wallet |-> req[c].wallet, token |-> LowerHex[req[c].token],
               balance |-> b, at |-> now]}
     \/ \E e \in {"EvmRpcError", "Rejected"} :
        /\ seen' = [seen EXCEPT ![c] = [kind |-> e, balance |-> 0]]
        /\ UNCHANGED readings
  /\ UNCHANGED <<now, keyName, stateVars, req, basis, ekey, asked, grants>>
  /\ NoAnswer

(* No balance came back: an error to report, or a rejection that ends the  *)
(* call where it stands.                                                   *)
BalanceUnknown(c) == seen[c].kind # "ok"

(* Broken on purpose: any balance will do. *)
HoldsAnything(c) == seen[c].balance > 0

HoldsEnough(c) == seen[c].balance >= req[c].threshold

(* The continuation of await checkBalance.  The row is stamped with the    *)
(* time of this message, not with the time of the reading.                 *)
CheckBalanceReturns(c) ==
  /\ pc[c] = "balance"
  /\ \/ /\ BalanceUnknown(c)
        /\ Finish(c, seen[c].kind)
        /\ UNCHANGED approvedHolders
     \/ /\ ~ BalanceUnknown(c)
        /\ ~ HoldsEnough(c)
        /\ Finish(c, "InsufficientBalance")
        /\ UNCHANGED approvedHolders
     \/ /\ ~ BalanceUnknown(c)
        /\ HoldsEnough(c)
        /\ approvedHolders' =
             RecordApproval(approvedHolders, ApprovalCacheKey(req[c]), now)
        /\ StartDerive(c, req[c], now)
  /\ UNCHANGED <<now, keyName, usedNonces, cachedKeyV3, grants, readings>>

Grant(c, v) ==
  grants' = grants \union
    {[req |-> req[c], input |-> DerivationInputV3(req[c]), basis |-> basis[c],
      ekey |-> ekey[c], vkey |-> v]}

(* Broken on purpose: the catch branch derives once more, without end. *)
RetryDerivation(c) ==
  /\ pc' = [pc EXCEPT ![c] = "derive"]
  /\ UNCHANGED callVars
  /\ NoAnswer

(* The catch branch of step D. *)
ReportVetKDError(c) == Finish(c, "VetKDError")

(* The continuation of await deriveKeyV3: on a rejection the catch branch; *)
(* otherwise the verification key comes from the memo or is asked for.     *)
DeriveKeyReturns(c) ==
  /\ pc[c] = "derive"
  /\ \/ ReportVetKDError(c) /\ UNCHANGED grants
     \/ /\ cachedKeyV3 # NoKey
        /\ Grant(c, cachedKeyV3)
        /\ Finish(c, "ok")
     \/ /\ cachedKeyV3 = NoKey
        /\ pc' = [pc EXCEPT ![c] = "pubkey"]
        /\ asked' = [asked EXCEPT ![c] = keyName]
        /\ UNCHANGED <<req, seen, basis, ekey, grants>>
        /\ NoAnswer
  /\ UNCHANGED <<now, keyName, stateVars, readings>>

(* The continuation of await vetkd_public_key. *)
PublicKeyReturns(c) ==
  /\ pc[c] = "pubkey"
  /\ \/ ReportVetKDError(c) /\ UNCHANGED <<cachedKeyV3, grants>>
     \/ /\ cachedKeyV3' = asked[c]
        /\ Grant(c, asked[c])
        /\ Finish(c, "ok")
  /\ UNCHANGED <<now, keyName, usedNonces, approvedHolders, readings>>

(* Broken on purpose: a memo that is there is kept. *)
KeepWarmedKey(c) ==
  cachedKeyV3' = IF cachedKeyV3 = NoKey THEN asked[c] ELSE cachedKeyV3

(* What a finished warm-up does to the memo: it replaces it. *)
StoreWarmedKey(c) == cachedKeyV3' = asked[c]

(* warmupVetKDPublicKeyV3, which anyone may call. *)
WarmupVetKDPublicKeyV3(c) ==
  /\ pc[c] = "idle"
  /\ pc' = [pc EXCEPT ![c] = "warmup"]
  /\ asked' = [asked EXCEPT ![c] = keyName]
  /\ UNCHANGED <<now, keyName, stateVars, readings, req, seen, basis, ekey,
                 grants>>
  /\ NoAnswer

WarmupReturns(c) ==
  /\ pc[c] = "warmup"
  /\ \/ Finish(c, "Rejected") /\ UNCHANGED cachedKeyV3
     \/ StoreWarmedKey(c) /\ Finish(c, "ok")
  /\ UNCHANGED <<now, keyName, usedNonces, approvedHolders, readings, grants>>

(* evictExpiredApprovals, called by a controller. *)
EvictExpiredApprovals(maxBatch) ==
  /\ \E D \in Sweeps(ExpiredApprovals(approvedHolders, now), maxBatch) :
       approvedHolders' = Without(approvedHolders, D)
  /\ UNCHANGED <<now, keyName, usedNonces, cachedKeyV3, pc, callVars,
                 readings, grants>>
  /\ NoAnswer

(* An upgrade, which the Motoko runtime refuses while a callback is        *)
(* outstanding.  The persistent actor keeps every map and every memo; the  *)
(* transient key name is read from the environment again.                  *)
Upgrade ==
  /\ \A c \in Calls : pc[c] = "idle"
  /\ keyName' \in KeyNames
  /\ UNCHANGED <<now, stateVars, pc, callVars, readings, grants>>
  /\ NoAnswer

Tick ==
  /\ now < MaxTime
  /\ now' = now + 1
  /\ UNCHANGED <<keyName, stateVars, pc, callVars, readings, grants>>
  /\ NoAnswer

Continue(c) ==
  \/ EthCall(c)
  \/ CheckBalanceReturns(c)
  \/ DeriveKeyReturns(c)
  \/ PublicKeyReturns(c)
  \/ WarmupReturns(c)

Next ==
  \/ \E c \in Calls, q \in Requests :
       \/ RequestDecryptionKeyV3(c, q)
       \/ BatchRequestDecryptionKeyV3(c, q)
  \/ \E c \in Calls : Continue(c) \/ WarmupVetKDPublicKeyV3(c)
  \/ \E m \in EvictBatches : EvictExpiredApprovals(m)
  \/ Upgrade
  \/ Tick

(* The IC answers every inter-canister call, with a reply or a rejection.  *)
Spec == Init /\ [][Next]_vars
FairSpec == Spec /\ \A c \in Calls : WF_vars(Continue(c))
-----------------------------------------------------------------------------
(* Properties. *)

(* A call that passed the signature check and is not answered yet. *)
InFlight(c) == req[c] # NoRequest

(* Two requests with one nonce, or with one signature over nonces that are *)
(* uint256.                                                                *)
SameMessage(q, r) ==
  \/ q.nonce = r.nonce
  \/ Fits(q) /\ Fits(r) /\ q.sig = r.sig

(* A nonce opens the gate at most once, whichever of the two endpoints it  *)
(* is sent to and however the calls interleave, and so does a signature on *)
(* requests whose nonces are uint256: at most one call in flight or key    *)
(* handed out stands on it (main.mo 2073-2079, 2194-2199).  No more is     *)
(* said of a signature: one over the nonce n is one over n + 2^256 too,    *)
(* whose place in usedNonces is another (597-608 against 2075), and it     *)
(* opens the gate for each.                                                *)
NonceSpentOnce ==
  /\ \A c, d \in Calls :
       InFlight(c) /\ InFlight(d) /\ SameMessage(req[c], req[d]) => c = d
  /\ \A c \in Calls, g \in grants : InFlight(c) => ~ SameMessage(req[c], g.req)
  /\ \A g, h \in grants : SameMessage(g.req, h.req) => g = h

(* The chain was seen, no later than t, to credit the wallet with at least *)
(* the threshold.                                                          *)
Proven(w, tok, threshold, t) ==
  \E r \in readings :
    /\ r.wallet = w
    /\ r.token = tok
    /\ r.balance >= threshold
    /\ r.at <= t

(* Every row of the approval cache stands on a reading of the chain that   *)
(* was sufficient for exactly that wallet, token and threshold: failures   *)
(* and insufficient balances never reach the cache (main.mo 1692-1710).    *)
RowsProven ==
  \A k \in ApprovalKeys :
    approvedHolders[k] # NoRow =>
      /\ approvedHolders[k] <= now
      /\ Proven(k.wallet, k.token, k.threshold, approvedHolders[k])

(* A key for (token, threshold, epoch) with a threshold is handed out only *)
(* to a wallet that signed for that epoch and transport key, that the      *)
(* chain was seen to hold the threshold, on an approval that had not       *)
(* reached its TTL when the call passed, and not before the epoch began.   *)
(* (requestDecryptionKeyV3 and its batch, steps 0 to D.)                   *)
KeysOnlyForHolders ==
  \A g \in grants :
    /\ g.req.sig.signer = g.req.wallet
    /\ g.req.sig.over = StructHashV3(g.req)
    /\ g.input.epoch <= g.basis.passedAt \div EpochLength
    /\ g.input.threshold # 0 =>
         /\ g.input.epoch = g.req.sig.over.epoch
         /\ Proven(g.req.wallet, LowerHex[g.input.token], g.input.threshold,
                   g.basis.verifiedAt)
         /\ g.basis.verifiedAt <= g.basis.passedAt
         /\ g.basis.passedAt < g.basis.verifiedAt + ApprovalTTL

(* A step that changes the memo, or ends a warm-up well.                   *)
MemoIsCurrent ==
  /\ cachedKeyV3' # cachedKeyV3 => cachedKeyV3' = keyName'
  /\ \A c \in Calls :
       pc[c] = "warmup" /\ pc'[c] = "idle" /\ answer' = "ok"
         => cachedKeyV3' = keyName'

(* A memo that changes takes the key name of the running version, and a    *)
(* warm-up that succeeds leaves that name behind: no fetch started before  *)
(* a rotation of VETKD_KEY_NAME ends after it, so one warm-up ends the     *)
(* mismatch that the rotation left (main.mo 1147-1159, 2135-2146).         *)
MemoFollowsRotation == [][MemoIsCurrent]_vars

(* The approval cache keeps the promise of LiveRows: looking a row up,     *)
(* dropping it when stale, the janitor in batches of any size and the      *)
(* upgrade change nothing about which approvals are alive.                 *)
Live == [k \in ApprovalKeys |->
           IF IsApprovedHolder(approvedHolders, k, now)
             THEN approvedHolders[k] ELSE NoRow]

Promise == INSTANCE LiveRows
             WITH Keys <- ApprovalKeys, TTL <- ApprovalTTL, live <- Live

ApprovalsKeepPromise == Promise!Spec

(* Every call the canister took up is answered, whatever the EVM RPC       *)
(* canister and the VetKD answer, as long as they answer.                  *)
EveryCallAnswered == \A c \in Calls : pc[c] # "idle" ~> pc[c] = "idle"

(* What main.mo 1640-1646 and README.md say of the cache: an approval does *)
(* not outlive the epoch it was recorded in, so that a call which passes   *)
(* on a cached row passes in the epoch of the row.                         *)
RowsRotateWithEpoch ==
  \A c \in Calls :
    basis[c] # NoBasis =>
      basis[c].verifiedAt \div EpochLength = basis[c].passedAt \div EpochLength

=============================================================================
