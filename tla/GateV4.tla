------------------------------- MODULE GateV4 -------------------------------
(***************************************************************************)
(* The protocol-v4 gate of the canister (src/backend/main.mo): the holder  *)
(* gate and its approval cache, the market-cap gate, the pricing of a      *)
(* token on its Bond curve with the caches behind it, getMarketCap, the    *)
(* Bond table and its setter, the two janitors and the upgrade.            *)
(*                                                                         *)
(* As in GateV3, an action is one message.  An inner async function of the *)
(* actor runs in a message of its own, so there is a gap between the await *)
(* that calls it and its first line, and one between its last line and the *)
(* caller's next.  The gaps are kept where what lies on the other side     *)
(* reads or writes the canister's state, and left out elsewhere.           *)
(***************************************************************************)
EXTENDS ApprovalCache, MarketCapCache, TypedData

CONSTANTS
  Calls,         \* slots for calls in flight
  GateRequests,  \* the GateRequestV4 records clients send
  CapRequests,   \* the arguments clients call getMarketCap with
  Transports,    \* transport public keys
  Targets,       \* values of marketCapTarget, in whole reserve units
  Chains,
  ChainOf,       \* the chain of a token
  Contracts,     \* lowercased addresses requests may name as oracleAddress
  DefaultConfig, \* the compiled-in BondConfig of each chain
  Overrides,     \* the BondConfig values a controller may set
  ReserveOf,     \* tokenBond(token).reserveToken on a Bond contract
  UnitOf,        \* 10^decimals() of a token
  Supplies,      \* values of totalSupply()
  Prices,        \* values of priceForNextMint()
  Balances,      \* values of balanceOf()
  EpochLength,   \* EPOCH_LENGTH_SECONDS, in clock ticks
  MaxTime,       \* bound on the clock
  KeyNames,      \* values of VETKD_KEY_NAME
  Batches,       \* the maxBatch values the operator passes to a janitor
  NoRequest, NoBasis, NoQuote, NoWork, NoConfig, NoUnit, NoKey

BondConfigs == [bond : Contracts, wrappedNative : Tokens]

Messages ==
  [wallet : Wallets, transport : Transports, epoch : Nat,
   target : Nat, nonce : Nonces]

(* A signature is the wallet that made it and the message it was made for. *)
Signatures == [signer : Wallets, over : Messages]

(* wellFormed stands for the checks on the form of the four addresses, the *)
(* transport key and the signature bytes.                                  *)
GateRequestV4 ==
  [kind : {"gate"}, token : Tokens, threshold : Thresholds, epoch : Epochs,
   target : Targets, oracle : Contracts, wallet : Wallets,
   transport : Transports, nonce : Nonces, wellFormed : BOOLEAN,
   sig : Signatures]

CapRequest == [kind : {"cap"}, token : Tokens, oracle : Contracts]

ASSUME GateConstants ==
  /\ GateRequests \subseteq GateRequestV4
  /\ CapRequests \subseteq CapRequest
  /\ Targets \subseteq Nat
  /\ ChainOf \in [Tokens -> Chains]
  /\ \A tok \in Tokens : ChainOf[LowerHex[tok]] = ChainOf[tok]
  /\ DefaultConfig \in [Chains -> BondConfigs]
  /\ Overrides \subseteq BondConfigs
  /\ ReserveOf \in [Contracts \X Tokens -> Tokens]
  /\ UnitOf \in [Tokens -> Nat \ {0}]
  /\ Supplies \subseteq Nat /\ Prices \subseteq Nat /\ Balances \subseteq Nat
  /\ EpochLength \in Nat \ {0}
  /\ MaxTime \in Nat /\ MaxTime < Width
  /\ Batches \subseteq Nat
  /\ NoRequest \notin GateRequests \union CapRequests
  /\ NoConfig \notin BondConfigs
  /\ NoUnit \notin Nat
  /\ NoKey \notin KeyNames

VARIABLES
  now,                \* the canister's clock
  usedNonces,         \* the v4 scope of usedNonces
  approvedHolders,    \* the approval cache, shared with protocol v3
  marketCapCache,     \* the burst cache
  tokenDecimalsCache, \* the permanent cache of decimals, as units
  bondConfig,         \* the table of Bond overrides
  keyName,            \* VETKD_KEY_NAME of the running version
  cachedKeyV4,        \* cachedVetKDPublicKeyV4: the key name it was fetched under
  pc,                 \* where each call waits
  req,                \* the request of each call
  basis,              \* of a call past the holder gate: the approval's time
  work,               \* what a refresh has read so far
  quote,              \* of a call past the cap gate: the snapshot, and when
  answer,             \* the answer the last message gave, if it gave one
  readings,           \* history: every balance the chain was seen to have
  prices,             \* history: every cap that was computed, and from what
  grants              \* history: every key handed out

callVars  == <<req, basis, work, quote>>
gateVars  == <<usedNonces, approvedHolders>>
priceVars == <<marketCapCache, tokenDecimalsCache, bondConfig>>
history   == <<readings, prices, grants>>
vars == <<now, gateVars, priceVars, keyName, cachedKeyV4, pc, callVars, answer, history>>

Requests == GateRequests \union CapRequests
Waiting == {"balance", "refresh", "tokenBond", "tokenDecimals", "reserveDecimals",
            "totalSupply", "priceForNextMint", "recorded", "derive", "pubkey", "warmup"}
Bases == [verifiedAt : Nat, passedAt : Nat]
Quotes == [row : Snapshots, passedAt : Nat]
Units == Nat \ {0}

Works == [cfg : BondConfigs, tokenUnit : Units, reserveUnit : Units,
          supply : Nat]

Readings == [wallet : Wallets, token : Tokens, balance : Nat, at : Nat]
Priced == [token : Tokens, bond : Contracts, supply : Nat, price : Nat,
           row : Snapshots]
Inputs == [token : Tokens, threshold : Thresholds, epoch : Epochs \union {0},
           target : Targets]
Grants == [req : GateRequests, input : Inputs, basis : Bases, quote : Quotes]

Errors ==
  {"InvalidEpoch", "InvalidRequest", "NonceAlreadyUsed", "InvalidSignature",
   "EvmRpcError", "InsufficientBalance", "InvalidOracle",
   "MarketCapNotReached", "VetKDError", "Rejected"}
Answers == [kind : Errors \union {"none", "ok"}, required : Nat, actual : Nat]

Say(kind) == [kind |-> kind, required |-> 0, actual |-> 0]

TypeOK ==
  /\ now \in 0..MaxTime
  /\ usedNonces \subseteq Nonces
  /\ approvedHolders \in ApprovalRows
  /\ marketCapCache \in CapRows
  /\ tokenDecimalsCache \in [Tokens -> Units \union {NoUnit}]
  /\ bondConfig \in [Chains -> BondConfigs \union {NoConfig}]
  /\ keyName \in KeyNames
  /\ cachedKeyV4 \in KeyNames \union {NoKey}
  /\ pc \in [Calls -> Waiting \union {"idle"}]
  /\ req \in [Calls -> Requests \union {NoRequest}]
  /\ basis \in [Calls -> Bases \union {NoBasis}]
  /\ work \in [Calls -> Works \union {NoWork}]
  /\ quote \in [Calls -> Quotes \union {NoQuote}]
  /\ answer \in Answers
  /\ readings \subseteq Readings
  /\ prices \subseteq Priced
  /\ grants \subseteq Grants

-----------------------------------------------------------------------------
(* Pure helpers of main.mo. *)

CurrentEpoch == now \div EpochLength

EpochStarted(q) == q.epoch <= CurrentEpoch

(* Broken on purpose: the target became part of the scope. *)
NonceKeyPerTarget(q) == [q.nonce EXCEPT !.domain = <<@, q.target>>]

(* The scope of the replay check takes the number as it came. *)
NonceKey(q) == q.nonce

(* The struct the client signs commits to the unlock target.  Neither the  *)
(* token, nor the threshold, nor the oracle is part of it.                 *)
StructHashV4(q) ==
  [wallet |-> q.wallet, transport |-> q.transport,
   epoch |-> encodeUint256(q.epoch), target |-> encodeUint256(q.target),
   nonce |-> EncodedNonce(q.nonce)]

(* ecrecover over the digest gives the address the request claims. *)
SignedByWallet(q) == q.sig = [signer |-> q.wallet, over |-> StructHashV4(q)]

(* The token goes in as it is spelled, and the free tier has one epoch. *)
DerivationInputV4(q) ==
  [token |-> q.token, threshold |-> q.threshold,
   epoch |-> IF q.threshold = 0 THEN 0 ELSE q.epoch, target |-> q.target]

(* An entry a controller set wins over the compiled-in default. *)
GetBondConfigInternal(tok) ==
  LET ch == ChainOf[tok] IN
  IF bondConfig[ch] = NoConfig THEN DefaultConfig[ch] ELSE bondConfig[ch]

IsBondOracle(q) == q.oracle = GetBondConfigInternal(q.token).bond

-----------------------------------------------------------------------------
Init ==
  /\ now = 0
  /\ usedNonces = {}
  /\ approvedHolders = EmptyApprovals
  /\ marketCapCache = EmptyCaps
  /\ tokenDecimalsCache = [k \in Tokens |-> NoUnit]
  /\ bondConfig = [ch \in Chains |-> NoConfig]
  /\ keyName \in KeyNames
  /\ cachedKeyV4 = NoKey
  /\ pc = [c \in Calls |-> "idle"]
  /\ req = [c \in Calls |-> NoRequest]
  /\ basis = [c \in Calls |-> NoBasis]
  /\ work = [c \in Calls |-> NoWork]
  /\ quote = [c \in Calls |-> NoQuote]
  /\ answer = Say("none")
  /\ readings = {} /\ prices = {} /\ grants = {}

NoAnswer == answer' = Say("none")

(* The call is over; its context is gone. *)
Finish(c, a) ==
  /\ pc' = [pc EXCEPT ![c] = "idle"]
  /\ req' = [req EXCEPT ![c] = NoRequest]
  /\ basis' = [basis EXCEPT ![c] = NoBasis]
  /\ work' = [work EXCEPT ![c] = NoWork]
  /\ quote' = [quote EXCEPT ![c] = NoQuote]
  /\ answer' = a

GoOn(c, place) ==
  /\ pc' = [pc EXCEPT ![c] = place]
  /\ NoAnswer

(* An awaited call failed: with an error to report as e, or by a rejection *)
(* that ends the caller where it stands.                                   *)
AwaitFails(c, e) == \E a \in {e, "Rejected"} : Finish(c, Say(a))

(* Step E begins: deriveKeyV4 is sent. *)
StartDerive(c, q, b, row) ==
  /\ GoOn(c, "derive")
  /\ req' = [req EXCEPT ![c] = q]
  /\ basis' = [basis EXCEPT ![c] = b]
  /\ quote' = [quote EXCEPT ![c] = [row |-> row, passedAt |-> now]]
  /\ UNCHANGED work

(* Broken on purpose: the error reports the cap unscaled. *)
ReportRaw(q, row) ==
  [kind |-> "MarketCapNotReached", required |-> q.target, actual |-> row.capScaled]

ReportMarketCap(q, row) ==
  [kind |-> "MarketCapNotReached", required |-> q.target, actual |-> WholeUnits(row)]

(* The comparison that ends step D. *)
CompareCap(c, q, b, row) ==
  \/ CapReached(row, q.target) /\ StartDerive(c, q, b, row)
  \/ ~ CapReached(row, q.target) /\ Finish(c, ReportMarketCap(q, row))

(* getMarketCapInternal is called.  b is NoBasis when getMarketCap calls.  *)
StartRefresh(c, q, b) ==
  /\ GoOn(c, "refresh")
  /\ req' = [req EXCEPT ![c] = q]
  /\ basis' = [basis EXCEPT ![c] = b]
  /\ UNCHANGED <<work, quote>>

(* Step D, up to the comparison or to the await.  A row that is not fresh  *)
(* is deleted before the refresh begins.                                   *)
MarketCapGate(c, q, b) ==
  LET row == CachedMarketCap(marketCapCache, q.token, now) IN
  \/ /\ ~ IsBondOracle(q)
     /\ Finish(c, Say("InvalidOracle"))
     /\ UNCHANGED marketCapCache
  \/ /\ IsBondOracle(q)
     /\ row # NoSnapshot
     /\ CompareCap(c, q, b, row)
     /\ UNCHANGED marketCapCache
  \/ /\ IsBondOracle(q)
     /\ row = NoSnapshot
     /\ marketCapCache' = AfterLookup(marketCapCache, q.token, now)
     /\ StartRefresh(c, q, b)

(* Step C is passed, on an approval of time r. *)
PassHolderGate(c, q, r) ==
  MarketCapGate(c, q, [verifiedAt |-> r, passedAt |-> now])

(* An answer given within the message that brought the request. *)
AnswerAtOnce(e) ==
  /\ answer' = Say(e)
  /\ UNCHANGED <<pc, callVars>>

(* Steps 0, A and the replay check. *)
RefusedOnSight(q) ==
  /\ \/ ~ EpochStarted(q) /\ AnswerAtOnce("InvalidEpoch")
     \/ EpochStarted(q) /\ ~ q.wellFormed /\ AnswerAtOnce("InvalidRequest")
     \/ /\ EpochStarted(q) /\ q.wellFormed
        /\ NonceKey(q) \in usedNonces
        /\ AnswerAtOnce("NonceAlreadyUsed")
  /\ UNCHANGED <<gateVars, marketCapCache>>

(* The rest of step B, step C, and step D when no balance has to be asked  *)
(* for.  The nonce is consumed whatever becomes of the call.               *)
Admitted(c, q) ==
  LET k == ApprovalCacheKey(q) IN
  /\ EpochStarted(q) /\ q.wellFormed
  /\ NonceKey(q) \notin usedNonces
  /\ usedNonces' = usedNonces \union {NonceKey(q)}
  /\ \/ /\ ~ SignedByWallet(q)
        /\ AnswerAtOnce("InvalidSignature")
        /\ UNCHANGED <<approvedHolders, marketCapCache>>
     \/ /\ SignedByWallet(q)
        /\ q.threshold = 0
        /\ PassHolderGate(c, q, now)
        /\ UNCHANGED approvedHolders
     \/ /\ SignedByWallet(q)
        /\ q.threshold # 0
        /\ IsApprovedHolder(approvedHolders, k, now)
        /\ PassHolderGate(c, q, approvedHolders[k])
        /\ UNCHANGED approvedHolders
     \/ /\ SignedByWallet(q)
        /\ q.threshold # 0
        /\ ~ IsApprovedHolder(approvedHolders, k, now)
        /\ approvedHolders' = DropIfStale(approvedHolders, k, now)
        /\ GoOn(c, "balance")
        /\ req' = [req EXCEPT ![c] = q]
        /\ UNCHANGED <<basis, work, quote, marketCapCache>>

RequestDecryptionKeyV4(c, q) ==
  /\ pc[c] = "idle"
  /\ RefusedOnSight(q) \/ Admitted(c, q)
  /\ UNCHANGED <<now, tokenDecimalsCache, bondConfig, keyName, cachedKeyV4, history>>

(* checkBalance comes back.  The providers read the chain at a moment of   *)
(* their own before that; what they saw is any balance.                    *)
CheckBalanceReturns(c) ==
  LET q == req[c] IN
  /\ pc[c] = "balance"
  /\ \/ /\ AwaitFails(c, "EvmRpcError")
        /\ UNCHANGED <<approvedHolders, marketCapCache, readings>>
     \/ \E b \in Balances :
        /\ readings' = readings \union
             {[wallet |-> q.wallet, token |-> LowerHex[q.token],
               balance |-> b, at |-> now]}
        /\ \/ /\ b < q.threshold
              /\ Finish(c, [kind |-> "InsufficientBalance",
                            required |-> q.threshold, actual |-> b])
              /\ UNCHANGED <<approvedHolders, marketCapCache>>
           \/ /\ b >= q.threshold
              /\ approvedHolders' =
                   RecordApproval(approvedHolders, ApprovalCacheKey(q), now)
              /\ PassHolderGate(c, q, now)
  /\ UNCHANGED <<now, usedNonces, tokenDecimalsCache, bondConfig, keyName,
                 cachedKeyV4, prices, grants>>

(* getMarketCap.  Its textual errors are called InvalidOracle here. *)
GetMarketCap(c, r) ==
  LET row == CachedMarketCap(marketCapCache, r.token, now) IN
  /\ pc[c] = "idle"
  /\ \/ ~ IsBondOracle(r) /\ AnswerAtOnce("InvalidOracle") /\ UNCHANGED marketCapCache
     \/ /\ IsBondOracle(r)
        /\ row # NoSnapshot
        /\ AnswerAtOnce("ok")
        /\ UNCHANGED marketCapCache
     \/ /\ IsBondOracle(r)
        /\ row = NoSnapshot
        /\ marketCapCache' = AfterLookup(marketCapCache, r.token, now)
        /\ StartRefresh(c, r, NoBasis)
  /\ UNCHANGED <<now, gateVars, tokenDecimalsCache, bondConfig, keyName,
                 cachedKeyV4, history>>

-----------------------------------------------------------------------------
(* getMarketCapInternal and the probes it makes, one message each.         *)

(* The first line: the Bond table is read once, for the whole refresh. *)
RefreshStarts(c) ==
  /\ pc[c] = "refresh"
  /\ GoOn(c, "tokenBond")
  /\ work' = [work EXCEPT ![c] =
       [cfg |-> GetBondConfigInternal(req[c].token), tokenUnit |-> 1,
        reserveUnit |-> 1, supply |-> 0]]
  /\ UNCHANGED <<now, gateVars, priceVars, keyName, cachedKeyV4, req, basis,
                 quote, history>>

(* Broken on purpose: a refresh that failed begins again, without end. *)
RefreshAgain(c) == StartRefresh(c, req[c], basis[c])

ProbeFails(c) == AwaitFails(c, "InvalidOracle")

(* Only a token whose reserve is the chain's wrapped native is priced. *)
TokenBondReturns(c) ==
  LET cfg     == work[c].cfg
      reserve == ReserveOf[<<cfg.bond, LowerHex[req[c].token]>>] IN
  /\ pc[c] = "tokenBond"
  /\ \/ ProbeFails(c)
     \/ LowerHex[reserve] # LowerHex[cfg.wrappedNative] /\ Finish(c, Say("InvalidOracle"))
     \/ /\ LowerHex[reserve] = LowerHex[cfg.wrappedNative]
        /\ GoOn(c, "tokenDecimals")
        /\ UNCHANGED callVars
  /\ UNCHANGED <<now, gateVars, priceVars, keyName, cachedKeyV4, history>>

(* fetchTokenDecimals: the unit of a token that is not cached is asked for *)
(* and cached for good.                                                    *)
CachedUnit(k) ==
  IF tokenDecimalsCache[k] = NoUnit THEN UnitOf[k] ELSE tokenDecimalsCache[k]

KeepUnit(k) ==
  tokenDecimalsCache' = [tokenDecimalsCache EXCEPT ![k] = CachedUnit(k)]

(* A probe that missed may fail even if the row was filled meanwhile.      *)
TokenDecimalsReturns(c) ==
  LET k == LowerHex[req[c].token] IN
  /\ pc[c] = "tokenDecimals"
  /\ \/ ProbeFails(c) /\ UNCHANGED tokenDecimalsCache
     \/ /\ KeepUnit(k)
        /\ work' = [work EXCEPT ![c].tokenUnit = CachedUnit(k)]
        /\ GoOn(c, "reserveDecimals")
        /\ UNCHANGED <<req, basis, quote>>
  /\ UNCHANGED <<now, gateVars, marketCapCache, bondConfig, keyName, cachedKeyV4,
                 history>>

(* Broken on purpose: looks into the Bond table again. *)
ReserveNow(c) == LowerHex[GetBondConfigInternal(req[c].token).wrappedNative]

Reserve(c) == LowerHex[work[c].cfg.wrappedNative]

ReserveDecimalsReturns(c) ==
  LET k == Reserve(c) IN
  /\ pc[c] = "reserveDecimals"
  /\ \/ ProbeFails(c) /\ UNCHANGED tokenDecimalsCache
     \/ /\ KeepUnit(k)
        /\ work' = [work EXCEPT ![c].reserveUnit = CachedUnit(k)]
        /\ GoOn(c, "totalSupply")
        /\ UNCHANGED <<req, basis, quote>>
  /\ UNCHANGED <<now, gateVars, marketCapCache, bondConfig, keyName, cachedKeyV4,
                 history>>

TotalSupplyReturns(c) ==
  /\ pc[c] = "totalSupply"
  /\ \/ ProbeFails(c)
     \/ \E s \in Supplies :
        /\ work' = [work EXCEPT ![c].supply = s]
        /\ GoOn(c, "priceForNextMint")
        /\ UNCHANGED <<req, basis, quote>>
  /\ UNCHANGED <<now, gateVars, priceVars, keyName, cachedKeyV4, history>>

CapOf(w, p) == CapReserveWei(w.supply, p, w.tokenUnit)

(* The last probe, the arithmetic and recordMarketCap.  The row is stamped *)
(* with the time of this message.  A price of zero is an error.            *)
PriceForNextMintReturns(c) ==
  LET w == work[c]
      k == MarketCapCacheKey(req[c].token) IN
  /\ pc[c] = "priceForNextMint"
  /\ \/ ProbeFails(c) /\ UNCHANGED <<marketCapCache, prices>>
     \/ \E p \in Prices :
        \/ /\ p = 0
           /\ Finish(c, Say("InvalidOracle"))
           /\ UNCHANGED <<marketCapCache, prices>>
        \/ /\ p # 0
           /\ marketCapCache' = RecordMarketCap(marketCapCache, req[c].token,
                                                CapOf(w, p), w.reserveUnit, now)
           /\ prices' = prices \union
                {[token |-> k, bond |-> w.cfg.bond, supply |-> w.supply,
                  price |-> p, row |-> marketCapCache'[k]]}
           /\ work' = [work EXCEPT ![c] = NoWork]
           /\ GoOn(c, "recorded")
           /\ UNCHANGED <<req, basis, quote>>
  /\ UNCHANGED <<now, gateVars, tokenDecimalsCache, bondConfig, keyName,
                 cachedKeyV4, readings, grants>>

(* The caller of a refresh that succeeded goes on.  The gate looks the row *)
(* up again, in its own message: it may by now be another refresh's row,   *)
(* or old.                                                                 *)
RefreshReturns(c) ==
  LET q   == req[c]
      row == CachedMarketCap(marketCapCache, q.token, now) IN
  /\ pc[c] = "recorded"
  /\ \/ /\ q.kind = "cap"
        /\ Finish(c, Say("ok"))
        /\ UNCHANGED marketCapCache
     \/ /\ q.kind = "gate"
        /\ marketCapCache' = AfterLookup(marketCapCache, q.token, now)
        /\ \/ row # NoSnapshot /\ CompareCap(c, q, basis[c], row)
           \/ row = NoSnapshot /\ Finish(c, Say("InvalidOracle"))
  /\ UNCHANGED <<now, gateVars, tokenDecimalsCache, bondConfig, keyName,
                 cachedKeyV4, history>>

-----------------------------------------------------------------------------
Grant(c) ==
  grants' = grants \union
    {[req |-> req[c], input |-> DerivationInputV4(req[c]), basis |-> basis[c],
      quote |-> quote[c]]}

(* The catch branch of step E. *)
ReportVetKDError(c) == Finish(c, Say("VetKDError"))

DeriveKeyReturns(c) ==
  /\ pc[c] = "derive"
  /\ \/ ReportVetKDError(c) /\ UNCHANGED grants
     \/ cachedKeyV4 # NoKey /\ Grant(c) /\ Finish(c, Say("ok"))
     \/ cachedKeyV4 = NoKey /\ GoOn(c, "pubkey") /\ UNCHANGED <<callVars, grants>>
  /\ UNCHANGED <<now, gateVars, priceVars, keyName, cachedKeyV4, readings, prices>>

(* The key name cannot change while the answer is outstanding: an upgrade  *)
(* waits for all callbacks.                                                *)
PublicKeyReturns(c) ==
  /\ pc[c] = "pubkey"
  /\ \/ ReportVetKDError(c) /\ UNCHANGED <<cachedKeyV4, grants>>
     \/ /\ cachedKeyV4' = keyName
        /\ Grant(c)
        /\ Finish(c, Say("ok"))
  /\ UNCHANGED <<now, gateVars, priceVars, keyName, readings, prices>>

WarmupVetKDPublicKeyV4(c) ==
  /\ pc[c] = "idle"
  /\ GoOn(c, "warmup")
  /\ UNCHANGED <<now, gateVars, priceVars, keyName, cachedKeyV4, callVars, history>>

WarmupReturns(c) ==
  /\ pc[c] = "warmup"
  /\ \/ Finish(c, Say("Rejected")) /\ UNCHANGED cachedKeyV4
     \/ Finish(c, Say("ok")) /\ cachedKeyV4' = keyName
  /\ UNCHANGED <<now, gateVars, priceVars, keyName, history>>

-----------------------------------------------------------------------------
(* The operator, the clock. *)

Operator == NoAnswer /\ UNCHANGED <<now, pc, callVars, usedNonces, history>>

(* Callers who are not controllers, and malformed addresses, trap. *)
SetBondConfig(ch, cfg) ==
  /\ bondConfig' = [bondConfig EXCEPT ![ch] = cfg]
  /\ UNCHANGED <<approvedHolders, marketCapCache, tokenDecimalsCache, keyName, cachedKeyV4>>
  /\ Operator

EvictExpiredApprovals(maxBatch) ==
  /\ \E D \in Sweeps(ExpiredApprovals(approvedHolders, now), maxBatch) :
       approvedHolders' = Without(approvedHolders, D)
  /\ UNCHANGED <<priceVars, keyName, cachedKeyV4>>
  /\ Operator

EvictExpiredMarketCaps(maxBatch) ==
  /\ \E D \in Sweeps(ExpiredCaps(marketCapCache, now), maxBatch) :
       marketCapCache' = CapsWithout(marketCapCache, D)
  /\ UNCHANGED <<approvedHolders, tokenDecimalsCache, bondConfig, keyName, cachedKeyV4>>
  /\ Operator

(* An upgrade, which waits until no callback is outstanding.  The actor is *)
(* persistent: every let-bound map stays as it is, the Bond table too.     *)
Upgrade ==
  /\ \A c \in Calls : pc[c] = "idle"
  /\ keyName' \in KeyNames
  /\ UNCHANGED <<approvedHolders, priceVars, cachedKeyV4>>
  /\ Operator

Tick ==
  /\ now < MaxTime
  /\ now' = now + 1
  /\ NoAnswer
  /\ UNCHANGED <<gateVars, priceVars, keyName, cachedKeyV4, pc, callVars, history>>

Refresh(c) ==
  \/ RefreshStarts(c)
  \/ TokenBondReturns(c)
  \/ TokenDecimalsReturns(c)
  \/ ReserveDecimalsReturns(c)
  \/ TotalSupplyReturns(c)
  \/ PriceForNextMintReturns(c)
  \/ RefreshReturns(c)

Continue(c) ==
  \/ CheckBalanceReturns(c)
  \/ Refresh(c)
  \/ DeriveKeyReturns(c)
  \/ PublicKeyReturns(c)
  \/ WarmupReturns(c)

Next ==
  \/ \E c \in Calls, q \in GateRequests : RequestDecryptionKeyV4(c, q)
  \/ \E c \in Calls, r \in CapRequests : GetMarketCap(c, r)
  \/ \E c \in Calls : Continue(c) \/ WarmupVetKDPublicKeyV4(c)
  \/ \E ch \in Chains, cfg \in Overrides : SetBondConfig(ch, cfg)
  \/ \E m \in Batches : EvictExpiredApprovals(m) \/ EvictExpiredMarketCaps(m)
  \/ Upgrade
  \/ Tick

(* The IC answers every inter-canister call, with a reply or a rejection.  *)
Spec == Init /\ [][Next]_vars
FairSpec == Spec /\ \A c \in Calls : WF_vars(Continue(c))

-----------------------------------------------------------------------------
(* Properties. *)

InFlight(c) == req[c] # NoRequest /\ req[c].kind = "gate"

(* Two requests with one nonce, or with one signature over nonces that are *)
(* uint256.                                                                *)
SameMessage(q, r) ==
  \/ q.nonce = r.nonce
  \/ Fits(q) /\ Fits(r) /\ q.sig = r.sig

(* A nonce opens the v4 gate at most once, however the calls interleave,   *)
(* and so does a signature on requests whose nonces are uint256            *)
(* (requestDecryptionKeyV4, the replay check of step B).  No more is said  *)
(* of a signature: one over the nonce n is one over n + 2^256 too, whose   *)
(* place in usedNonces is another (597-608 against 2337), and it opens the *)
(* gate for each.                                                          *)
NonceSpentOnce ==
  /\ \A c, d \in Calls :
       InFlight(c) /\ InFlight(d) /\ SameMessage(req[c], req[d]) => c = d
  /\ \A c \in Calls, g \in grants : InFlight(c) => ~ SameMessage(req[c], g.req)
  /\ \A g, h \in grants : SameMessage(g.req, h.req) => g = h

(* Every row of the burst cache is a cap computed in one refresh from a    *)
(* supply and a non-zero price of that token, read on one Bond whose       *)
(* reserve for the token is a wrapped native the operator configured, and  *)
(* scaled by the decimals the chain has for the token and for the reserve  *)
(* (getMarketCapInternal, fetchTokenDecimals, recordMarketCap).            *)
SnapshotsPriced ==
  \A k \in Tokens :
    marketCapCache[k] # NoSnapshot =>
      \E p \in prices :
        LET reserve == LowerHex[ReserveOf[<<p.bond, k>>]] IN
        /\ p.token = k
        /\ p.row = marketCapCache[k]
        /\ p.price # 0
        /\ \E cfg \in Overrides \union {DefaultConfig[ChainOf[k]]} :
             cfg.bond = p.bond /\ LowerHex[cfg.wrappedNative] = reserve
        /\ p.row.capScaled = (p.supply * p.price) \div UnitOf[k]
        /\ p.row.unit = UnitOf[reserve]

(* A chunk key is handed out only to a signer of exactly its epoch and,    *)
(* if it is a uint256, its target, for a token the signer was seen to      *)
(* hold, and on a snapshot of that token that reached the target and had   *)
(* not outlived its TTL (requestDecryptionKeyV4, steps B to E).            *)
ChunkKeysEarned ==
  \A g \in grants :
    /\ g.req.sig.signer = g.req.wallet
    /\ g.req.sig.over = StructHashV4(g.req)
    /\ g.input.target < Width => g.input.target = g.req.sig.over.target
    /\ g.input.threshold # 0 =>
         /\ g.input.epoch = g.req.sig.over.epoch
         /\ g.basis.passedAt < g.basis.verifiedAt + ApprovalTTL
         /\ \E r \in readings :
              /\ r.wallet = g.req.wallet
              /\ r.token = LowerHex[g.input.token]
              /\ r.balance >= g.input.threshold
              /\ r.at <= g.basis.verifiedAt
    /\ \E p \in prices : p.token = LowerHex[g.input.token] /\ p.row = g.quote.row
    /\ g.quote.row.capScaled >= g.input.target * g.quote.row.unit
    /\ g.quote.passedAt - g.quote.row.fetchedAt <= CapTTL

(* A reader who is told that the cap is not reached is told a cap below    *)
(* the target, rounding included (main.mo, the error that ends step D).    *)
NotReachedIsBelow ==
  answer.kind = "MarketCapNotReached" => answer.actual < answer.required

(* The burst cache keeps the promise of LiveRows: a snapshot lives its TTL *)
(* and no longer, and neither a refresh that fails, nor a lookup, nor the  *)
(* janitor, nor a change of the Bond table ends its life or prolongs it.   *)
LiveCaps == [k \in Tokens |->
               IF IsFreshCap(marketCapCache[k], now)
                 THEN marketCapCache[k].fetchedAt ELSE NoSnapshot]

Promise == INSTANCE LiveRows
             WITH Keys <- Tokens, TTL <- CapTTL + 1, live <- LiveCaps,
                  NoRow <- NoSnapshot

SnapshotsKeepPromise == Promise!Spec

(* Every call is answered, whatever the EVM RPC canister and the VetKD     *)
(* answer, as long as they answer.                                         *)
EveryCallAnswered == \A c \in Calls : pc[c] # "idle" ~> pc[c] = "idle"

(* What the comments and the README say.                                   *)

(* "entries must be re-set after every canister upgrade" (main.mo 298-299, *)
(* 374-375): an upgrade forgets the overrides of the Bond table.           *)
UpgradeForgetsOverrides ==
  [][Upgrade => \A ch \in Chains : bondConfig'[ch] = NoConfig]_vars

=============================================================================
