---------------------------- MODULE GateV4Proofs ----------------------------
(***************************************************************************)
(* Proofs about the protocol-v4 gate, the pricing of a token and the cache *)
(* of caps, for every number of calls, wallets, tokens and Bond contracts, *)
(* every supply and price and every clock bound.                           *)
(***************************************************************************)
EXTENDS GateV4, TLAPS

USE DEF Errors, Waiting, Reserve

(* The places of a refresh, and those of them that carry what it has read. *)
Probing == {"tokenBond", "tokenDecimals", "reserveDecimals", "totalSupply",
            "priceForNextMint"}
Refreshing == Probing \union {"refresh", "recorded"}

(* What a call carries at each place where it waits. *)
CallShape ==
  \A c \in Calls :
    /\ pc[c] \in {"idle", "warmup"} => req[c] = NoRequest
    /\ pc[c] \in {"balance", "derive", "pubkey"} => req[c] \in GateRequests
    /\ pc[c] \in Refreshing => req[c] \in Requests
    /\ pc[c] \in Refreshing /\ req[c] \in GateRequests => basis[c] \in Bases
    /\ pc[c] \in Probing => work[c] \in Works
    /\ pc[c] \in {"derive", "pubkey"} => basis[c] \in Bases /\ quote[c] \in Quotes

(* The part of TypeOK that is about calls. *)
CallsTyped ==
  /\ pc \in [Calls -> Waiting \union {"idle"}]
  /\ req \in [Calls -> Requests \union {NoRequest}]
  /\ basis \in [Calls -> Bases \union {NoBasis}]
  /\ work \in [Calls -> Works \union {NoWork}]
  /\ quote \in [Calls -> Quotes \union {NoQuote}]
  /\ answer \in Answers
  /\ CallShape

TypeInv == TypeOK /\ CallShape

-----------------------------------------------------------------------------
(* Facts about the helpers. *)

LEMMA GateFields ==
  ASSUME NEW q \in GateRequests
  PROVE  /\ q # NoRequest
         /\ q.kind = "gate"
         /\ q.token \in Tokens
         /\ LowerHex[q.token] \in Tokens
         /\ q.threshold \in Thresholds
         /\ q.threshold \in Nat
         /\ q.epoch \in Epochs
         /\ q.target \in Targets
         /\ q.target \in Nat
         /\ q.oracle \in Contracts
         /\ q.wallet \in Wallets
         /\ q.nonce \in Nonces
         /\ ApprovalCacheKey(q) \in ApprovalKeys
         /\ DerivationInputV4(q) \in Inputs
BY GateConstants, CacheConstants, TokenConstants
   DEF GateRequestV4, ApprovalCacheKey, ApprovalKeys, DerivationInputV4, Inputs

(* A number below Width is encoded as it is. *)
LEMMA EncodedFits ==
  ASSUME NEW n \in Nat, n < Width
  PROVE  encodeUint256(n) = n
BY TypedDataConstants DEF encodeUint256

(* One signature stands for one nonce, as long as nonces are uint256. *)
LEMMA SameSignature ==
  ASSUME NEW q \in GateRequests, NEW r \in GateRequests, Fits(q), Fits(r),
         SignedByWallet(q), SignedByWallet(r), q.sig = r.sig
  PROVE  q.nonce = r.nonce
<1>1. q.nonce \in Nonces /\ r.nonce \in Nonces
  BY GateFields
<1>2. q.nonce.number \in Nat /\ r.nonce.number \in Nat
  BY <1>1 DEF Nonces
<1>3. q.sig.over.nonce = EncodedNonce(q.nonce) /\ r.sig.over.nonce = EncodedNonce(r.nonce)
  BY DEF SignedByWallet, StructHashV4
<1>4. /\ EncodedNonce(q.nonce) = [q.nonce EXCEPT !.number = q.nonce.number]
      /\ EncodedNonce(r.nonce) = [r.nonce EXCEPT !.number = r.nonce.number]
  BY <1>2, EncodedFits DEF EncodedNonce, Fits
<1>5. EncodedNonce(q.nonce) = q.nonce /\ EncodedNonce(r.nonce) = r.nonce
  BY <1>1, <1>4 DEF Nonces
<1> QED
  BY <1>3, <1>5

LEMMA CapFields ==
  ASSUME NEW r \in CapRequests
  PROVE  /\ r # NoRequest
         /\ r.kind = "cap"
         /\ r.token \in Tokens
         /\ LowerHex[r.token] \in Tokens
BY GateConstants, TokenConstants DEF CapRequest

LEMMA RequestFields ==
  ASSUME NEW q \in Requests
  PROVE  /\ q # NoRequest
         /\ q.token \in Tokens
         /\ LowerHex[q.token] \in Tokens
         /\ q.kind = "gate" <=> q \in GateRequests
         /\ q.kind # "gate" <=> q \in CapRequests
BY GateFields, CapFields DEF Requests

LEMMA DivBounds ==
  ASSUME NEW L \in Nat \ {0}, NEW a \in Nat
  PROVE  /\ a \div L \in Nat
         /\ L * (a \div L) <= a
         /\ a < L * (a \div L) + L
OBVIOUS

LEMMA DivAtMost ==
  ASSUME NEW L \in Nat \ {0}, NEW a \in Nat
  PROVE  a \div L <= a
<1> DEFINE x == a \div L
<1>1. x \in Nat /\ L * x <= a
  BY DivBounds
<1> HIDE DEF x
<1>2. PICK d \in Nat : L = 1 + d
  <2>1. L - 1 \in Nat /\ L = 1 + (L - 1)
    OBVIOUS
  <2> QED
    BY <2>1
<1>3. L * x = x + d * x
  BY <1>1, <1>2
<1>4. d * x >= 0
  BY <1>1
<1> QED
  BY <1>1, <1>3, <1>4 DEF x

LEMMA TimesNat ==
  ASSUME NEW a \in Nat, NEW b \in Nat
  PROVE  a * b \in Nat
OBVIOUS

(* A cap below the target is reported below it, rounded as it is.          *)
LEMMA RoundedBelow ==
  ASSUME NEW a \in Nat, NEW u \in Nat \ {0}, NEW t \in Nat, ~ (a >= t * u)
  PROVE  a \div u \in Nat /\ a \div u < t
<1> DEFINE x == a \div u
<1>1. x \in Nat /\ u * x <= a
  BY DivBounds
<1>2. t * u \in Nat /\ a < t * u
  BY TimesNat
<1> HIDE DEF x
<1>3. u * x < u * t
  BY <1>1, <1>2
<1>4. ~ (x >= t)
  <2> SUFFICES ASSUME x >= t PROVE FALSE
    OBVIOUS
  <2>1. PICK d \in Nat : x = t + d
    <3>1. x - t \in Nat
      BY <1>1
    <3> QED
      BY <3>1, <1>1
  <2>2. u * x = u * t + u * d /\ u * d \in Nat
    BY <2>1, TimesNat
  <2> QED
    BY <2>2, <1>3, TimesNat
<1> QED
  BY <1>1, <1>4 DEF x

(* What a lookup in the burst cache finds. *)
LEMMA FoundCap ==
  ASSUME marketCapCache \in CapRows, NEW tok \in Tokens
  PROVE  LET row == CachedMarketCap(marketCapCache, tok, now)
         IN  row # NoSnapshot =>
               /\ row = marketCapCache[LowerHex[tok]]
               /\ row \in Snapshots
               /\ now - row.fetchedAt <= CapTTL
BY TokenConstants, CapConstants
   DEF CachedMarketCap, MarketCapCacheKey, IsFreshCap, CapRows

(* What a lookup leaves behind. *)
LEMMA LookupLeaves ==
  ASSUME marketCapCache \in CapRows, NEW tok \in Tokens
  PROVE  /\ AfterLookup(marketCapCache, tok, now) \in CapRows
         /\ \A k \in Tokens :
              \/ AfterLookup(marketCapCache, tok, now)[k] = marketCapCache[k]
              \/ /\ AfterLookup(marketCapCache, tok, now)[k] = NoSnapshot
                 /\ ~ IsFreshCap(marketCapCache[k], now)
BY TokenConstants DEF AfterLookup, CachedMarketCap, MarketCapCacheKey, CapRows

LEMMA ConfigTyped ==
  ASSUME bondConfig \in [Chains -> BondConfigs \union {NoConfig}], NEW tok \in Tokens
  PROVE  GetBondConfigInternal(tok) \in BondConfigs
BY GateConstants DEF GetBondConfigInternal

LEMMA SayTyped ==
  ASSUME NEW e \in Errors \union {"none", "ok"}
  PROVE  Say(e) \in Answers /\ Say(e).kind = e
BY DEF Say, Answers

-----------------------------------------------------------------------------
(* Type correctness. *)

LEMMA FinishTyped ==
  ASSUME CallsTyped, NEW c \in Calls, NEW a \in Answers, Finish(c, a)
  PROVE  CallsTyped'
BY DEF CallsTyped, CallShape, Finish, Probing, Refreshing

LEMMA FailsTyped ==
  ASSUME CallsTyped, NEW c \in Calls, NEW e \in Errors, AwaitFails(c, e)
  PROVE  CallsTyped'
BY FinishTyped, SayTyped DEF AwaitFails

LEMMA AnswerTyped ==
  ASSUME CallsTyped, NEW e \in Errors \union {"none", "ok"}, AnswerAtOnce(e)
  PROVE  CallsTyped'
BY SayTyped DEF CallsTyped, CallShape, AnswerAtOnce, callVars

LEMMA StartDeriveTyped ==
  ASSUME CallsTyped, NEW c \in Calls, NEW q \in GateRequests, NEW b \in Bases,
         NEW row \in Snapshots, now \in Nat, StartDerive(c, q, b, row)
  PROVE  CallsTyped'
<1>1. q \in Requests
  BY DEF Requests
<1>2. [row |-> row, passedAt |-> now] \in Quotes
  BY DEF Quotes
<1>3. quote' \in [Calls -> Quotes \union {NoQuote}] /\ quote'[c] \in Quotes
  BY <1>2 DEF CallsTyped, StartDerive
<1>4. answer' \in Answers
  BY SayTyped DEF StartDerive, GoOn, NoAnswer
<1>5. \A d \in Calls \ {c} : quote'[d] = quote[d]
  BY DEF StartDerive, CallsTyped
<1>6. CallShape'
  BY <1>1, <1>3, <1>5 DEF CallsTyped, CallShape, StartDerive, GoOn, Probing, Refreshing
<1> QED
  BY <1>1, <1>3, <1>4, <1>6 DEF CallsTyped, StartDerive, GoOn

LEMMA StartRefreshTyped ==
  ASSUME CallsTyped, NEW c \in Calls, NEW q \in Requests,
         NEW b \in Bases \union {NoBasis}, q \in GateRequests => b \in Bases,
         StartRefresh(c, q, b)
  PROVE  CallsTyped'
<1>1. answer' \in Answers
  BY SayTyped DEF StartRefresh, GoOn, NoAnswer
<1>2. CallShape'
  BY DEF CallsTyped, CallShape, StartRefresh, GoOn, Probing, Refreshing
<1> QED
  BY <1>1, <1>2 DEF CallsTyped, StartRefresh, GoOn

LEMMA CompareTyped ==
  ASSUME CallsTyped, NEW c \in Calls, NEW q \in GateRequests, NEW b \in Bases,
         NEW row \in Snapshots, now \in Nat, CompareCap(c, q, b, row)
  PROVE  CallsTyped'
<1>1. CASE StartDerive(c, q, b, row)
  BY <1>1, StartDeriveTyped
<1>2. CASE Finish(c, ReportMarketCap(q, row))
  <2>1. WholeUnits(row) \in Nat
    BY DivBounds DEF WholeUnits, Snapshots
  <2>2. ReportMarketCap(q, row) \in Answers
    BY <2>1, GateFields DEF ReportMarketCap, Answers
  <2> QED
    BY <1>2, <2>2, FinishTyped
<1> QED
  BY <1>1, <1>2 DEF CompareCap

LEMMA CapGateTyped ==
  ASSUME CallsTyped, marketCapCache \in CapRows, now \in Nat,
         NEW c \in Calls, NEW q \in GateRequests, NEW b \in Bases,
         MarketCapGate(c, q, b)
  PROVE  CallsTyped' /\ marketCapCache' \in CapRows
<1> DEFINE row == CachedMarketCap(marketCapCache, q.token, now)
<1>1. q \in Requests /\ q.token \in Tokens
  BY GateFields DEF Requests
<1>2. row # NoSnapshot => row \in Snapshots
  BY <1>1, FoundCap
<1> HIDE DEF row
<1>3. CASE Finish(c, Say("InvalidOracle")) /\ UNCHANGED marketCapCache
  BY <1>3, FinishTyped, SayTyped
<1>4. CASE row # NoSnapshot /\ CompareCap(c, q, b, row) /\ UNCHANGED marketCapCache
  BY <1>2, <1>4, CompareTyped
<1>5. CASE /\ marketCapCache' = AfterLookup(marketCapCache, q.token, now)
           /\ StartRefresh(c, q, b)
  BY <1>1, <1>5, StartRefreshTyped, LookupLeaves
<1> QED
  BY <1>3, <1>4, <1>5 DEF MarketCapGate, row

LEMMA HolderGateTyped ==
  ASSUME CallsTyped, marketCapCache \in CapRows, now \in Nat,
         NEW c \in Calls, NEW q \in GateRequests, NEW r \in Nat,
         PassHolderGate(c, q, r)
  PROVE  CallsTyped' /\ marketCapCache' \in CapRows
<1>1. [verifiedAt |-> r, passedAt |-> now] \in Bases
  BY DEF Bases
<1> QED
  BY <1>1, CapGateTyped DEF PassHolderGate

LEMMA RequestTyped ==
  ASSUME TypeInv, NEW c \in Calls, NEW q \in GateRequests, RequestDecryptionKeyV4(c, q)
  PROVE  TypeInv'
<1> DEFINE k == ApprovalCacheKey(q)
<1>1. CallsTyped /\ now \in Nat /\ marketCapCache \in CapRows /\ pc[c] = "idle"
  BY GateConstants DEF TypeInv, TypeOK, CallsTyped, RequestDecryptionKeyV4
<1>2. k \in ApprovalKeys /\ q.nonce \in Nonces
  BY GateFields
<1>3. CallsTyped' /\ marketCapCache' \in CapRows
      /\ approvedHolders' \in ApprovalRows /\ usedNonces' \subseteq Nonces
  <2>1. CASE RefusedOnSight(q)
    <3>1. CallsTyped'
      BY <1>1, <2>1, AnswerTyped DEF RefusedOnSight
    <3> QED
      BY <2>1, <3>1 DEF RefusedOnSight, gateVars, TypeInv, TypeOK
  <2>2. CASE Admitted(c, q)
    <3>1. usedNonces' \subseteq Nonces
      BY <1>2, <2>2 DEF Admitted, NonceKey, TypeInv, TypeOK
    <3>2. CASE /\ AnswerAtOnce("InvalidSignature")
               /\ UNCHANGED <<approvedHolders, marketCapCache>>
      BY <1>1, <3>1, <3>2, AnswerTyped DEF TypeInv, TypeOK
    <3>3. CASE PassHolderGate(c, q, now) /\ UNCHANGED approvedHolders
      BY <1>1, <3>1, <3>3, HolderGateTyped DEF TypeInv, TypeOK
    <3>4. CASE /\ IsApprovedHolder(approvedHolders, k, now)
               /\ PassHolderGate(c, q, approvedHolders[k])
               /\ UNCHANGED approvedHolders
      <4>1. approvedHolders[k] \in Nat
        BY <1>2, <3>4 DEF IsApprovedHolder, ApprovalRows, TypeInv, TypeOK
      <4> QED
        BY <1>1, <3>1, <3>4, <4>1, HolderGateTyped DEF TypeInv, TypeOK
    <3>5. CASE /\ approvedHolders' = DropIfStale(approvedHolders, k, now)
               /\ GoOn(c, "balance")
               /\ req' = [req EXCEPT ![c] = q]
               /\ UNCHANGED <<basis, work, quote, marketCapCache>>
      <4>1. approvedHolders' \in ApprovalRows
        BY <3>5 DEF DropIfStale, ApprovalRows, TypeInv, TypeOK
      <4>2. answer' \in Answers
        BY <3>5, SayTyped DEF GoOn, NoAnswer
      <4>3. CallShape'
        BY <1>1, <3>5 DEF CallsTyped, CallShape, GoOn, Probing, Refreshing
      <4>4. CallsTyped'
        BY <1>1, <3>5, <4>2, <4>3 DEF CallsTyped, GoOn, Requests
      <4> QED
        BY <1>1, <3>1, <3>5, <4>1, <4>4
    <3> QED
      BY <2>2, <3>2, <3>3, <3>4, <3>5 DEF Admitted
  <2> QED
    BY <2>1, <2>2 DEF RequestDecryptionKeyV4
<1> QED
  BY <1>3 DEF RequestDecryptionKeyV4, TypeInv, TypeOK, CallsTyped, history

LEMMA BalanceTyped ==
  ASSUME TypeInv, NEW c \in Calls, CheckBalanceReturns(c)
  PROVE  TypeInv'
<1> DEFINE q == req[c]
<1>1. CallsTyped /\ now \in Nat /\ marketCapCache \in CapRows /\ pc[c] = "balance"
  BY GateConstants DEF TypeInv, TypeOK, CallsTyped, CheckBalanceReturns
<1>2. q \in GateRequests
  BY <1>1 DEF TypeInv, CallShape
<1>3. /\ q.wallet \in Wallets /\ LowerHex[q.token] \in Tokens
      /\ q.threshold \in Nat /\ ApprovalCacheKey(q) \in ApprovalKeys
  BY <1>2, GateFields
<1> HIDE DEF q
<1>4. CallsTyped' /\ marketCapCache' \in CapRows
      /\ approvedHolders' \in ApprovalRows /\ readings' \subseteq Readings
  <2>1. CASE /\ AwaitFails(c, "EvmRpcError")
             /\ UNCHANGED <<approvedHolders, marketCapCache, readings>>
    BY <1>1, <2>1, FailsTyped DEF TypeInv, TypeOK
  <2>2. ASSUME NEW b \in Balances,
               readings' = readings \union
                 {[wallet |-> q.wallet, token |-> LowerHex[q.token],
                   balance |-> b, at |-> now]},
               \/ /\ Finish(c, [kind |-> "InsufficientBalance",
                                required |-> q.threshold, actual |-> b])
                  /\ UNCHANGED <<approvedHolders, marketCapCache>>
               \/ /\ approvedHolders' =
                       RecordApproval(approvedHolders, ApprovalCacheKey(q), now)
                  /\ PassHolderGate(c, q, now)
        PROVE  CallsTyped' /\ marketCapCache' \in CapRows
               /\ approvedHolders' \in ApprovalRows /\ readings' \subseteq Readings
    <3>1. b \in Nat
      BY GateConstants
    <3>2. readings' \subseteq Readings
      BY <1>1, <1>3, <2>2, <3>1 DEF Readings, TypeInv, TypeOK
    <3>3. CASE /\ Finish(c, [kind |-> "InsufficientBalance",
                             required |-> q.threshold, actual |-> b])
               /\ UNCHANGED <<approvedHolders, marketCapCache>>
      <4>1. [kind |-> "InsufficientBalance", required |-> q.threshold,
             actual |-> b] \in Answers
        BY <1>3, <3>1 DEF Answers
      <4> QED
        BY <1>1, <3>2, <3>3, <4>1, FinishTyped DEF TypeInv, TypeOK
    <3>4. CASE /\ approvedHolders' =
                    RecordApproval(approvedHolders, ApprovalCacheKey(q), now)
               /\ PassHolderGate(c, q, now)
      <4>1. approvedHolders' \in ApprovalRows
        BY <1>1, <3>4 DEF RecordApproval, ApprovalRows, TypeInv, TypeOK
      <4> QED
        BY <1>1, <1>2, <3>2, <3>4, <4>1, HolderGateTyped
    <3> QED
      BY <2>2, <3>3, <3>4
  <2> QED
    BY <2>1, <2>2 DEF CheckBalanceReturns, q
<1> QED
  BY <1>4 DEF CheckBalanceReturns, TypeInv, TypeOK, CallsTyped

(* A call that goes on within its refresh. *)
LEMMA ProbeTyped ==
  ASSUME CallsTyped, NEW c \in Calls, NEW place \in Probing,
         pc[c] \in Refreshing, GoOn(c, place), NEW w \in Works,
         work' = [work EXCEPT ![c] = w], UNCHANGED <<req, basis, quote>>
  PROVE  CallsTyped'
<1>1. answer' \in Answers
  BY SayTyped DEF GoOn, NoAnswer
<1>2. CallShape'
  BY DEF CallsTyped, CallShape, GoOn, Probing, Refreshing
<1> QED
  BY <1>1, <1>2 DEF CallsTyped, GoOn, Probing

LEMMA UnitTyped ==
  ASSUME tokenDecimalsCache \in [Tokens -> Units \union {NoUnit}], NEW k \in Tokens
  PROVE  /\ CachedUnit(k) \in Units
         /\ KeepUnit(k) => tokenDecimalsCache' \in [Tokens -> Units \union {NoUnit}]
BY GateConstants DEF CachedUnit, KeepUnit, Units

(* Where a refresh stands, what it has read and for which token. *)
LEMMA RefreshFields ==
  ASSUME TypeInv, NEW c \in Calls, pc[c] \in Probing
  PROVE  /\ work[c] \in Works
         /\ work[c].cfg \in BondConfigs
         /\ work[c].cfg.bond \in Contracts
         /\ LowerHex[work[c].cfg.wrappedNative] \in Tokens
         /\ work[c].tokenUnit \in Units /\ work[c].reserveUnit \in Units
         /\ work[c].supply \in Nat
         /\ req[c] \in Requests
         /\ req[c].token \in Tokens
         /\ LowerHex[req[c].token] \in Tokens
<1>1. work[c] \in Works /\ req[c] \in Requests
  BY DEF TypeInv, CallShape, Refreshing
<1> QED
  BY <1>1, RequestFields, TokenConstants DEF Works, BondConfigs

LEMMA ProbesTyped ==
  ASSUME TypeInv, NEW c \in Calls,
         \/ RefreshStarts(c) \/ TokenBondReturns(c) \/ TokenDecimalsReturns(c)
         \/ ReserveDecimalsReturns(c) \/ TotalSupplyReturns(c)
  PROVE  TypeInv'
<1>1. CallsTyped
  BY DEF TypeInv, TypeOK, CallsTyped
<1>2. CASE ProbeFails(c) /\ UNCHANGED tokenDecimalsCache
  <2>1. CallsTyped'
    BY <1>1, <1>2, FailsTyped DEF ProbeFails
  <2> QED
    BY <1>2, <2>1 DEF RefreshStarts, TokenBondReturns, TokenDecimalsReturns,
       ReserveDecimalsReturns, TotalSupplyReturns, TypeInv, TypeOK, CallsTyped,
       gateVars, priceVars, history
<1>3. CASE RefreshStarts(c)
  <2>1. req[c].token \in Tokens
    BY <1>3, RequestFields DEF RefreshStarts, TypeInv, CallShape, Refreshing
  <2>2. [cfg |-> GetBondConfigInternal(req[c].token), tokenUnit |-> 1,
         reserveUnit |-> 1, supply |-> 0] \in Works
    BY <2>1, ConfigTyped DEF Works, Units, TypeInv, TypeOK
  <2>3. CallsTyped'
    BY <1>1, <1>3, <2>2, ProbeTyped DEF RefreshStarts, Probing, Refreshing
  <2> QED
    BY <1>3, <2>3 DEF RefreshStarts, TypeInv, TypeOK, CallsTyped,
       gateVars, priceVars, history
<1>4. CASE TokenBondReturns(c)
  <2>1. CASE Finish(c, Say("InvalidOracle"))
    <3>1. CallsTyped'
      BY <1>1, <2>1, FinishTyped, SayTyped
    <3> QED
      BY <1>4, <3>1 DEF TokenBondReturns, TypeInv, TypeOK, CallsTyped,
         gateVars, priceVars, history
  <2>2. CASE GoOn(c, "tokenDecimals") /\ UNCHANGED callVars
    <3>1. work[c] \in Works /\ pc[c] \in Probing
      BY <1>4, RefreshFields DEF TokenBondReturns, Probing
    <3>2. work' = [work EXCEPT ![c] = work[c]] /\ UNCHANGED <<req, basis, quote>>
      BY <1>1, <2>2 DEF callVars, CallsTyped
    <3>3. CallsTyped'
      BY <1>1, <2>2, <3>1, <3>2, ProbeTyped DEF Probing, Refreshing
    <3> QED
      BY <1>4, <3>3 DEF TokenBondReturns, TypeInv, TypeOK, CallsTyped,
         gateVars, priceVars, history
  <2> QED
    BY <1>2, <1>4, <2>1, <2>2 DEF TokenBondReturns, priceVars
<1>5. ASSUME NEW k \in Tokens, NEW u \in Units, KeepUnit(k),
             pc[c] \in Probing, NEW place \in Probing, GoOn(c, place),
             \/ work' = [work EXCEPT ![c].tokenUnit = u]
             \/ work' = [work EXCEPT ![c].reserveUnit = u],
             UNCHANGED <<req, basis, quote, now, gateVars, marketCapCache,
                         bondConfig, keyName, cachedKeyV4, history>>
      PROVE  TypeInv'
  <2>1. work[c] \in Works
    BY <1>5, RefreshFields
  <2>2. PICK w \in Works : work' = [work EXCEPT ![c] = w]
    <3>1. /\ [work[c] EXCEPT !.tokenUnit = u] \in Works
          /\ [work[c] EXCEPT !.reserveUnit = u] \in Works
      BY <1>5, <2>1 DEF Works
    <3> QED
      BY <1>5, <3>1
  <2>3. CallsTyped'
    BY <1>1, <1>5, <2>2, ProbeTyped DEF Refreshing
  <2>4. tokenDecimalsCache' \in [Tokens -> Units \union {NoUnit}]
    BY <1>5, UnitTyped DEF TypeInv, TypeOK
  <2> QED
    BY <1>5, <2>3, <2>4 DEF TypeInv, TypeOK, CallsTyped, gateVars, history
<1>6. CASE TokenDecimalsReturns(c)
  <2>1. LowerHex[req[c].token] \in Tokens
    BY <1>6, RefreshFields DEF TokenDecimalsReturns, Probing
  <2>2. CachedUnit(LowerHex[req[c].token]) \in Units
    BY <2>1, UnitTyped DEF TypeInv, TypeOK
  <2> QED
    BY <1>2, <1>5, <1>6, <2>1, <2>2 DEF TokenDecimalsReturns, Probing
<1>7. CASE ReserveDecimalsReturns(c)
  <2>1. LowerHex[work[c].cfg.wrappedNative] \in Tokens
    BY <1>7, RefreshFields DEF ReserveDecimalsReturns, Probing
  <2>2. CachedUnit(LowerHex[work[c].cfg.wrappedNative]) \in Units
    BY <2>1, UnitTyped DEF TypeInv, TypeOK
  <2> QED
    BY <1>2, <1>5, <1>7, <2>1, <2>2 DEF ReserveDecimalsReturns, Probing
<1>8. CASE TotalSupplyReturns(c)
  <2>1. ASSUME NEW s \in Supplies, GoOn(c, "priceForNextMint"),
               work' = [work EXCEPT ![c].supply = s], UNCHANGED <<req, basis, quote>>
        PROVE  TypeInv'
    <3>1. work[c] \in Works /\ s \in Nat /\ pc[c] \in Probing
      BY <1>8, RefreshFields, GateConstants DEF TotalSupplyReturns, Probing
    <3>2. [work[c] EXCEPT !.supply = s] \in Works
      BY <3>1 DEF Works
    <3>3. work' = [work EXCEPT ![c] = [work[c] EXCEPT !.supply = s]]
      BY <2>1
    <3>4. CallsTyped'
      BY <1>1, <2>1, <3>1, <3>2, <3>3, ProbeTyped DEF Probing, Refreshing
    <3> QED
      BY <1>8, <3>4 DEF TotalSupplyReturns, TypeInv, TypeOK, CallsTyped,
         gateVars, priceVars, history
  <2> QED
    BY <1>2, <1>8, <2>1 DEF TotalSupplyReturns, priceVars
<1> QED
  BY <1>3, <1>4, <1>6, <1>7, <1>8

(* The row a refresh records. *)
LEMMA CapComputed ==
  ASSUME TypeInv, NEW c \in Calls, pc[c] = "priceForNextMint", NEW p \in Prices
  PROVE  LET row == [capScaled |-> CapOf(work[c], p), unit |-> work[c].reserveUnit,
                     fetchedAt |-> now]
             k == LowerHex[req[c].token]
             caps == RecordMarketCap(marketCapCache, req[c].token,
                                     CapOf(work[c], p), work[c].reserveUnit, now)
         IN  /\ row \in Snapshots
             /\ caps \in CapRows
             /\ caps[k] = row
             /\ \A x \in Tokens : x # k => caps[x] = marketCapCache[x]
<1>1. /\ work[c].tokenUnit \in Nat \ {0} /\ work[c].reserveUnit \in Nat \ {0}
      /\ work[c].supply \in Nat /\ req[c].token \in Tokens
      /\ LowerHex[req[c].token] \in Tokens
  BY RefreshFields DEF Probing, Units
<1>2. p \in Nat /\ now \in Nat
  BY GateConstants DEF TypeInv, TypeOK
<1>3. CapOf(work[c], p) \in Nat
  <2>1. work[c].supply * p \in Nat
    BY <1>1, <1>2, TimesNat
  <2> QED
    BY <1>1, <2>1, DivBounds DEF CapOf, CapReserveWei
<1> QED
  BY <1>1, <1>2, <1>3
     DEF Snapshots, RecordMarketCap, MarketCapCacheKey, CapRows, TypeInv, TypeOK

LEMMA PriceTyped ==
  ASSUME TypeInv, NEW c \in Calls, PriceForNextMintReturns(c)
  PROVE  TypeInv'
<1>1. CallsTyped /\ pc[c] = "priceForNextMint"
  BY DEF TypeInv, TypeOK, CallsTyped, PriceForNextMintReturns
<1>2. CallsTyped' /\ marketCapCache' \in CapRows /\ prices' \subseteq Priced
  <2>1. CASE ProbeFails(c) /\ UNCHANGED <<marketCapCache, prices>>
    BY <1>1, <2>1, FailsTyped DEF ProbeFails, TypeInv, TypeOK
  <2>2. CASE Finish(c, Say("InvalidOracle")) /\ UNCHANGED <<marketCapCache, prices>>
    BY <1>1, <2>2, FinishTyped, SayTyped DEF TypeInv, TypeOK
  <2>3. ASSUME NEW p \in Prices,
               marketCapCache' = RecordMarketCap(marketCapCache, req[c].token,
                                   CapOf(work[c], p), work[c].reserveUnit, now),
               prices' = prices \union
                 {[token |-> LowerHex[req[c].token], bond |-> work[c].cfg.bond,
                   supply |-> work[c].supply, price |-> p,
                   row |-> marketCapCache'[LowerHex[req[c].token]]]},
               work' = [work EXCEPT ![c] = NoWork],
               GoOn(c, "recorded"), UNCHANGED <<req, basis, quote>>
        PROVE  CallsTyped' /\ marketCapCache' \in CapRows /\ prices' \subseteq Priced
    <3>1. /\ marketCapCache' \in CapRows
          /\ marketCapCache'[LowerHex[req[c].token]] \in Snapshots
      BY <1>1, <2>3, CapComputed
    <3>2. /\ LowerHex[req[c].token] \in Tokens /\ work[c].cfg.bond \in Contracts
          /\ work[c].supply \in Nat /\ p \in Nat
      BY <1>1, RefreshFields, GateConstants DEF Probing
    <3>3. prices' \subseteq Priced
      BY <2>3, <3>1, <3>2 DEF Priced, TypeInv, TypeOK
    <3>4. answer' \in Answers
      BY <2>3, SayTyped DEF GoOn, NoAnswer
    <3>5. CallShape'
      BY <1>1, <2>3 DEF CallsTyped, CallShape, GoOn, Probing, Refreshing
    <3> QED
      BY <1>1, <2>3, <3>1, <3>3, <3>4, <3>5 DEF CallsTyped, GoOn
  <2> QED
    BY <2>1, <2>2, <2>3 DEF PriceForNextMintReturns, MarketCapCacheKey
<1> QED
  BY <1>2 DEF PriceForNextMintReturns, TypeInv, TypeOK, CallsTyped, gateVars

LEMMA RefreshReturnsTyped ==
  ASSUME TypeInv, NEW c \in Calls, RefreshReturns(c)
  PROVE  TypeInv'
<1> DEFINE row == CachedMarketCap(marketCapCache, req[c].token, now)
<1>1. CallsTyped /\ pc[c] = "recorded" /\ marketCapCache \in CapRows /\ now \in Nat
  BY GateConstants DEF TypeInv, TypeOK, CallsTyped, RefreshReturns
<1>2. /\ req[c] \in Requests /\ req[c].token \in Tokens
      /\ req[c].kind = "gate" => req[c] \in GateRequests /\ basis[c] \in Bases
  BY <1>1, RequestFields DEF TypeInv, CallShape, Refreshing
<1>3. row # NoSnapshot => row \in Snapshots
  BY <1>1, <1>2, FoundCap
<1> HIDE DEF row
<1>4. CallsTyped' /\ marketCapCache' \in CapRows
  <2>1. CASE Finish(c, Say("ok")) /\ UNCHANGED marketCapCache
    BY <1>1, <2>1, FinishTyped, SayTyped
  <2>2. CASE /\ req[c].kind = "gate"
             /\ marketCapCache' = AfterLookup(marketCapCache, req[c].token, now)
             /\ \/ row # NoSnapshot /\ CompareCap(c, req[c], basis[c], row)
                \/ Finish(c, Say("InvalidOracle"))
    <3>1. marketCapCache' \in CapRows
      BY <1>1, <1>2, <2>2, LookupLeaves
    <3>2. CASE row # NoSnapshot /\ CompareCap(c, req[c], basis[c], row)
      BY <1>1, <1>2, <1>3, <2>2, <3>1, <3>2, CompareTyped
    <3>3. CASE Finish(c, Say("InvalidOracle"))
      BY <1>1, <3>1, <3>3, FinishTyped, SayTyped
    <3> QED
      BY <2>2, <3>2, <3>3
  <2> QED
    BY <2>1, <2>2 DEF RefreshReturns, row
<1> QED
  BY <1>4 DEF RefreshReturns, TypeInv, TypeOK, CallsTyped, gateVars, history

LEMMA GrantTyped ==
  ASSUME TypeInv, NEW c \in Calls, pc[c] \in {"derive", "pubkey"}, Grant(c)
  PROVE  grants' \subseteq Grants
<1>1. req[c] \in GateRequests /\ basis[c] \in Bases /\ quote[c] \in Quotes
  BY DEF TypeInv, CallShape
<1>2. DerivationInputV4(req[c]) \in Inputs
  BY <1>1, GateFields
<1> QED
  BY <1>1, <1>2 DEF Grant, Grants, TypeInv, TypeOK

LEMMA VetKDTyped ==
  ASSUME TypeInv, NEW c \in Calls,
         \/ DeriveKeyReturns(c) \/ PublicKeyReturns(c) \/ WarmupReturns(c)
         \/ WarmupVetKDPublicKeyV4(c)
  PROVE  TypeInv'
<1>1. CallsTyped /\ keyName \in KeyNames
  BY DEF TypeInv, TypeOK, CallsTyped
<1>2. CallsTyped'
  <2>1. CASE \E e \in Errors \union {"ok"} : Finish(c, Say(e))
    BY <1>1, <2>1, FinishTyped, SayTyped
  <2>2. CASE /\ \/ pc[c] = "derive" /\ GoOn(c, "pubkey")
                \/ pc[c] = "idle" /\ GoOn(c, "warmup")
             /\ UNCHANGED callVars
    <3>1. answer' \in Answers
      BY <2>2, SayTyped DEF GoOn, NoAnswer
    <3>2. CallShape'
      BY <1>1, <2>2 DEF CallsTyped, CallShape, GoOn, callVars, Probing, Refreshing
    <3> QED
      BY <1>1, <2>2, <3>1, <3>2 DEF CallsTyped, GoOn, callVars
  <2>3. CASE DeriveKeyReturns(c)
    BY <2>1, <2>2, <2>3 DEF DeriveKeyReturns, ReportVetKDError
  <2>4. CASE PublicKeyReturns(c) \/ WarmupReturns(c)
    BY <2>1, <2>4 DEF PublicKeyReturns, WarmupReturns, ReportVetKDError
  <2>5. CASE WarmupVetKDPublicKeyV4(c)
    BY <2>2, <2>5 DEF WarmupVetKDPublicKeyV4
  <2> QED
    BY <2>3, <2>4, <2>5
<1>3. grants' \subseteq Grants /\ cachedKeyV4' \in KeyNames \union {NoKey}
  BY <1>1, GrantTyped DEF DeriveKeyReturns, PublicKeyReturns, WarmupReturns,
     WarmupVetKDPublicKeyV4, history, TypeInv, TypeOK
<1>4. UNCHANGED <<now, gateVars, priceVars, keyName, readings, prices>>
  BY DEF DeriveKeyReturns, PublicKeyReturns, WarmupReturns, WarmupVetKDPublicKeyV4,
     history
<1> QED
  BY <1>2, <1>3, <1>4 DEF TypeInv, TypeOK, CallsTyped, gateVars, priceVars

LEMMA OperatorTyped ==
  ASSUME TypeInv,
         \/ \E ch \in Chains, cfg \in Overrides : SetBondConfig(ch, cfg)
         \/ \E m \in Batches : EvictExpiredApprovals(m) \/ EvictExpiredMarketCaps(m)
         \/ Upgrade
  PROVE  TypeInv'
<1>1. answer' \in Answers
  BY SayTyped DEF SetBondConfig, EvictExpiredApprovals, EvictExpiredMarketCaps,
     Upgrade, Operator, NoAnswer
<1>2. UNCHANGED <<now, pc, callVars, usedNonces, history, tokenDecimalsCache, cachedKeyV4>>
  BY DEF SetBondConfig, EvictExpiredApprovals, EvictExpiredMarketCaps,
     Upgrade, Operator, priceVars
<1>3. CallShape'
  BY <1>2 DEF TypeInv, CallShape, callVars
<1>4. bondConfig' \in [Chains -> BondConfigs \union {NoConfig}]
  BY GateConstants DEF SetBondConfig, EvictExpiredApprovals, EvictExpiredMarketCaps,
     Upgrade, Operator, priceVars, TypeInv, TypeOK
<1>5. approvedHolders' \in ApprovalRows
  BY DEF SetBondConfig, EvictExpiredApprovals, EvictExpiredMarketCaps, Upgrade,
     Operator, Without, ApprovalRows, TypeInv, TypeOK
<1>6. marketCapCache' \in CapRows
  BY DEF SetBondConfig, EvictExpiredApprovals, EvictExpiredMarketCaps, Upgrade,
     Operator, priceVars, CapsWithout, CapRows, TypeInv, TypeOK
<1>7. keyName' \in KeyNames
  BY DEF SetBondConfig, EvictExpiredApprovals, EvictExpiredMarketCaps, Upgrade,
     Operator, TypeInv, TypeOK
<1> QED
  BY <1>1, <1>2, <1>3, <1>4, <1>5, <1>6, <1>7
     DEF TypeInv, TypeOK, callVars, history

LEMMA TypeStep == TypeInv /\ [Next]_vars => TypeInv'
<1> SUFFICES ASSUME TypeInv, [Next]_vars PROVE TypeInv'
  OBVIOUS
<1>1. ASSUME NEW c \in Calls, NEW r \in CapRequests, GetMarketCap(c, r)
      PROVE  TypeInv'
  <2>1. CallsTyped /\ marketCapCache \in CapRows
        /\ r.token \in Tokens /\ r \in Requests /\ r \notin GateRequests
    BY CapFields, RequestFields DEF TypeInv, TypeOK, CallsTyped, Requests
  <2>2. CallsTyped' /\ marketCapCache' \in CapRows
    BY <1>1, <2>1, AnswerTyped, StartRefreshTyped, LookupLeaves DEF GetMarketCap
  <2> QED
    BY <1>1, <2>2 DEF GetMarketCap, TypeInv, TypeOK, CallsTyped, gateVars, history
<1>2. CASE Tick
  <2>1. answer' \in Answers /\ now' \in 0..MaxTime
    BY <1>2, SayTyped, GateConstants DEF Tick, NoAnswer, TypeInv, TypeOK
  <2> QED
    BY <1>2, <2>1 DEF Tick, TypeInv, TypeOK, CallShape, gateVars, priceVars,
       callVars, history
<1>3. CASE UNCHANGED vars
  BY <1>3 DEF vars, TypeInv, TypeOK, CallShape, gateVars, priceVars, callVars, history
<1> QED
  BY <1>1, <1>2, <1>3, RequestTyped, BalanceTyped, ProbesTyped, PriceTyped,
     RefreshReturnsTyped, VetKDTyped, OperatorTyped
     DEF Next, Continue, Refresh

(* The variables keep their types, and every call carries the values that  *)
(* its place in the handler needs: what a refresh has read, and past the   *)
(* two gates the approval and the snapshot they were passed on.            *)
THEOREM TypeCorrect == Spec => []TypeInv
<1>1. Init => TypeInv
  BY GateConstants, SayTyped DEF Init, TypeInv, TypeOK, CallShape, ApprovalRows,
     EmptyApprovals, CapRows, EmptyCaps, Probing, Refreshing
<1> QED
  BY <1>1, TypeStep, PTL DEF Spec

(* TypeOK, the type invariant of the specification. *)
THEOREM TypeSafety == Spec => []TypeOK
BY TypeCorrect, PTL DEF TypeInv

-----------------------------------------------------------------------------
(* Nonces. *)

(* The part of NonceSpentOnce that speaks of nonces. *)
NoncesApart ==
  /\ \A c, d \in Calls :
       InFlight(c) /\ InFlight(d) /\ req[c].nonce = req[d].nonce => c = d
  /\ \A c \in Calls, g \in grants : InFlight(c) => req[c].nonce # g.req.nonce
  /\ \A g, h \in grants : g.req.nonce = h.req.nonce => g = h

(* It is not inductive: that a nonce is fresh when it is admitted only     *)
(* helps if those of the past are known to be used up.                     *)
NonceInv ==
  /\ \A c \in Calls : InFlight(c) => req[c].nonce \in usedNonces
  /\ \A g \in grants : g.req.nonce \in usedNonces
  /\ NoncesApart

LEMMA NonceSame ==
  ASSUME NonceInv, UNCHANGED <<req, grants>>, usedNonces \subseteq usedNonces'
  PROVE  NonceInv'
BY DEF NonceInv, NoncesApart, InFlight

(* A step that ends one call or none. *)
LEMMA NonceFinish ==
  ASSUME TypeInv, NonceInv, NEW c \in Calls, NEW a, Finish(c, a),
         UNCHANGED <<usedNonces, grants>>
  PROVE  NonceInv'
BY DEF TypeInv, TypeOK, NonceInv, NoncesApart, InFlight, Finish

LEMMA NonceGrant ==
  ASSUME TypeInv, NonceInv, NEW c \in Calls, NEW a,
         pc[c] \in {"derive", "pubkey"}, Grant(c), Finish(c, a), UNCHANGED usedNonces
  PROVE  NonceInv'
<1>1. InFlight(c)
  BY GateFields DEF TypeInv, CallShape, InFlight
<1> DEFINE new == [req |-> req[c], input |-> DerivationInputV4(req[c]),
                   basis |-> basis[c], quote |-> quote[c]]
<1>2. grants' = grants \union {new} /\ new.req = req[c]
  BY DEF Grant
<1> HIDE DEF new
<1> QED
  BY <1>1, <1>2 DEF TypeInv, TypeOK, NonceInv, NoncesApart, InFlight, Finish

(* A call that comes in: at the gate with a fresh nonce, which is spent    *)
(* even if the call ends within the same message.                          *)
LEMMA NonceAdmit ==
  ASSUME TypeInv, NonceInv, NEW c \in Calls, NEW q \in Requests, pc[c] = "idle",
         q \in GateRequests => /\ q.nonce \notin usedNonces
                               /\ usedNonces' = usedNonces \union {q.nonce},
         usedNonces \subseteq usedNonces',
         req' = [req EXCEPT ![c] = q], UNCHANGED grants
  PROVE  NonceInv'
<1>1. ~ InFlight(c)
  BY DEF TypeInv, CallShape, InFlight
<1>2. /\ req'[c] = q
      /\ \A d \in Calls : d # c => req'[d] = req[d]
  BY DEF TypeInv, TypeOK
<1>3. InFlight(c)' => q \in GateRequests
  BY <1>2, RequestFields DEF InFlight
<1> QED
  BY <1>1, <1>2, <1>3 DEF NonceInv, NoncesApart, InFlight

(* What step D does to a call. *)
LEMMA CapGateReq ==
  ASSUME NEW c, NEW q, NEW b, MarketCapGate(c, q, b)
  PROVE  \/ \E a : Finish(c, a)
         \/ req' = [req EXCEPT ![c] = q]
BY DEF MarketCapGate, CompareCap, StartDerive, StartRefresh

(* A nonce yields at most one v4 key.                                      *)
THEOREM NonceAlways == Spec => []NonceInv
<1>1. Init => NonceInv
  BY DEF Init, NonceInv, NoncesApart, InFlight
<1>2. TypeInv /\ NonceInv /\ [Next]_vars => NonceInv'
  <2> SUFFICES ASSUME TypeInv, NonceInv, [Next]_vars PROVE NonceInv'
    OBVIOUS
  <2>1. ASSUME NEW c \in Calls, NEW q \in GateRequests, RequestDecryptionKeyV4(c, q)
        PROVE  NonceInv'
    <3>1. UNCHANGED grants /\ pc[c] = "idle" /\ q \in Requests
      BY <2>1 DEF RequestDecryptionKeyV4, history, Requests
    <3>2. CASE RefusedOnSight(q)
      BY <3>1, <3>2, NonceSame DEF RefusedOnSight, AnswerAtOnce, callVars, gateVars
    <3>3. CASE Admitted(c, q)
      <4>1. q.nonce \notin usedNonces /\ usedNonces' = usedNonces \union {q.nonce}
        BY <3>3 DEF Admitted, NonceKey
      <4>2. CASE UNCHANGED req
        BY <3>1, <4>1, <4>2, NonceSame
      <4>3. CASE req' = [req EXCEPT ![c] = q]
        BY <3>1, <4>1, <4>3, NonceAdmit
      <4>4. CASE \E a : Finish(c, a)
        <5>1. req' = req
          BY <3>1, <4>4 DEF Finish, TypeInv, TypeOK, CallShape
        <5> QED
          BY <3>1, <4>1, <5>1, NonceSame
      <4> QED
        BY <3>3, <4>2, <4>3, <4>4, CapGateReq
           DEF Admitted, AnswerAtOnce, callVars, PassHolderGate
    <3> QED
      BY <2>1, <3>2, <3>3 DEF RequestDecryptionKeyV4
  <2>2. ASSUME NEW c \in Calls, NEW r \in CapRequests, GetMarketCap(c, r)
        PROVE  NonceInv'
    <3>1. r \in Requests /\ r \notin GateRequests
      BY CapFields, RequestFields DEF Requests
    <3>2. UNCHANGED <<usedNonces, grants>> /\ pc[c] = "idle"
      BY <2>2 DEF GetMarketCap, gateVars, history
    <3> QED
      BY <2>2, <3>1, <3>2, NonceSame, NonceAdmit
         DEF GetMarketCap, AnswerAtOnce, callVars, StartRefresh
  <2>3. ASSUME NEW c \in Calls, CheckBalanceReturns(c)
        PROVE  NonceInv'
    <3>1. UNCHANGED <<usedNonces, grants>>
      BY <2>3 DEF CheckBalanceReturns
    <3>2. CASE \E a : Finish(c, a)
      BY <3>1, <3>2, NonceFinish
    <3>3. CASE req' = [req EXCEPT ![c] = req[c]]
      BY <3>1, <3>3, NonceSame DEF TypeInv, TypeOK
    <3> QED
      BY <2>3, <3>2, <3>3, CapGateReq DEF CheckBalanceReturns, AwaitFails, PassHolderGate
  <2>4. ASSUME NEW c \in Calls, Refresh(c)
        PROVE  NonceInv'
    <3>1. UNCHANGED <<usedNonces, grants>>
      BY <2>4 DEF Refresh, RefreshStarts, TokenBondReturns, TokenDecimalsReturns,
         ReserveDecimalsReturns, TotalSupplyReturns, PriceForNextMintReturns,
         RefreshReturns, gateVars, history
    <3>2. CASE \E a : Finish(c, a)
      BY <3>1, <3>2, NonceFinish
    <3>3. CASE req' = req
      BY <3>1, <3>3, NonceSame
    <3>4. CASE req' = [req EXCEPT ![c] = req[c]]
      BY <3>1, <3>4, NonceSame DEF TypeInv, TypeOK
    <3> QED
      BY <2>4, <3>2, <3>3, <3>4 DEF Refresh, RefreshStarts, TokenBondReturns,
         TokenDecimalsReturns, ReserveDecimalsReturns, TotalSupplyReturns,
         PriceForNextMintReturns, RefreshReturns, ProbeFails, AwaitFails,
         callVars, CompareCap, StartDerive
  <2>5. ASSUME NEW c \in Calls,
               \/ DeriveKeyReturns(c) \/ PublicKeyReturns(c) \/ WarmupReturns(c)
        PROVE  NonceInv'
    BY <2>5, NonceSame, NonceFinish, NonceGrant
       DEF DeriveKeyReturns, PublicKeyReturns, WarmupReturns, ReportVetKDError,
           callVars, gateVars, history
  <2>6. CASE \/ \E c \in Calls : WarmupVetKDPublicKeyV4(c)
             \/ \E ch \in Chains, cfg \in Overrides : SetBondConfig(ch, cfg)
             \/ \E m \in Batches : EvictExpiredApprovals(m) \/ EvictExpiredMarketCaps(m)
             \/ Upgrade
             \/ Tick
             \/ UNCHANGED vars
    <3>1. UNCHANGED <<req, usedNonces, grants>>
      BY <2>6 DEF WarmupVetKDPublicKeyV4, SetBondConfig, EvictExpiredApprovals,
         EvictExpiredMarketCaps, Upgrade, Tick, vars, Operator, callVars,
         gateVars, history
    <3> QED
      BY <3>1, NonceSame
  <2> QED
    BY <2>1, <2>2, <2>3, <2>4, <2>5, <2>6 DEF Next, Continue
<1> QED
  BY <1>1, <1>2, TypeCorrect, PTL DEF Spec

-----------------------------------------------------------------------------
(* Steps, and what they leave alone. *)

Acts(c) ==
  \/ \E q \in GateRequests : RequestDecryptionKeyV4(c, q)
  \/ \E r \in CapRequests : GetMarketCap(c, r)
  \/ Continue(c)
  \/ WarmupVetKDPublicKeyV4(c)

Same(d) ==
  /\ pc'[d] = pc[d] /\ req'[d] = req[d]
  /\ basis'[d] = basis[d] /\ work'[d] = work[d] /\ quote'[d] = quote[d]

LEMMA StepKinds ==
  ASSUME [Next]_vars
  PROVE  \/ \E c \in Calls : Acts(c)
         \/ UNCHANGED <<pc, callVars, history, tokenDecimalsCache>>
BY DEF Next, Acts, vars, SetBondConfig, EvictExpiredApprovals,
   EvictExpiredMarketCaps, Upgrade, Tick, Operator, priceVars

(* How step D moves the calls. *)
LEMMA CapGateMoves ==
  ASSUME TypeInv, NEW c \in Calls, NEW q, NEW b, MarketCapGate(c, q, b)
  PROVE  /\ \A d \in Calls \ {c} : Same(d)
         /\ pc'[c] \in {"idle", "refresh", "derive"}
<1>1. CASE \E a : Finish(c, a)
  BY <1>1 DEF Finish, Same, TypeInv, TypeOK
<1>2. CASE \E row : StartDerive(c, q, b, row)
  BY <1>2 DEF StartDerive, GoOn, Same, TypeInv, TypeOK
<1>3. CASE StartRefresh(c, q, b)
  BY <1>3 DEF StartRefresh, GoOn, Same, TypeInv, TypeOK
<1> QED
  BY <1>1, <1>2, <1>3 DEF MarketCapGate, CompareCap

LEMMA FinishMoves ==
  ASSUME TypeInv, NEW c \in Calls, NEW a, Finish(c, a)
  PROVE  pc'[c] = "idle" /\ \A d \in Calls \ {c} : Same(d)
BY DEF Finish, Same, TypeInv, TypeOK

LEMMA GoOnMoves ==
  ASSUME TypeInv, NEW c \in Calls, NEW place, GoOn(c, place),
         UNCHANGED <<req, basis, quote>>,
         work' = work \/ \E w : work' = [work EXCEPT ![c] = w]
  PROVE  /\ \A d \in Calls \ {c} : Same(d)
         /\ pc'[c] = place /\ req'[c] = req[c]
         /\ basis'[c] = basis[c] /\ quote'[c] = quote[c]
BY DEF GoOn, Same, TypeInv, TypeOK

(* The steps of a call other than those that read the chain for a refresh. *)
LEMMA OtherMoves ==
  ASSUME TypeInv, NEW c \in Calls,
         \/ \E q \in GateRequests : RequestDecryptionKeyV4(c, q)
         \/ \E r \in CapRequests : GetMarketCap(c, r)
         \/ CheckBalanceReturns(c) \/ PriceForNextMintReturns(c) \/ RefreshReturns(c)
         \/ DeriveKeyReturns(c) \/ PublicKeyReturns(c) \/ WarmupReturns(c)
         \/ WarmupVetKDPublicKeyV4(c)
  PROVE  /\ \A d \in Calls \ {c} : Same(d)
         /\ pc'[c] \notin Probing
<1> USE DEF Probing
<1>1. CASE UNCHANGED <<pc, callVars>> /\ pc[c] = "idle"
  BY <1>1 DEF Same, callVars
<1>2. CASE \E a : Finish(c, a)
  BY <1>2, FinishMoves
<1>3. CASE \E q \in GateRequests : RequestDecryptionKeyV4(c, q)
  <2>1. PICK q \in GateRequests : RequestDecryptionKeyV4(c, q)
    BY <1>3
  <2>2. pc[c] = "idle"
    BY <2>1 DEF RequestDecryptionKeyV4
  <2>3. CASE \E r : PassHolderGate(c, q, r)
    BY <2>3, CapGateMoves DEF PassHolderGate
  <2>4. CASE /\ GoOn(c, "balance")
             /\ req' = [req EXCEPT ![c] = q]
             /\ UNCHANGED <<basis, work, quote, marketCapCache>>
    BY <2>4 DEF GoOn, Same, TypeInv, TypeOK
  <2> QED
    BY <2>1, <2>2, <2>3, <2>4, <1>1
       DEF RequestDecryptionKeyV4, RefusedOnSight, Admitted, AnswerAtOnce
<1>4. CASE \E r \in CapRequests : GetMarketCap(c, r)
  <2>1. PICK r \in CapRequests : GetMarketCap(c, r)
    BY <1>4
  <2>2. CASE StartRefresh(c, r, NoBasis)
    BY <2>2 DEF StartRefresh, GoOn, Same, TypeInv, TypeOK
  <2> QED
    BY <2>1, <2>2, <1>1 DEF GetMarketCap, AnswerAtOnce
<1>5. CASE CheckBalanceReturns(c)
  <2>1. CASE PassHolderGate(c, req[c], now)
    BY <2>1, CapGateMoves DEF PassHolderGate
  <2> QED
    BY <1>2, <1>5, <2>1 DEF CheckBalanceReturns, AwaitFails
<1>6. CASE PriceForNextMintReturns(c)
  <2>1. CASE /\ work' = [work EXCEPT ![c] = NoWork]
             /\ GoOn(c, "recorded")
             /\ UNCHANGED <<req, basis, quote>>
    <3>1. \E w : work' = [work EXCEPT ![c] = w]
      BY <2>1
    <3>2. (\A d \in Calls \ {c} : Same(d)) /\ pc'[c] = "recorded"
      BY <2>1, <3>1, GoOnMoves
    <3> QED
      BY <3>2
  <2> QED
    BY <1>2, <1>6, <2>1 DEF PriceForNextMintReturns, ProbeFails, AwaitFails
<1>7. CASE RefreshReturns(c)
  <2>1. CASE \E b, row : StartDerive(c, req[c], b, row)
    BY <2>1 DEF StartDerive, GoOn, Same, TypeInv, TypeOK
  <2> QED
    BY <1>2, <1>7, <2>1 DEF RefreshReturns, CompareCap
<1>8. CASE DeriveKeyReturns(c)
  <2>1. CASE GoOn(c, "pubkey") /\ UNCHANGED callVars
    BY <2>1, GoOnMoves DEF callVars
  <2> QED
    BY <1>2, <1>8, <2>1 DEF DeriveKeyReturns, ReportVetKDError
<1>9. CASE PublicKeyReturns(c) \/ WarmupReturns(c)
  BY <1>2, <1>9 DEF PublicKeyReturns, WarmupReturns, ReportVetKDError
<1>10. CASE WarmupVetKDPublicKeyV4(c)
  BY <1>10, GoOnMoves DEF WarmupVetKDPublicKeyV4, callVars
<1> QED
  BY <1>3, <1>4, <1>5, <1>6, <1>7, <1>8, <1>9, <1>10

LEMMA RefreshStartMoves ==
  ASSUME TypeInv, NEW c \in Calls, RefreshStarts(c)
  PROVE  /\ \A d \in Calls \ {c} : Same(d)
         /\ pc'[c] = "tokenBond" /\ req'[c] = req[c]
         /\ work'[c].cfg = GetBondConfigInternal(req[c].token)
<1>1. \E w : work' = [work EXCEPT ![c] = w]
  BY DEF RefreshStarts
<1>2. /\ \A d \in Calls \ {c} : Same(d)
      /\ pc'[c] = "tokenBond" /\ req'[c] = req[c]
  BY <1>1, GoOnMoves DEF RefreshStarts
<1> QED
  BY <1>2 DEF RefreshStarts, TypeInv, TypeOK

(* The probes that a refresh makes before the price. *)
LEMMA ProbeMoves ==
  ASSUME TypeInv, NEW c \in Calls,
         \/ TokenBondReturns(c) \/ TokenDecimalsReturns(c)
         \/ ReserveDecimalsReturns(c) \/ TotalSupplyReturns(c)
  PROVE  \A d \in Calls \ {c} : Same(d)
<1>1. CASE \E a : Finish(c, a)
  BY <1>1, FinishMoves
<1>2. CASE \E place : /\ GoOn(c, place)
                      /\ UNCHANGED <<req, basis, quote>>
                      /\ work' = work \/ \E w : work' = [work EXCEPT ![c] = w]
  BY <1>2, GoOnMoves
<1>3. CASE TokenBondReturns(c)
  BY <1>1, <1>2, <1>3 DEF TokenBondReturns, ProbeFails, AwaitFails, callVars
<1>4. CASE TokenDecimalsReturns(c)
  BY <1>1, <1>2, <1>4 DEF TokenDecimalsReturns, ProbeFails, AwaitFails
<1>5. CASE ReserveDecimalsReturns(c)
  BY <1>1, <1>2, <1>5 DEF ReserveDecimalsReturns, ProbeFails, AwaitFails
<1>6. CASE TotalSupplyReturns(c)
  BY <1>1, <1>2, <1>6 DEF TotalSupplyReturns, ProbeFails, AwaitFails
<1> QED
  BY <1>3, <1>4, <1>5, <1>6

(* A step of one call leaves the others alone. *)
LEMMA ActsAlone ==
  ASSUME TypeInv, NEW c \in Calls, Acts(c)
  PROVE  \A d \in Calls \ {c} : Same(d)
BY OtherMoves, RefreshStartMoves, ProbeMoves DEF Acts, Continue, Refresh

(* Nothing but a refresh that ends well writes a snapshot; what else       *)
(* touches the burst cache deletes rows that are no longer fresh.          *)
CapsOnlyDropped ==
  \A k \in Tokens :
    \/ marketCapCache'[k] = marketCapCache[k]
    \/ marketCapCache'[k] = NoSnapshot /\ ~ IsFreshCap(marketCapCache[k], now)

RecordsCap(c) ==
  \E p \in Prices :
    /\ p # 0
    /\ marketCapCache' = RecordMarketCap(marketCapCache, req[c].token,
                           CapOf(work[c], p), work[c].reserveUnit, now)
    /\ prices' = prices \union
         {[token |-> LowerHex[req[c].token], bond |-> work[c].cfg.bond,
           supply |-> work[c].supply, price |-> p,
           row |-> marketCapCache'[LowerHex[req[c].token]]]}
    /\ now' = now

LEMMA CapGateCaps ==
  ASSUME TypeInv, NEW c, NEW q \in GateRequests, NEW b, MarketCapGate(c, q, b)
  PROVE  CapsOnlyDropped
<1>1. q.token \in Tokens /\ marketCapCache \in CapRows
  BY GateFields DEF TypeInv, TypeOK
<1>2. \/ UNCHANGED marketCapCache
      \/ marketCapCache' = AfterLookup(marketCapCache, q.token, now)
  BY DEF MarketCapGate
<1> QED
  BY <1>1, <1>2, LookupLeaves DEF CapsOnlyDropped

LEMMA CapsMove ==
  ASSUME TypeInv, [Next]_vars
  PROVE  \/ CapsOnlyDropped /\ UNCHANGED prices
         \/ \E c \in Calls : pc[c] = "priceForNextMint" /\ RecordsCap(c)
<1>1. ASSUME UNCHANGED <<marketCapCache, prices>>
      PROVE  CapsOnlyDropped /\ UNCHANGED prices
  BY <1>1 DEF CapsOnlyDropped
<1>2. ASSUME NEW c \in Calls, NEW q \in GateRequests, RequestDecryptionKeyV4(c, q)
      PROVE  CapsOnlyDropped /\ UNCHANGED prices
  BY <1>1, <1>2, CapGateCaps
     DEF RequestDecryptionKeyV4, RefusedOnSight, Admitted, PassHolderGate, history
<1>3. ASSUME NEW c \in Calls, NEW r \in CapRequests, GetMarketCap(c, r)
      PROVE  CapsOnlyDropped /\ UNCHANGED prices
  <2>1. r.token \in Tokens /\ marketCapCache \in CapRows
    BY CapFields DEF TypeInv, TypeOK
  <2>2. CASE marketCapCache' = AfterLookup(marketCapCache, r.token, now)
    BY <1>3, <2>1, <2>2, LookupLeaves DEF CapsOnlyDropped, GetMarketCap, history
  <2> QED
    BY <1>1, <1>3, <2>2 DEF GetMarketCap, history
<1>4. ASSUME NEW c \in Calls, CheckBalanceReturns(c)
      PROVE  CapsOnlyDropped /\ UNCHANGED prices
  <2>1. req[c] \in GateRequests
    BY <1>4 DEF CheckBalanceReturns, TypeInv, CallShape
  <2> QED
    BY <1>1, <1>4, <2>1, CapGateCaps DEF CheckBalanceReturns, PassHolderGate
<1>5. ASSUME NEW c \in Calls, RefreshReturns(c)
      PROVE  CapsOnlyDropped /\ UNCHANGED prices
  <2>1. req[c].token \in Tokens /\ marketCapCache \in CapRows
    BY <1>5, RequestFields DEF RefreshReturns, TypeInv, TypeOK, CallShape, Refreshing
  <2>2. CASE marketCapCache' = AfterLookup(marketCapCache, req[c].token, now)
    BY <1>5, <2>1, <2>2, LookupLeaves DEF CapsOnlyDropped, RefreshReturns, history
  <2> QED
    BY <1>1, <1>5, <2>2 DEF RefreshReturns, history
<1>6. ASSUME NEW c \in Calls, PriceForNextMintReturns(c)
      PROVE  \/ CapsOnlyDropped /\ UNCHANGED prices
             \/ pc[c] = "priceForNextMint" /\ RecordsCap(c)
  BY <1>1, <1>6 DEF PriceForNextMintReturns, RecordsCap, MarketCapCacheKey
<1>7. ASSUME NEW c \in Calls,
             \/ RefreshStarts(c) \/ TokenBondReturns(c) \/ TokenDecimalsReturns(c)
             \/ ReserveDecimalsReturns(c) \/ TotalSupplyReturns(c)
             \/ DeriveKeyReturns(c) \/ PublicKeyReturns(c) \/ WarmupReturns(c)
             \/ WarmupVetKDPublicKeyV4(c)
      PROVE  CapsOnlyDropped /\ UNCHANGED prices
  BY <1>1, <1>7 DEF RefreshStarts, TokenBondReturns, TokenDecimalsReturns,
     ReserveDecimalsReturns, TotalSupplyReturns, DeriveKeyReturns,
     PublicKeyReturns, WarmupReturns, WarmupVetKDPublicKeyV4, priceVars, history
<1>8. ASSUME NEW m \in Batches, EvictExpiredMarketCaps(m)
      PROVE  CapsOnlyDropped /\ UNCHANGED prices
  <2>1. PICK D \in Sweeps(ExpiredCaps(marketCapCache, now), m) :
          marketCapCache' = CapsWithout(marketCapCache, D)
    BY <1>8 DEF EvictExpiredMarketCaps
  <2>2. \A k \in D : k \in ExpiredCaps(marketCapCache, now)
    BY DEF Sweeps
  <2>3. \A k \in D : ~ IsFreshCap(marketCapCache[k], now)
    <3>1. \A k \in Tokens : marketCapCache[k] # NoSnapshot =>
            now - marketCapCache[k].fetchedAt \in Int /\ CapTTL \in Int
      BY GateConstants, CapConstants DEF TypeInv, TypeOK, CapRows, Snapshots
    <3> QED
      BY <2>2, <3>1 DEF ExpiredCaps, IsFreshCap
  <2> QED
    BY <1>8, <2>1, <2>3
       DEF EvictExpiredMarketCaps, CapsOnlyDropped, CapsWithout, Operator, history
<1>9. CASE \/ \E ch \in Chains, cfg \in Overrides : SetBondConfig(ch, cfg)
           \/ \E m \in Batches : EvictExpiredApprovals(m)
           \/ Upgrade
           \/ Tick
           \/ UNCHANGED vars
  BY <1>1, <1>9 DEF SetBondConfig, EvictExpiredApprovals, Upgrade, Tick, vars,
     Operator, priceVars, history
<1> QED
  BY <1>2, <1>3, <1>4, <1>5, <1>6, <1>7, <1>8, <1>9 DEF Next, Continue, Refresh

-----------------------------------------------------------------------------
(* Prices. *)

(* What a refresh has read is what the chain has. *)
WorkTrue(c) ==
  LET cfg == work[c].cfg
      k   == LowerHex[req[c].token]
  IN  pc[c] \in Probing =>
        /\ cfg \in Overrides \union {DefaultConfig[ChainOf[k]]}
        /\ pc[c] # "tokenBond" =>
             LowerHex[ReserveOf[<<cfg.bond, k>>]] = LowerHex[cfg.wrappedNative]
        /\ pc[c] \notin {"tokenBond", "tokenDecimals"} =>
             work[c].tokenUnit = UnitOf[k]
        /\ pc[c] \in {"totalSupply", "priceForNextMint"} =>
             work[c].reserveUnit = UnitOf[LowerHex[cfg.wrappedNative]]

(* SnapshotsPriced is about rows that are written; what makes it inductive *)
(* is the same of refreshes half done, of the units cached for good and of *)
(* the table of Bond contracts they take their addresses from.             *)
PriceInv ==
  /\ \A k \in Tokens : tokenDecimalsCache[k] \in {UnitOf[k], NoUnit}
  /\ \A ch \in Chains : bondConfig[ch] \in Overrides \union {NoConfig}
  /\ \A c \in Calls : WorkTrue(c)
  /\ SnapshotsPriced

LEMMA WorkKept ==
  ASSUME NEW d \in Calls, WorkTrue(d),
         pc'[d] = pc[d], req'[d] = req[d], work'[d] = work[d]
  PROVE  WorkTrue(d)'
BY DEF WorkTrue

LEMMA WorkNone ==
  ASSUME NEW d \in Calls, pc'[d] \notin Probing
  PROVE  WorkTrue(d)'
BY DEF WorkTrue

LEMMA UnitTrue ==
  ASSUME \A k \in Tokens : tokenDecimalsCache[k] \in {UnitOf[k], NoUnit},
         NEW x \in Tokens
  PROVE  /\ CachedUnit(x) = UnitOf[x]
         /\ TypeInv /\ KeepUnit(x) =>
              \A k \in Tokens : tokenDecimalsCache'[k] \in {UnitOf[k], NoUnit}
BY DEF CachedUnit, KeepUnit, TypeInv, TypeOK

LEMMA ProbeTrue ==
  ASSUME TypeInv, PriceInv, NEW c \in Calls,
         \/ RefreshStarts(c) \/ TokenBondReturns(c) \/ TokenDecimalsReturns(c)
         \/ ReserveDecimalsReturns(c) \/ TotalSupplyReturns(c)
  PROVE  /\ WorkTrue(c)'
         /\ \A k \in Tokens : tokenDecimalsCache'[k] \in {UnitOf[k], NoUnit}
<1>1. WorkTrue(c) /\ \A k \in Tokens : tokenDecimalsCache[k] \in {UnitOf[k], NoUnit}
  BY DEF PriceInv
<1>2. CASE RefreshStarts(c)
  <2>1. req[c] \in Requests
    BY <1>2 DEF RefreshStarts, TypeInv, CallShape, Refreshing
  <2>2. /\ req[c].token \in Tokens
        /\ ChainOf[req[c].token] \in Chains
        /\ ChainOf[LowerHex[req[c].token]] = ChainOf[req[c].token]
    BY <2>1, RequestFields, GateConstants
  <2>3. GetBondConfigInternal(req[c].token) \in
          Overrides \union {DefaultConfig[ChainOf[LowerHex[req[c].token]]]}
    BY <2>2 DEF GetBondConfigInternal, PriceInv
  <2>4. WorkTrue(c)'
    BY <1>2, <2>3, RefreshStartMoves DEF WorkTrue
  <2> QED
    BY <1>1, <1>2, <2>4 DEF RefreshStarts, priceVars
<1>3. CASE ProbeFails(c) /\ UNCHANGED tokenDecimalsCache
  BY <1>1, <1>3, FinishMoves, WorkNone DEF ProbeFails, AwaitFails, Probing
<1>4. CASE TokenBondReturns(c)
  <2>1. CASE Finish(c, Say("InvalidOracle"))
    BY <1>1, <1>4, <2>1, FinishMoves, WorkNone DEF Probing, TokenBondReturns, priceVars
  <2>2. CASE /\ LowerHex[ReserveOf[<<work[c].cfg.bond, LowerHex[req[c].token]>>]]
                  = LowerHex[work[c].cfg.wrappedNative]
             /\ GoOn(c, "tokenDecimals")
             /\ UNCHANGED callVars
    <3>1. pc'[c] = "tokenDecimals" /\ req'[c] = req[c] /\ work'[c] = work[c]
      BY <2>2 DEF GoOn, callVars, TypeInv, TypeOK
    <3>2. WorkTrue(c)'
      BY <1>1, <1>4, <2>2, <3>1 DEF WorkTrue, Probing, TokenBondReturns
    <3> QED
      BY <1>1, <1>4, <3>2 DEF TokenBondReturns, priceVars
  <2> QED
    BY <1>3, <1>4, <2>1, <2>2 DEF TokenBondReturns, priceVars
<1>5. CASE TokenDecimalsReturns(c)
  <2> DEFINE k == LowerHex[req[c].token]
  <2>1. k \in Tokens /\ work[c] \in Works
    BY <1>5, RefreshFields DEF TokenDecimalsReturns, Probing
  <2> HIDE DEF k
  <2>2. CASE /\ KeepUnit(k)
             /\ work' = [work EXCEPT ![c].tokenUnit = CachedUnit(k)]
             /\ GoOn(c, "reserveDecimals")
             /\ UNCHANGED <<req, basis, quote>>
    <3>1. /\ pc'[c] = "reserveDecimals" /\ req'[c] = req[c]
          /\ work'[c].tokenUnit = UnitOf[k] /\ work'[c].cfg = work[c].cfg
      BY <1>1, <2>1, <2>2, UnitTrue DEF GoOn, TypeInv, TypeOK, Works
    <3>2. WorkTrue(c)'
      BY <1>1, <1>5, <3>1 DEF WorkTrue, Probing, TokenDecimalsReturns, k
    <3> QED
      BY <1>1, <2>1, <2>2, <3>2, UnitTrue
  <2> QED
    BY <1>3, <1>5, <2>2 DEF TokenDecimalsReturns, k
<1>6. CASE ReserveDecimalsReturns(c)
  <2> DEFINE k == LowerHex[work[c].cfg.wrappedNative]
  <2>1. k \in Tokens /\ work[c] \in Works
    BY <1>6, RefreshFields DEF ReserveDecimalsReturns, Probing
  <2> HIDE DEF k
  <2>2. CASE /\ KeepUnit(k)
             /\ work' = [work EXCEPT ![c].reserveUnit = CachedUnit(k)]
             /\ GoOn(c, "totalSupply")
             /\ UNCHANGED <<req, basis, quote>>
    <3>1. /\ pc'[c] = "totalSupply" /\ req'[c] = req[c]
          /\ work'[c].reserveUnit = UnitOf[k] /\ work'[c].cfg = work[c].cfg
          /\ work'[c].tokenUnit = work[c].tokenUnit
      BY <1>1, <2>1, <2>2, UnitTrue DEF GoOn, TypeInv, TypeOK, Works
    <3>2. WorkTrue(c)'
      BY <1>1, <1>6, <3>1 DEF WorkTrue, Probing, ReserveDecimalsReturns, k
    <3> QED
      BY <1>1, <2>1, <2>2, <3>2, UnitTrue
  <2> QED
    BY <1>3, <1>6, <2>2 DEF ReserveDecimalsReturns, k
<1>7. CASE TotalSupplyReturns(c)
  <2>1. ASSUME NEW s \in Supplies, GoOn(c, "priceForNextMint"),
               work' = [work EXCEPT ![c].supply = s], UNCHANGED <<req, basis, quote>>
        PROVE  WorkTrue(c)'
    <3>1. work[c] \in Works
      BY <1>7, RefreshFields DEF TotalSupplyReturns, Probing
    <3>2. /\ pc'[c] = "priceForNextMint" /\ req'[c] = req[c]
          /\ work'[c].cfg = work[c].cfg
          /\ work'[c].tokenUnit = work[c].tokenUnit
          /\ work'[c].reserveUnit = work[c].reserveUnit
      BY <2>1, <3>1 DEF GoOn, TypeInv, TypeOK, Works
    <3> QED
      BY <1>1, <1>7, <3>2 DEF WorkTrue, Probing, TotalSupplyReturns
  <2>2. UNCHANGED tokenDecimalsCache
    BY <1>7 DEF TotalSupplyReturns, priceVars
  <2> QED
    BY <1>1, <1>3, <1>7, <2>1, <2>2 DEF TotalSupplyReturns
<1> QED
  BY <1>2, <1>4, <1>5, <1>6, <1>7

(* One row, priced as SnapshotsPriced says. *)
PricedIn(ps, k, row) ==
  \E p \in ps :
    LET reserve == LowerHex[ReserveOf[<<p.bond, k>>]] IN
    /\ p.token = k
    /\ p.row = row
    /\ p.price # 0
    /\ \E cfg \in Overrides \union {DefaultConfig[ChainOf[k]]} :
         cfg.bond = p.bond /\ LowerHex[cfg.wrappedNative] = reserve
    /\ p.row.capScaled = (p.supply * p.price) \div UnitOf[k]
    /\ p.row.unit = UnitOf[reserve]

LEMMA SnapshotsAsPriced ==
  SnapshotsPriced <=>
    \A k \in Tokens :
      marketCapCache[k] # NoSnapshot => PricedIn(prices, k, marketCapCache[k])
BY DEF SnapshotsPriced, PricedIn

LEMMA PricedGrows ==
  ASSUME NEW ps, NEW qs, ps \subseteq qs, NEW k, NEW row, PricedIn(ps, k, row)
  PROVE  PricedIn(qs, k, row)
BY DEF PricedIn

LEMMA SnapshotRecorded ==
  ASSUME TypeInv, PriceInv, NEW c \in Calls, pc[c] = "priceForNextMint", RecordsCap(c)
  PROVE  SnapshotsPriced'
<1> DEFINE k   == LowerHex[req[c].token]
           w   == work[c]
<1>1. PICK p \in Prices :
        /\ p # 0
        /\ marketCapCache' = RecordMarketCap(marketCapCache, req[c].token,
                               CapOf(w, p), w.reserveUnit, now)
        /\ prices' = prices \union
             {[token |-> k, bond |-> w.cfg.bond, supply |-> w.supply,
               price |-> p, row |-> marketCapCache'[k]]}
  BY DEF RecordsCap
<1> DEFINE new == [token |-> k, bond |-> w.cfg.bond, supply |-> w.supply,
                   price |-> p, row |-> marketCapCache'[k]]
<1>2. /\ marketCapCache'[k].capScaled = CapOf(w, p)
      /\ marketCapCache'[k].unit = w.reserveUnit
      /\ \A x \in Tokens : x # k => marketCapCache'[x] = marketCapCache[x]
  <2>1. /\ marketCapCache'[k] = [capScaled |-> CapOf(w, p), unit |-> w.reserveUnit,
                                 fetchedAt |-> now]
        /\ \A x \in Tokens : x # k => marketCapCache'[x] = marketCapCache[x]
    BY <1>1, CapComputed
  <2> QED
    BY <2>1
<1>3. /\ w.cfg \in Overrides \union {DefaultConfig[ChainOf[k]]}
      /\ LowerHex[ReserveOf[<<w.cfg.bond, k>>]] = LowerHex[w.cfg.wrappedNative]
      /\ w.tokenUnit = UnitOf[k]
      /\ w.reserveUnit = UnitOf[LowerHex[w.cfg.wrappedNative]]
  BY DEF PriceInv, WorkTrue, Probing
<1>4. /\ new.token = k /\ new.bond = w.cfg.bond /\ new.supply = w.supply
      /\ new.price = p /\ new.row = marketCapCache'[k]
  OBVIOUS
<1>5. new \in prices' /\ prices \subseteq prices'
  BY <1>1
<1> HIDE DEF new, k, w
<1>6. PricedIn(prices', k, marketCapCache'[k])
  <2>1. CapOf(w, p) = (w.supply * p) \div UnitOf[k]
    BY <1>3 DEF CapOf, CapReserveWei
  <2>2. \E cfg \in Overrides \union {DefaultConfig[ChainOf[k]]} :
          /\ cfg.bond = new.bond
          /\ LowerHex[cfg.wrappedNative] = LowerHex[ReserveOf[<<new.bond, k>>]]
    BY <1>3, <1>4
  <2>3. /\ new.row.capScaled = (new.supply * new.price) \div UnitOf[k]
        /\ new.row.unit = UnitOf[LowerHex[ReserveOf[<<new.bond, k>>]]]
        /\ new.price # 0
    BY <1>1, <1>2, <1>3, <1>4, <2>1
  <2> QED
    BY <1>4, <1>5, <2>2, <2>3 DEF PricedIn
<1>7. ASSUME NEW x \in Tokens, marketCapCache'[x] # NoSnapshot
      PROVE  PricedIn(prices', x, marketCapCache'[x])
  <2>1. CASE x = k
    BY <1>6, <2>1
  <2>2. CASE x # k
    <3>1. PricedIn(prices, x, marketCapCache[x]) /\ marketCapCache'[x] = marketCapCache[x]
      BY <1>2, <1>7, <2>2, SnapshotsAsPriced DEF PriceInv
    <3> QED
      BY <1>5, <3>1, PricedGrows
  <2> QED
    BY <2>1, <2>2
<1> QED
  BY <1>7 DEF SnapshotsPriced, PricedIn

LEMMA SnapshotsKept ==
  ASSUME PriceInv, CapsOnlyDropped, UNCHANGED prices
  PROVE  SnapshotsPriced'
<1>1. ASSUME NEW x \in Tokens, marketCapCache'[x] # NoSnapshot
      PROVE  PricedIn(prices', x, marketCapCache'[x])
  BY <1>1, SnapshotsAsPriced DEF PriceInv, CapsOnlyDropped
<1> QED
  BY <1>1 DEF SnapshotsPriced, PricedIn

LEMMA PriceStep == TypeInv /\ PriceInv /\ [Next]_vars => PriceInv'
<1> SUFFICES ASSUME TypeInv, PriceInv, [Next]_vars PROVE PriceInv'
  OBVIOUS
<1>1. SnapshotsPriced'
  BY CapsMove, SnapshotRecorded, SnapshotsKept
<1>2. \A ch \in Chains : bondConfig'[ch] \in Overrides \union {NoConfig}
  <2>1. CASE \E ch \in Chains, cfg \in Overrides : SetBondConfig(ch, cfg)
    BY <2>1 DEF SetBondConfig, PriceInv, TypeInv, TypeOK
  <2>2. CASE UNCHANGED bondConfig
    BY <2>2 DEF PriceInv
  <2> QED
    BY <2>1, <2>2 DEF Next, Continue, Refresh, RequestDecryptionKeyV4, GetMarketCap,
       CheckBalanceReturns, RefreshStarts, TokenBondReturns, TokenDecimalsReturns,
       ReserveDecimalsReturns, TotalSupplyReturns, PriceForNextMintReturns,
       RefreshReturns, DeriveKeyReturns, PublicKeyReturns, WarmupReturns,
       WarmupVetKDPublicKeyV4, EvictExpiredApprovals, EvictExpiredMarketCaps,
       Upgrade, Tick, vars, priceVars
<1>3. /\ \A c \in Calls : WorkTrue(c)'
      /\ \A k \in Tokens : tokenDecimalsCache'[k] \in {UnitOf[k], NoUnit}
  <2>1. CASE UNCHANGED <<pc, callVars, tokenDecimalsCache>>
    BY <2>1, WorkKept DEF PriceInv, callVars
  <2>2. ASSUME NEW c \in Calls, Acts(c)
        PROVE  /\ \A d \in Calls : WorkTrue(d)'
               /\ \A k \in Tokens : tokenDecimalsCache'[k] \in {UnitOf[k], NoUnit}
    <3>1. \A d \in Calls \ {c} : WorkTrue(d)'
      BY <2>2, ActsAlone, WorkKept DEF PriceInv, Same
    <3>2. CASE \/ RefreshStarts(c) \/ TokenBondReturns(c) \/ TokenDecimalsReturns(c)
               \/ ReserveDecimalsReturns(c) \/ TotalSupplyReturns(c)
      BY <3>1, <3>2, ProbeTrue
    <3>3. CASE \/ \E q \in GateRequests : RequestDecryptionKeyV4(c, q)
               \/ \E r \in CapRequests : GetMarketCap(c, r)
               \/ CheckBalanceReturns(c) \/ PriceForNextMintReturns(c)
               \/ RefreshReturns(c) \/ DeriveKeyReturns(c) \/ PublicKeyReturns(c)
               \/ WarmupReturns(c) \/ WarmupVetKDPublicKeyV4(c)
      <4>1. WorkTrue(c)'
        BY <3>3, OtherMoves, WorkNone
      <4>2. UNCHANGED tokenDecimalsCache
        BY <3>3 DEF RequestDecryptionKeyV4, GetMarketCap, CheckBalanceReturns,
           PriceForNextMintReturns, RefreshReturns, DeriveKeyReturns,
           PublicKeyReturns, WarmupReturns, WarmupVetKDPublicKeyV4, priceVars
      <4> QED
        BY <3>1, <4>1, <4>2 DEF PriceInv
    <3> QED
      BY <2>2, <3>2, <3>3 DEF Acts, Continue, Refresh
  <2> QED
    BY <2>1, <2>2, StepKinds
<1> QED
  BY <1>1, <1>2, <1>3 DEF PriceInv

LEMMA PriceAlways == Spec => []PriceInv
<1>1. Init => PriceInv
  BY DEF Init, PriceInv, WorkTrue, SnapshotsPriced, EmptyCaps, Probing
<1> QED
  BY <1>1, PriceStep, TypeCorrect, PTL DEF Spec

(* Every snapshot is a cap of that token, computed in one refresh from one *)
(* Bond contract that the operator chose, and in the chain's own units.    *)
THEOREM PriceSafety == Spec => []SnapshotsPriced
BY PriceAlways, PTL DEF PriceInv

-----------------------------------------------------------------------------
(* Keys. *)

(* Somebody was seen to hold so much of a token, by then. *)
HeldIn(rs, wallet, token, threshold, t) ==
  \E r \in rs : /\ r.wallet = wallet /\ r.token = token
                /\ r.balance >= threshold
                /\ r.at <= t

(* The epoch of a signed request has begun, so it is a uint256. *)
Signed(q) == SignedByWallet(q) /\ q.epoch < Width

(* What stands behind a call that passed the holder gate. *)
BackedIn(rs, q, b) ==
  /\ Signed(q)
  /\ q.threshold # 0 =>
       /\ HeldIn(rs, q.wallet, LowerHex[q.token], q.threshold, b.verifiedAt)
       /\ b.passedAt < b.verifiedAt + ApprovalTTL

(* What stands behind a call that passed the market-cap gate. *)
QuotedIn(ps, q, u) ==
  /\ \E p \in ps : p.token = LowerHex[q.token] /\ p.row = u.row
  /\ u.row.capScaled >= q.target * u.row.unit
  /\ u.passedAt - u.row.fetchedAt <= CapTTL

OnItsWay(c) ==
  /\ pc[c] = "balance" => Signed(req[c])
  /\ pc[c] \in Refreshing /\ req[c] \in GateRequests =>
       BackedIn(readings, req[c], basis[c])
  /\ pc[c] \in {"derive", "pubkey"} =>
       BackedIn(readings, req[c], basis[c]) /\ QuotedIn(prices, req[c], quote[c])

Earned(g) ==
  /\ BackedIn(readings, g.req, g.basis)
  /\ QuotedIn(prices, g.req, g.quote)
  /\ g.input = DerivationInputV4(g.req)

RowsHeld ==
  \A k \in ApprovalKeys :
    approvedHolders[k] # NoRow =>
      HeldIn(readings, k.wallet, k.token, k.threshold, approvedHolders[k])

(* ChunkKeysEarned speaks of keys already handed out; what makes it        *)
(* inductive is the same of the calls in flight and of the cached          *)
(* approvals they may pass on.  The cached snapshots are priced by         *)
(* PriceInv.                                                               *)
EarnInv ==
  /\ RowsHeld
  /\ \A c \in Calls : OnItsWay(c)
  /\ \A g \in grants : Earned(g)

LEMMA HeldGrows ==
  ASSUME NEW rs, NEW ss, rs \subseteq ss, NEW w, NEW k, NEW t, NEW at,
         HeldIn(rs, w, k, t, at)
  PROVE  HeldIn(ss, w, k, t, at)
BY DEF HeldIn

LEMMA BackedGrows ==
  ASSUME NEW rs, NEW ss, rs \subseteq ss, NEW q, NEW b, BackedIn(rs, q, b)
  PROVE  BackedIn(ss, q, b)
BY HeldGrows DEF BackedIn

LEMMA QuotedGrows ==
  ASSUME NEW ps, NEW qs, ps \subseteq qs, NEW q, NEW u, QuotedIn(ps, q, u)
  PROVE  QuotedIn(qs, q, u)
BY DEF QuotedIn

LEMMA HistoryGrows ==
  ASSUME [Next]_vars
  PROVE  readings \subseteq readings' /\ prices \subseteq prices'
BY DEF Next, Continue, Refresh, RequestDecryptionKeyV4, GetMarketCap,
   CheckBalanceReturns, RefreshStarts, TokenBondReturns, TokenDecimalsReturns,
   ReserveDecimalsReturns, TotalSupplyReturns, PriceForNextMintReturns,
   RefreshReturns, DeriveKeyReturns, PublicKeyReturns, WarmupReturns,
   WarmupVetKDPublicKeyV4, SetBondConfig, EvictExpiredApprovals,
   EvictExpiredMarketCaps, Upgrade, Tick, Operator, vars, history

LEMMA WayKept ==
  ASSUME NEW d \in Calls, OnItsWay(d), pc'[d] = pc[d], req'[d] = req[d],
         basis'[d] = basis[d], quote'[d] = quote[d],
         readings \subseteq readings', prices \subseteq prices'
  PROVE  OnItsWay(d)'
<1>1. ASSUME BackedIn(readings, req[d], basis[d])
      PROVE  BackedIn(readings', req[d], basis[d])
  BY <1>1, BackedGrows
<1>2. ASSUME QuotedIn(prices, req[d], quote[d])
      PROVE  QuotedIn(prices', req[d], quote[d])
  BY <1>2, QuotedGrows
<1> QED
  BY <1>1, <1>2 DEF OnItsWay

LEMMA WayOver ==
  ASSUME TypeInv, NEW c \in Calls, NEW a, Finish(c, a)
  PROVE  OnItsWay(c)'
BY FinishMoves DEF OnItsWay, Probing, Refreshing

(* The comparison passes a call on with the snapshot it was made with.     *)
LEMMA CompareWay ==
  ASSUME TypeInv, PriceInv, NEW c \in Calls, NEW q \in GateRequests, NEW b \in Bases,
         CachedMarketCap(marketCapCache, q.token, now) # NoSnapshot,
         CompareCap(c, q, b, CachedMarketCap(marketCapCache, q.token, now)),
         BackedIn(readings', q, b), UNCHANGED prices
  PROVE  OnItsWay(c)'
<1> DEFINE row == CachedMarketCap(marketCapCache, q.token, now)
<1>1. /\ row = marketCapCache[LowerHex[q.token]]
      /\ row \in Snapshots
      /\ now - row.fetchedAt <= CapTTL
      /\ LowerHex[q.token] \in Tokens
  BY GateFields, FoundCap DEF TypeInv, TypeOK
<1>2. \E p \in prices : p.token = LowerHex[q.token] /\ p.row = row
  <2>1. row # NoSnapshot /\ SnapshotsPriced
    BY <1>1, CapConstants DEF PriceInv
  <2>2. PricedIn(prices, LowerHex[q.token], row)
    BY <1>1, <2>1, SnapshotsAsPriced
  <2> HIDE DEF row
  <2> QED
    BY <2>2, Zenon DEF PricedIn
<1> HIDE DEF row
<1>3. CASE CapReached(row, q.target) /\ StartDerive(c, q, b, row)
  <2>1. /\ pc'[c] = "derive" /\ req'[c] = q /\ basis'[c] = b
        /\ quote'[c] = [row |-> row, passedAt |-> now]
    BY <1>3 DEF StartDerive, GoOn, TypeInv, TypeOK
  <2>2. QuotedIn(prices', q, [row |-> row, passedAt |-> now])
    BY <1>1, <1>2, <1>3 DEF QuotedIn, CapReached
  <2> QED
    BY <2>1, <2>2 DEF OnItsWay, Probing, Refreshing
<1>4. CASE \E a : Finish(c, a)
  BY <1>4, WayOver
<1> QED
  BY <1>3, <1>4 DEF CompareCap, row

LEMMA CapGateWay ==
  ASSUME TypeInv, PriceInv, NEW c \in Calls, NEW q \in GateRequests, NEW r \in Nat,
         PassHolderGate(c, q, r), UNCHANGED prices, Signed(q),
         q.threshold # 0 =>
           /\ HeldIn(readings', q.wallet, LowerHex[q.token], q.threshold, r)
           /\ now < r + ApprovalTTL
  PROVE  OnItsWay(c)'
<1> DEFINE b == [verifiedAt |-> r, passedAt |-> now]
<1>1. b \in Bases /\ b.verifiedAt = r /\ b.passedAt = now
  BY GateConstants DEF Bases, TypeInv, TypeOK
<1>2. BackedIn(readings', q, b)
  BY <1>1 DEF BackedIn
<1>3. MarketCapGate(c, q, b)
  BY DEF PassHolderGate
<1> HIDE DEF b
<1>4. CASE \E a : Finish(c, a)
  BY <1>4, WayOver
<1>5. CASE /\ CachedMarketCap(marketCapCache, q.token, now) # NoSnapshot
           /\ CompareCap(c, q, b, CachedMarketCap(marketCapCache, q.token, now))
  BY <1>1, <1>2, <1>5, CompareWay
<1>6. CASE StartRefresh(c, q, b)
  <2>1. pc'[c] = "refresh" /\ req'[c] = q /\ basis'[c] = b
    BY <1>6 DEF StartRefresh, GoOn, TypeInv, TypeOK
  <2> QED
    BY <1>2, <2>1 DEF OnItsWay
<1> QED
  BY <1>3, <1>4, <1>5, <1>6 DEF MarketCapGate

LEMMA WayRequest ==
  ASSUME TypeInv, PriceInv, EarnInv, NEW c \in Calls, NEW q \in GateRequests,
         RequestDecryptionKeyV4(c, q)
  PROVE  OnItsWay(c)'
<1> DEFINE k == ApprovalCacheKey(q)
<1>1. UNCHANGED <<readings, prices>> /\ now \in Nat
  BY GateConstants DEF RequestDecryptionKeyV4, history, TypeInv, TypeOK
<1>2. CASE UNCHANGED <<pc, callVars>>
  BY <1>1, <1>2, WayKept DEF EarnInv, callVars
<1>3. CASE q.threshold = 0 /\ Signed(q) /\ PassHolderGate(c, q, now)
  BY <1>1, <1>3, CapGateWay
<1>4. CASE /\ Signed(q) /\ IsApprovedHolder(approvedHolders, k, now)
           /\ PassHolderGate(c, q, approvedHolders[k])
  <2>1. k \in ApprovalKeys
    BY GateFields
  <2>2. approvedHolders[k] \in Nat /\ approvedHolders[k] # NoRow
    BY <1>4, <2>1 DEF IsApprovedHolder, ApprovalRows, TypeInv, TypeOK
  <2>3. now < approvedHolders[k] + ApprovalTTL
    BY <1>1, <1>4, <2>2, CacheConstants DEF IsApprovedHolder, IsStale
  <2>4. HeldIn(readings, k.wallet, k.token, k.threshold, approvedHolders[k])
    BY <2>1, <2>2 DEF EarnInv, RowsHeld
  <2>5. HeldIn(readings', q.wallet, LowerHex[q.token], q.threshold, approvedHolders[k])
    BY <1>1, <2>4 DEF ApprovalCacheKey
  <2> QED
    BY <1>1, <1>4, <2>2, <2>3, <2>5, CapGateWay
<1>5. CASE /\ Signed(q) /\ GoOn(c, "balance") /\ req' = [req EXCEPT ![c] = q]
  <2>1. pc'[c] = "balance" /\ req'[c] = q
    BY <1>5 DEF GoOn, TypeInv, TypeOK
  <2> QED
    BY <1>5, <2>1 DEF OnItsWay, Probing, Refreshing
<1>6. EpochStarted(q) /\ SignedByWallet(q) => Signed(q)
  <2>1. /\ now \in 0..MaxTime /\ MaxTime \in Nat /\ MaxTime < Width
        /\ EpochLength \in Nat \ {0} /\ Width \in Nat /\ q.epoch \in Nat
    BY GateConstants, GateFields, CacheConstants, TypedDataConstants
       DEF TypeInv, TypeOK
  <2>2. now \div EpochLength \in Nat /\ now \div EpochLength <= now
    BY <2>1, DivBounds, DivAtMost
  <2> QED
    BY <2>1, <2>2 DEF EpochStarted, CurrentEpoch, Signed
<1> QED
  BY <1>2, <1>3, <1>4, <1>5, <1>6
     DEF RequestDecryptionKeyV4, RefusedOnSight, Admitted, AnswerAtOnce

LEMMA WayBalance ==
  ASSUME TypeInv, PriceInv, EarnInv, NEW c \in Calls, CheckBalanceReturns(c)
  PROVE  /\ OnItsWay(c)'
         /\ \/ approvedHolders' = approvedHolders
            \/ \E k \in ApprovalKeys :
                 /\ approvedHolders' = [approvedHolders EXCEPT ![k] = now]
                 /\ HeldIn(readings', k.wallet, k.token, k.threshold, now)
<1> DEFINE q == req[c]
           k == ApprovalCacheKey(q)
<1>1. /\ pc[c] = "balance" /\ q \in GateRequests /\ Signed(q)
      /\ UNCHANGED prices /\ now \in Nat
  BY GateConstants
     DEF CheckBalanceReturns, TypeInv, TypeOK, CallShape, EarnInv, OnItsWay
<1>2. k \in ApprovalKeys /\ q.threshold \in Nat
      /\ k.wallet = q.wallet /\ k.token = LowerHex[q.token] /\ k.threshold = q.threshold
  BY <1>1, GateFields DEF ApprovalCacheKey
<1>3. now < now + ApprovalTTL
  BY <1>1, CacheConstants
<1> HIDE DEF k
<1>4. CASE (\E a : Finish(c, a)) /\ UNCHANGED approvedHolders
  BY <1>4, WayOver
<1>5. ASSUME NEW b \in Balances, b >= q.threshold,
             readings' = readings \union
               {[wallet |-> q.wallet, token |-> LowerHex[q.token],
                 balance |-> b, at |-> now]},
             approvedHolders' = RecordApproval(approvedHolders, k, now),
             PassHolderGate(c, q, now)
      PROVE  /\ OnItsWay(c)'
             /\ \E x \in ApprovalKeys :
                  /\ approvedHolders' = [approvedHolders EXCEPT ![x] = now]
                  /\ HeldIn(readings', x.wallet, x.token, x.threshold, now)
  <2> DEFINE new == [wallet |-> q.wallet, token |-> LowerHex[q.token],
                     balance |-> b, at |-> now]
  <2>1. new \in readings' /\ new.wallet = q.wallet /\ new.token = LowerHex[q.token]
        /\ new.balance = b /\ new.at = now
    BY <1>5
  <2> HIDE DEF new
  <2>2. HeldIn(readings', q.wallet, LowerHex[q.token], q.threshold, now)
    BY <1>1, <1>5, <2>1 DEF HeldIn
  <2>3. OnItsWay(c)'
    BY <1>1, <1>3, <1>5, <2>2, CapGateWay
  <2> QED
    BY <1>2, <1>5, <2>2, <2>3 DEF RecordApproval
<1> QED
  BY <1>4, <1>5 DEF CheckBalanceReturns, AwaitFails, k

LEMMA WayCap ==
  ASSUME TypeInv, EarnInv, NEW c \in Calls, NEW r \in CapRequests, GetMarketCap(c, r)
  PROVE  OnItsWay(c)'
<1>1. CASE UNCHANGED <<pc, callVars>>
  BY <1>1, WayKept DEF EarnInv, callVars, GetMarketCap, history
<1>2. CASE StartRefresh(c, r, NoBasis)
  <2>1. r \notin GateRequests
    BY CapFields, GateFields
  <2>2. pc'[c] = "refresh" /\ req'[c] = r
    BY <1>2 DEF StartRefresh, GoOn, TypeInv, TypeOK
  <2> QED
    BY <2>1, <2>2 DEF OnItsWay
<1> QED
  BY <1>1, <1>2 DEF GetMarketCap, AnswerAtOnce

(* A refresh that goes on keeps what its caller had when it began. *)
LEMMA WayOnward ==
  ASSUME TypeInv, EarnInv, NEW c \in Calls, pc[c] \in Refreshing,
         NEW place \in Refreshing, GoOn(c, place), UNCHANGED <<req, basis>>,
         readings \subseteq readings'
  PROVE  OnItsWay(c)'
<1>1. req[c] \in GateRequests => BackedIn(readings', req[c], basis[c])
  BY BackedGrows DEF EarnInv, OnItsWay
<1>2. pc'[c] = place
  BY DEF GoOn, TypeInv, TypeOK
<1> QED
  BY <1>1, <1>2 DEF OnItsWay, Refreshing, Probing

LEMMA WayProbe ==
  ASSUME TypeInv, EarnInv, NEW c \in Calls,
         \/ RefreshStarts(c) \/ TokenBondReturns(c) \/ TokenDecimalsReturns(c)
         \/ ReserveDecimalsReturns(c) \/ TotalSupplyReturns(c)
         \/ PriceForNextMintReturns(c)
  PROVE  OnItsWay(c)'
<1>1. CASE \E a : Finish(c, a)
  BY <1>1, WayOver
<1>2. CASE \E place \in Refreshing : GoOn(c, place) /\ UNCHANGED <<req, basis>>
  <2>1. pc[c] \in Refreshing /\ readings \subseteq readings'
    BY DEF RefreshStarts, TokenBondReturns, TokenDecimalsReturns,
       ReserveDecimalsReturns, TotalSupplyReturns, PriceForNextMintReturns,
       Refreshing, Probing, history
  <2> QED
    BY <1>2, <2>1, WayOnward
<1>3. CASE RefreshStarts(c)
  BY <1>2, <1>3 DEF RefreshStarts, Refreshing, Probing
<1>4. CASE TokenBondReturns(c)
  BY <1>1, <1>2, <1>4
     DEF TokenBondReturns, ProbeFails, AwaitFails, callVars, Refreshing, Probing
<1>5. CASE TokenDecimalsReturns(c)
  BY <1>1, <1>2, <1>5
     DEF TokenDecimalsReturns, ProbeFails, AwaitFails, Refreshing, Probing
<1>6. CASE ReserveDecimalsReturns(c)
  BY <1>1, <1>2, <1>6
     DEF ReserveDecimalsReturns, ProbeFails, AwaitFails, Refreshing, Probing
<1>7. CASE TotalSupplyReturns(c)
  BY <1>1, <1>2, <1>7
     DEF TotalSupplyReturns, ProbeFails, AwaitFails, Refreshing, Probing
<1>8. CASE PriceForNextMintReturns(c)
  BY <1>1, <1>2, <1>8
     DEF PriceForNextMintReturns, ProbeFails, AwaitFails, Refreshing, Probing
<1> QED
  BY <1>3, <1>4, <1>5, <1>6, <1>7, <1>8

LEMMA WayCompared ==
  ASSUME TypeInv, PriceInv, EarnInv, NEW c \in Calls, RefreshReturns(c)
  PROVE  OnItsWay(c)'
<1>1. CASE \E a : Finish(c, a)
  BY <1>1, WayOver
<1>2. CASE /\ req[c].kind = "gate"
           /\ CachedMarketCap(marketCapCache, req[c].token, now) # NoSnapshot
           /\ CompareCap(c, req[c], basis[c],
                         CachedMarketCap(marketCapCache, req[c].token, now))
  <2>1. pc[c] = "recorded" /\ UNCHANGED <<readings, prices>>
    BY DEF RefreshReturns, history
  <2>2. req[c] \in GateRequests /\ basis[c] \in Bases
    BY <1>2, <2>1, RequestFields DEF TypeInv, CallShape, Refreshing
  <2>3. BackedIn(readings', req[c], basis[c])
    BY <2>1, <2>2 DEF EarnInv, OnItsWay, Refreshing
  <2> QED
    BY <1>2, <2>1, <2>2, <2>3, CompareWay
<1> QED
  BY <1>1, <1>2 DEF RefreshReturns

(* Step E hands out a key for what the gates saw. *)
LEMMA KeyEarned ==
  ASSUME TypeInv, EarnInv, NEW c \in Calls,
         \/ DeriveKeyReturns(c) \/ PublicKeyReturns(c) \/ WarmupReturns(c)
         \/ WarmupVetKDPublicKeyV4(c)
  PROVE  /\ OnItsWay(c)'
         /\ \A g \in grants' \ grants : Earned(g)
<1>1. UNCHANGED <<readings, prices>>
  BY DEF DeriveKeyReturns, PublicKeyReturns, WarmupReturns, WarmupVetKDPublicKeyV4,
     history
<1>2. OnItsWay(c)'
  <2>1. CASE \E a : Finish(c, a)
    BY <2>1, WayOver
  <2>2. CASE \E place \in {"pubkey", "warmup"} :
               /\ GoOn(c, place) /\ UNCHANGED callVars
               /\ place = "pubkey" => pc[c] = "derive"
    <3>1. PICK place \in {"pubkey", "warmup"} :
            /\ GoOn(c, place) /\ UNCHANGED callVars
            /\ place = "pubkey" => pc[c] = "derive"
      BY <2>2
    <3>2. /\ pc'[c] = place /\ req'[c] = req[c] /\ basis'[c] = basis[c]
          /\ quote'[c] = quote[c]
      BY <3>1 DEF GoOn, callVars, TypeInv, TypeOK
    <3>3. CASE place = "pubkey"
      <4>1. /\ BackedIn(readings', req[c], basis[c])
            /\ QuotedIn(prices', req[c], quote[c])
        BY <1>1, <3>1, <3>3 DEF EarnInv, OnItsWay
      <4> QED
        BY <3>2, <3>3, <4>1 DEF OnItsWay, Refreshing, Probing
    <3>4. CASE place = "warmup"
      BY <3>2, <3>4 DEF OnItsWay, Refreshing, Probing
    <3> QED
      BY <3>3, <3>4
  <2> QED
    BY <2>1, <2>2 DEF DeriveKeyReturns, PublicKeyReturns, WarmupReturns,
       WarmupVetKDPublicKeyV4, ReportVetKDError
<1>3. \A g \in grants' \ grants : Earned(g)
  <2>1. ASSUME Grant(c), pc[c] \in {"derive", "pubkey"}
        PROVE  \A g \in grants' \ grants : Earned(g)
    <3> DEFINE new == [req |-> req[c], input |-> DerivationInputV4(req[c]),
                       basis |-> basis[c], quote |-> quote[c]]
    <3>1. /\ BackedIn(readings, req[c], basis[c])
          /\ QuotedIn(prices, req[c], quote[c])
      BY <2>1 DEF EarnInv, OnItsWay
    <3>2. /\ new.req = req[c] /\ new.input = DerivationInputV4(req[c])
          /\ new.basis = basis[c] /\ new.quote = quote[c]
      OBVIOUS
    <3>3. grants' = grants \union {new}
      BY <2>1 DEF Grant
    <3> HIDE DEF new
    <3> QED
      BY <3>1, <3>2, <3>3 DEF Earned
  <2> QED
    BY <2>1 DEF DeriveKeyReturns, PublicKeyReturns, WarmupReturns,
       WarmupVetKDPublicKeyV4, history
<1> QED
  BY <1>2, <1>3

(* Only a sufficient balance writes an approval. *)
LEMMA RowsMove ==
  ASSUME TypeInv, [Next]_vars
  PROVE  \/ \A k \in ApprovalKeys :
              approvedHolders'[k] = approvedHolders[k] \/ approvedHolders'[k] = NoRow
         \/ \E c \in Calls : CheckBalanceReturns(c)
<1>1. ASSUME NEW c \in Calls, NEW q \in GateRequests, RequestDecryptionKeyV4(c, q)
      PROVE  \A k \in ApprovalKeys :
               approvedHolders'[k] = approvedHolders[k] \/ approvedHolders'[k] = NoRow
  <2>1. ApprovalCacheKey(q) \in ApprovalKeys /\ approvedHolders \in ApprovalRows
    BY GateFields DEF TypeInv, TypeOK
  <2> QED
    BY <1>1, <2>1 DEF RequestDecryptionKeyV4, RefusedOnSight, Admitted, gateVars,
       DropIfStale, ApprovalRows
<1>2. ASSUME NEW m \in Batches, EvictExpiredApprovals(m)
      PROVE  \A k \in ApprovalKeys :
               approvedHolders'[k] = approvedHolders[k] \/ approvedHolders'[k] = NoRow
  BY <1>2 DEF EvictExpiredApprovals, Without
<1>3. CASE UNCHANGED approvedHolders
  BY <1>3
<1> QED
  BY <1>1, <1>2, <1>3 DEF Next, Continue, Refresh, GetMarketCap, RefreshStarts,
     TokenBondReturns, TokenDecimalsReturns, ReserveDecimalsReturns,
     TotalSupplyReturns, PriceForNextMintReturns, RefreshReturns,
     DeriveKeyReturns, PublicKeyReturns, WarmupReturns, WarmupVetKDPublicKeyV4,
     SetBondConfig, EvictExpiredMarketCaps, Upgrade, Tick, vars, gateVars

LEMMA RowsStep ==
  ASSUME TypeInv, PriceInv, EarnInv, [Next]_vars
  PROVE  RowsHeld'
<1> SUFFICES ASSUME NEW k \in ApprovalKeys, approvedHolders'[k] # NoRow
             PROVE  HeldIn(readings', k.wallet, k.token, k.threshold,
                           approvedHolders'[k])
  BY DEF RowsHeld
<1>1. CASE approvedHolders'[k] = approvedHolders[k]
  BY <1>1, HistoryGrows, HeldGrows DEF EarnInv, RowsHeld
<1>2. ASSUME NEW c \in Calls, CheckBalanceReturns(c)
      PROVE  HeldIn(readings', k.wallet, k.token, k.threshold, approvedHolders'[k])
  <2>1. ASSUME NEW x \in ApprovalKeys,
               approvedHolders' = [approvedHolders EXCEPT ![x] = now],
               HeldIn(readings', x.wallet, x.token, x.threshold, now)
        PROVE  HeldIn(readings', k.wallet, k.token, k.threshold, approvedHolders'[k])
    <3>1. approvedHolders'[k] = IF k = x THEN now ELSE approvedHolders[k]
      BY <2>1 DEF TypeInv, TypeOK, ApprovalRows
    <3> QED
      BY <1>1, <2>1, <3>1
  <2> QED
    BY <1>1, <1>2, <2>1, WayBalance
<1> QED
  BY <1>1, <1>2, RowsMove

LEMMA GrantsMove ==
  ASSUME [Next]_vars
  PROVE  \/ UNCHANGED grants
         \/ \E c \in Calls : DeriveKeyReturns(c) \/ PublicKeyReturns(c)
BY DEF Next, Continue, Refresh, RequestDecryptionKeyV4, GetMarketCap,
   CheckBalanceReturns, RefreshStarts, TokenBondReturns, TokenDecimalsReturns,
   ReserveDecimalsReturns, TotalSupplyReturns, PriceForNextMintReturns,
   RefreshReturns, WarmupReturns, WarmupVetKDPublicKeyV4, SetBondConfig,
   EvictExpiredApprovals, EvictExpiredMarketCaps, Upgrade, Tick, Operator, vars,
   history

LEMMA EarnStep == TypeInv /\ PriceInv /\ EarnInv /\ [Next]_vars => EarnInv'
<1> SUFFICES ASSUME TypeInv, PriceInv, EarnInv, [Next]_vars PROVE EarnInv'
  OBVIOUS
<1>1. readings \subseteq readings' /\ prices \subseteq prices'
  BY HistoryGrows
<1>2. \A d \in Calls : Same(d) => OnItsWay(d)'
  BY <1>1, WayKept DEF EarnInv, Same
<1>3. \A d \in Calls : OnItsWay(d)'
  <2>1. ASSUME NEW c \in Calls, Acts(c)
        PROVE  \A d \in Calls : OnItsWay(d)'
    <3>1. \A d \in Calls \ {c} : OnItsWay(d)'
      BY <1>2, <2>1, ActsAlone
    <3>2. OnItsWay(c)'
      BY <2>1, WayRequest, WayCap, WayBalance, WayProbe, WayCompared, KeyEarned
         DEF Acts, Continue, Refresh
    <3> QED
      BY <3>1, <3>2
  <2>2. CASE UNCHANGED <<pc, callVars>>
    BY <1>2, <2>2 DEF Same, callVars
  <2> QED
    BY <2>1, <2>2, StepKinds
<1>4. \A g \in grants' : Earned(g)
  BY GrantsMove, KeyEarned DEF EarnInv
<1>5. \A g \in grants' : Earned(g)'
  <2> SUFFICES ASSUME NEW g \in grants' PROVE Earned(g)'
    OBVIOUS
  <2>1. Earned(g)
    BY <1>4
  <2> QED
    BY <1>1, <2>1, BackedGrows, QuotedGrows DEF Earned
<1> QED
  BY <1>3, <1>5, RowsStep DEF EarnInv

LEMMA EarnAlways == Spec => []EarnInv
<1>1. Init => EarnInv
  BY DEF Init, EarnInv, RowsHeld, EmptyApprovals, OnItsWay, Refreshing, Probing
<1> QED
  BY <1>1, EarnStep, TypeCorrect, PriceAlways, PTL DEF Spec

(* A nonce opens the gate at most once, and so does a signature over       *)
(* nonces that are uint256: whoever is in flight or was answered has       *)
(* passed the signature check.                                             *)
THEOREM NonceSafety == Spec => []NonceSpentOnce
<1>1. ASSUME TypeInv, NonceInv, EarnInv
      PROVE  NonceSpentOnce
  <2>1. ASSUME NEW c \in Calls, InFlight(c)
        PROVE  req[c] \in GateRequests /\ SignedByWallet(req[c])
    <3>1. req[c] \in GateRequests
      BY <1>1, <2>1, RequestFields DEF InFlight, TypeInv, TypeOK
    <3>2. pc[c] \in {"balance", "derive", "pubkey"} \union Refreshing
      BY <1>1, <2>1 DEF InFlight, TypeInv, TypeOK, CallShape, Refreshing, Probing
    <3>3. OnItsWay(c)
      BY <1>1 DEF EarnInv
    <3> QED
      BY <3>1, <3>2, <3>3 DEF OnItsWay, BackedIn, Signed
  <2>2. ASSUME NEW g \in grants
        PROVE  g.req \in GateRequests /\ SignedByWallet(g.req)
    BY <1>1 DEF TypeInv, TypeOK, Grants, EarnInv, Earned, BackedIn, Signed
  <2>3. NoncesApart
    BY <1>1 DEF NonceInv
  <2>4. ASSUME NEW c \in Calls, NEW d \in Calls, InFlight(c), InFlight(d),
               SameMessage(req[c], req[d])
        PROVE  c = d
    BY <2>1, <2>3, <2>4, SameSignature DEF NoncesApart, SameMessage
  <2>5. ASSUME NEW c \in Calls, NEW g \in grants, InFlight(c),
               SameMessage(req[c], g.req)
        PROVE  FALSE
    BY <2>1, <2>2, <2>3, <2>5, SameSignature DEF NoncesApart, SameMessage
  <2>6. ASSUME NEW g \in grants, NEW h \in grants, SameMessage(g.req, h.req)
        PROVE  g = h
    BY <2>2, <2>3, <2>6, SameSignature DEF NoncesApart, SameMessage
  <2> QED
    BY <2>4, <2>5, <2>6 DEF NonceSpentOnce
<1> QED
  BY <1>1, TypeCorrect, NonceAlways, EarnAlways, PTL

(* A chunk key goes only to a signer of its epoch and target, for a token  *)
(* the signer was seen to hold within the time an approval lives, and on a *)
(* fresh snapshot of that token that reached the target.                   *)
THEOREM KeysEarnedSafety == Spec => []ChunkKeysEarned
<1>1. TypeInv /\ EarnInv => ChunkKeysEarned
  <2> SUFFICES ASSUME TypeInv, EarnInv, NEW g \in grants
               PROVE  /\ g.req.sig.signer = g.req.wallet
                      /\ g.req.sig.over = StructHashV4(g.req)
                      /\ g.input.target < Width =>
                           g.input.target = g.req.sig.over.target
                      /\ g.input.threshold # 0 =>
                           /\ g.input.epoch = g.req.sig.over.epoch
                           /\ g.basis.passedAt < g.basis.verifiedAt + ApprovalTTL
                           /\ \E r \in readings :
                                /\ r.wallet = g.req.wallet
                                /\ r.token = LowerHex[g.input.token]
                                /\ r.balance >= g.input.threshold
                                /\ r.at <= g.basis.verifiedAt
                      /\ \E p \in prices :
                           p.token = LowerHex[g.input.token] /\ p.row = g.quote.row
                      /\ g.quote.row.capScaled >= g.input.target * g.quote.row.unit
                      /\ g.quote.passedAt - g.quote.row.fetchedAt <= CapTTL
    BY DEF ChunkKeysEarned
  <2>1. /\ BackedIn(readings, g.req, g.basis)
        /\ QuotedIn(prices, g.req, g.quote)
        /\ g.input = DerivationInputV4(g.req)
    BY DEF EarnInv, Earned
  <2>2. /\ g.input.token = g.req.token
        /\ g.input.threshold = g.req.threshold
        /\ g.input.target = g.req.target
        /\ g.input.threshold # 0 => g.input.epoch = g.req.epoch
    BY <2>1 DEF DerivationInputV4
  <2>3. /\ g.req.epoch \in Nat /\ g.req.epoch < Width
        /\ g.req.target \in Nat
    BY <2>1, GateFields, CacheConstants DEF TypeInv, TypeOK, Grants, BackedIn, Signed
  <2>4. /\ g.req.sig = [signer |-> g.req.wallet, over |-> StructHashV4(g.req)]
        /\ StructHashV4(g.req).epoch = g.req.epoch
        /\ g.req.target < Width => StructHashV4(g.req).target = g.req.target
    BY <2>1, <2>3, EncodedFits DEF BackedIn, Signed, SignedByWallet, StructHashV4
  <2> QED
    BY <2>1, <2>2, <2>4 DEF BackedIn, HeldIn, QuotedIn
<1> QED
  BY <1>1, EarnAlways, TypeCorrect, PTL

-----------------------------------------------------------------------------
(* What the reader is told. *)

(* The answer a message gives when it ends the call c. *)
Honest(a) == a.kind = "MarketCapNotReached" => a.actual < a.required

LEMMA SayHonest ==
  ASSUME NEW e, e # "MarketCapNotReached"
  PROVE  Honest(Say(e))
BY DEF Honest, Say

LEMMA CompareHonest ==
  ASSUME TypeInv, NEW c \in Calls, NEW q \in GateRequests, NEW b,
         CachedMarketCap(marketCapCache, q.token, now) # NoSnapshot,
         CompareCap(c, q, b, CachedMarketCap(marketCapCache, q.token, now))
  PROVE  Honest(answer')
<1> DEFINE row == CachedMarketCap(marketCapCache, q.token, now)
<1>1. row \in Snapshots /\ q.target \in Nat
  BY GateFields, FoundCap DEF TypeInv, TypeOK
<1> HIDE DEF row
<1>2. CASE answer' = Say("none")
  BY <1>2, SayHonest
<1>3. CASE ~ CapReached(row, q.target) /\ answer' = ReportMarketCap(q, row)
  <2>1. /\ row.capScaled \in Nat /\ row.unit \in Nat \ {0}
        /\ ~ (row.capScaled >= q.target * row.unit)
    BY <1>1, <1>3 DEF Snapshots, CapReached
  <2>2. WholeUnits(row) < q.target
    BY <1>1, <2>1, RoundedBelow DEF WholeUnits
  <2> QED
    BY <1>3, <2>2 DEF Honest, ReportMarketCap
<1> QED
  BY <1>2, <1>3 DEF CompareCap, StartDerive, GoOn, NoAnswer, Finish, row

LEMMA CapGateHonest ==
  ASSUME TypeInv, NEW c \in Calls, NEW q \in GateRequests, NEW b, MarketCapGate(c, q, b)
  PROVE  Honest(answer')
<1>1. CASE answer' \in {Say("InvalidOracle"), Say("none")}
  BY <1>1, SayHonest
<1>2. CASE /\ CachedMarketCap(marketCapCache, q.token, now) # NoSnapshot
           /\ CompareCap(c, q, b, CachedMarketCap(marketCapCache, q.token, now))
  BY <1>2, CompareHonest
<1> QED
  BY <1>1, <1>2 DEF MarketCapGate, StartRefresh, GoOn, NoAnswer, Finish

(* The steps that reach the comparison of step D, and all the others. *)
LEMMA AnswersHonest ==
  ASSUME TypeInv, [Next]_vars, Honest(answer)
  PROVE  Honest(answer')
<1>1. CASE \E e \in (Errors \ {"MarketCapNotReached"}) \union {"none", "ok"} :
             answer' = Say(e)
  BY <1>1, SayHonest
<1>2. ASSUME NEW c \in Calls, NEW q \in GateRequests, RequestDecryptionKeyV4(c, q)
      PROVE  Honest(answer')
  BY <1>1, <1>2, CapGateHonest DEF RequestDecryptionKeyV4, RefusedOnSight, Admitted,
     AnswerAtOnce, PassHolderGate, GoOn, NoAnswer
<1>3. ASSUME NEW c \in Calls, CheckBalanceReturns(c)
      PROVE  Honest(answer')
  <2>1. req[c] \in GateRequests
    BY <1>3 DEF CheckBalanceReturns, TypeInv, CallShape
  <2>2. CASE \E a, b : answer' = [kind |-> "InsufficientBalance",
                                  required |-> a, actual |-> b]
    BY <2>2 DEF Honest
  <2> QED
    BY <1>1, <1>3, <2>1, <2>2, CapGateHonest
       DEF CheckBalanceReturns, AwaitFails, Finish, PassHolderGate
<1>4. ASSUME NEW c \in Calls, RefreshReturns(c)
      PROVE  Honest(answer')
  <2>1. req[c].kind = "gate" => req[c] \in GateRequests
    BY <1>4, RequestFields DEF RefreshReturns, TypeInv, CallShape, Refreshing
  <2> QED
    BY <1>1, <1>4, <2>1, CompareHonest DEF RefreshReturns, Finish
<1>5. ASSUME NEW c \in Calls,
             \/ \E r \in CapRequests : GetMarketCap(c, r)
             \/ RefreshStarts(c) \/ TokenBondReturns(c) \/ TokenDecimalsReturns(c)
             \/ ReserveDecimalsReturns(c) \/ TotalSupplyReturns(c)
             \/ PriceForNextMintReturns(c)
      PROVE  Honest(answer')
  BY <1>1, <1>5 DEF GetMarketCap, AnswerAtOnce, StartRefresh, GoOn, NoAnswer,
     RefreshStarts, TokenBondReturns, TokenDecimalsReturns,
     ReserveDecimalsReturns, TotalSupplyReturns, PriceForNextMintReturns,
     ProbeFails, AwaitFails, Finish
<1>6. ASSUME NEW c \in Calls,
             \/ DeriveKeyReturns(c) \/ PublicKeyReturns(c) \/ WarmupReturns(c)
             \/ WarmupVetKDPublicKeyV4(c)
      PROVE  Honest(answer')
  BY <1>1, <1>6 DEF DeriveKeyReturns, PublicKeyReturns, WarmupReturns,
     WarmupVetKDPublicKeyV4, ReportVetKDError, Finish, GoOn, NoAnswer
<1>7. CASE \/ \E ch \in Chains, cfg \in Overrides : SetBondConfig(ch, cfg)
           \/ \E m \in Batches : EvictExpiredApprovals(m) \/ EvictExpiredMarketCaps(m)
           \/ Upgrade
           \/ Tick
  BY <1>1, <1>7 DEF SetBondConfig, EvictExpiredApprovals, EvictExpiredMarketCaps,
     Upgrade, Tick, Operator, NoAnswer
<1>8. CASE UNCHANGED vars
  BY <1>8 DEF vars
<1> QED
  BY <1>2, <1>3, <1>4, <1>5, <1>6, <1>7, <1>8 DEF Next, Continue, Refresh

(* A reader who is told that the cap is not reached is told a cap below    *)
(* the target, for every supply, price and number of decimals.             *)
THEOREM ReportSafety == Spec => []NotReachedIsBelow
<1>1. Init => NotReachedIsBelow
  BY DEF Init, NotReachedIsBelow, Say
<1>2. TypeInv /\ NotReachedIsBelow /\ [Next]_vars => NotReachedIsBelow'
  BY AnswersHonest DEF NotReachedIsBelow, Honest
<1> QED
  BY <1>1, <1>2, TypeCorrect, PTL DEF Spec

-----------------------------------------------------------------------------
(* The burst cache implements LiveRows. *)

(* A step that keeps the clock and drops old rows only is not visible. *)
LEMMA CapsKept ==
  ASSUME now' = now, CapsOnlyDropped
  PROVE  UNCHANGED Promise!vars
<1>1. \A k \in Tokens :
        (IF IsFreshCap(marketCapCache[k], now)
           THEN marketCapCache[k].fetchedAt ELSE NoSnapshot)
        = (IF IsFreshCap(marketCapCache'[k], now')
             THEN marketCapCache'[k].fetchedAt ELSE NoSnapshot)
  BY DEF CapsOnlyDropped, IsFreshCap
<1> QED
  BY <1>1 DEF Promise!vars, LiveCaps, IsFreshCap

LEMMA CapRecorded ==
  ASSUME TypeInv, NEW c \in Calls, pc[c] = "priceForNextMint", RecordsCap(c)
  PROVE  Promise!Next
<1> DEFINE k == LowerHex[req[c].token]
<1>1. k \in Tokens /\ now' = now /\ now \in Nat
  BY RefreshFields, GateConstants DEF RecordsCap, TypeInv, TypeOK, Probing
<1>2. /\ marketCapCache'[k] \in Snapshots
      /\ marketCapCache'[k].fetchedAt = now
      /\ \A x \in Tokens : x # k => marketCapCache'[x] = marketCapCache[x]
  <2>1. PICK p \in Prices :
          marketCapCache' = RecordMarketCap(marketCapCache, req[c].token,
                              CapOf(work[c], p), work[c].reserveUnit, now)
    BY DEF RecordsCap
  <2>2. /\ marketCapCache'[k] = [capScaled |-> CapOf(work[c], p),
                                 unit |-> work[c].reserveUnit, fetchedAt |-> now]
        /\ marketCapCache'[k] \in Snapshots
        /\ \A x \in Tokens : x # k => marketCapCache'[x] = marketCapCache[x]
    BY <2>1, CapComputed
  <2> QED
    BY <2>2
<1> HIDE DEF k
<1>3. IsFreshCap(marketCapCache'[k], now')
  BY <1>1, <1>2, CapConstants DEF IsFreshCap
<1>4. ASSUME NEW x \in Tokens
      PROVE  (IF IsFreshCap(marketCapCache'[x], now')
                THEN marketCapCache'[x].fetchedAt ELSE NoSnapshot)
             = IF x = k THEN now ELSE LiveCaps[x]
  BY <1>1, <1>2, <1>3 DEF LiveCaps
<1>5. LiveCaps' = [LiveCaps EXCEPT ![k] = now]
  BY <1>1, <1>4 DEF LiveCaps, IsFreshCap
<1> QED
  BY <1>1, <1>5 DEF Promise!Next, Promise!Record

LEMMA CapsAge ==
  ASSUME TypeInv, Tick
  PROVE  Promise!Next
<1>1. now' > now /\ now \in Nat /\ now' \in Nat /\ UNCHANGED marketCapCache
  BY GateConstants DEF Tick, priceVars, TypeInv, TypeOK
<1>2. ASSUME NEW k \in Tokens
      PROVE  (IF IsFreshCap(marketCapCache'[k], now')
                THEN marketCapCache'[k].fetchedAt ELSE NoSnapshot)
             = IF Promise!Expired(k, now') THEN NoSnapshot ELSE LiveCaps[k]
  <2>1. CASE marketCapCache[k] = NoSnapshot
    BY <1>1, <2>1 DEF LiveCaps, IsFreshCap
  <2>2. CASE marketCapCache[k] # NoSnapshot
    <3>1. marketCapCache[k] \in Snapshots /\ marketCapCache[k].fetchedAt \in Nat
      BY <2>2 DEF TypeInv, TypeOK, CapRows, Snapshots
    <3> QED
      BY <1>1, <2>2, <3>1, CapConstants DEF Promise!Expired, LiveCaps, IsFreshCap
  <2> QED
    BY <2>1, <2>2
<1>3. LiveCaps' = [k \in Tokens |->
                     IF Promise!Expired(k, now') THEN NoSnapshot ELSE LiveCaps[k]]
  BY <1>2 DEF LiveCaps, IsFreshCap
<1> QED
  BY <1>1, <1>3 DEF Promise!Next, Promise!Advance

LEMMA ClockMoves ==
  ASSUME [Next]_vars
  PROVE  now' = now \/ Tick
BY DEF Next, Continue, Refresh, RequestDecryptionKeyV4, GetMarketCap,
   CheckBalanceReturns, RefreshStarts, TokenBondReturns, TokenDecimalsReturns,
   ReserveDecimalsReturns, TotalSupplyReturns, PriceForNextMintReturns,
   RefreshReturns, DeriveKeyReturns, PublicKeyReturns, WarmupReturns,
   WarmupVetKDPublicKeyV4, SetBondConfig, EvictExpiredApprovals,
   EvictExpiredMarketCaps, Upgrade, Operator, vars

(* The snapshots of the burst cache, refreshed by calls that overlap,      *)
(* dropped lazily, evicted in batches and kept when the Bond table changes *)
(* or the canister is upgraded, live exactly as LiveRows says.             *)
THEOREM SnapshotsLive == Spec => SnapshotsKeepPromise
<1>1. Init => Promise!Init
  BY DEF Init, Promise!Init, LiveCaps, EmptyCaps, IsFreshCap
<1>2. TypeInv /\ [Next]_vars => [Promise!Next]_Promise!vars
  BY CapsMove, CapsKept, CapRecorded, CapsAge, ClockMoves
<1> QED
  BY <1>1, <1>2, TypeCorrect, PTL DEF Spec, SnapshotsKeepPromise, Promise!Spec

=============================================================================
