---------------------------- MODULE GateV3Proofs ----------------------------
(***************************************************************************)
(* Proofs about the protocol-v3 gate, for every number of calls, wallets,  *)
(* nonces and key names and for every clock bound.                         *)
(***************************************************************************)
EXTENDS GateV3, TLAPS

USE DEF Errors, Waiting

(* What a call in flight carries at each place where it waits. *)
CallShape ==
  \A c \in Calls :
    /\ pc[c] \in {"eth_call", "balance", "derive", "pubkey"} => req[c] \in Requests
    /\ pc[c] \in {"idle", "warmup"} => req[c] = NoRequest
    /\ pc[c] \in {"derive", "pubkey"} => basis[c] \in Bases /\ ekey[c] \in KeyNames
    /\ pc[c] \in {"pubkey", "warmup"} => asked[c] \in KeyNames

(* The part of TypeOK that Finish, Refuse and the two Starts write. *)
CallsTyped ==
  /\ pc \in [Calls -> Waiting \union {"idle"}]
  /\ req \in [Calls -> Requests \union {NoRequest}]
  /\ seen \in [Calls -> Outcomes]
  /\ basis \in [Calls -> Bases \union {NoBasis}]
  /\ ekey \in [Calls -> KeyNames \union {NoKey}]
  /\ asked \in [Calls -> KeyNames \union {NoKey}]
  /\ answer \in Errors \union {"none", "ok"}
  /\ CallShape

TypeInv == TypeOK /\ CallShape

-----------------------------------------------------------------------------
(* Facts about the helpers. *)

LEMMA RequestFields ==
  ASSUME NEW q \in Requests
  PROVE  /\ q.token \in Tokens
         /\ LowerHex[q.token] \in Tokens
         /\ q.threshold \in Thresholds
         /\ q.threshold \in Nat
         /\ q.epoch \in Epochs
         /\ q.epoch \in Nat
         /\ q.wallet \in Wallets
         /\ q.nonce \in Nonces
         /\ ApprovalCacheKey(q) \in ApprovalKeys
         /\ DerivationInputV3(q) \in Inputs
BY GateConstants, CacheConstants, TokenConstants
   DEF GateRequests, ApprovalCacheKey, ApprovalKeys, DerivationInputV3, Inputs

(* A number below Width is encoded as it is. *)
LEMMA EncodedFits ==
  ASSUME NEW n \in Nat, n < Width
  PROVE  encodeUint256(n) = n
BY TypedDataConstants DEF encodeUint256

(* One signature stands for one nonce, as long as nonces are uint256. *)
LEMMA SameSignature ==
  ASSUME NEW q \in Requests, NEW r \in Requests, Fits(q), Fits(r),
         SignedByWallet(q), SignedByWallet(r), q.sig = r.sig
  PROVE  q.nonce = r.nonce
<1>1. q.nonce \in Nonces /\ r.nonce \in Nonces
  BY RequestFields
<1>2. q.nonce.number \in Nat /\ r.nonce.number \in Nat
  BY <1>1 DEF Nonces
<1>3. q.sig.over.nonce = EncodedNonce(q.nonce) /\ r.sig.over.nonce = EncodedNonce(r.nonce)
  BY DEF SignedByWallet, StructHashV3
<1>4. /\ EncodedNonce(q.nonce) = [q.nonce EXCEPT !.number = q.nonce.number]
      /\ EncodedNonce(r.nonce) = [r.nonce EXCEPT !.number = r.nonce.number]
  BY <1>2, EncodedFits DEF EncodedNonce, Fits
<1>5. EncodedNonce(q.nonce) = q.nonce /\ EncodedNonce(r.nonce) = r.nonce
  BY <1>1, <1>4 DEF Nonces
<1> QED
  BY <1>3, <1>5

LEMMA FinishTyped ==
  ASSUME CallsTyped, NEW c \in Calls, NEW a \in Errors \union {"none", "ok"}, Finish(c, a)
  PROVE  CallsTyped'
BY DEF CallsTyped, CallShape, Finish, NothingSeen, Outcomes

LEMMA RefuseTyped ==
  ASSUME CallsTyped, NEW e \in Errors, NEW c \in Calls, Refuse(c, e)
  PROVE  CallsTyped'
BY DEF CallsTyped, CallShape, Refuse, callVars

LEMMA StartDeriveTyped ==
  ASSUME CallsTyped, NEW c \in Calls, NEW q \in Requests, NEW r \in Nat,
         now \in Nat, keyName \in KeyNames, StartDerive(c, q, r)
  PROVE  CallsTyped'
BY DEF CallsTyped, CallShape, StartDerive, NothingSeen, Outcomes, Bases, NoAnswer

LEMMA StartCheckBalanceTyped ==
  ASSUME CallsTyped, NEW c \in Calls, NEW q \in Requests, StartCheckBalance(c, q)
  PROVE  CallsTyped'
BY DEF CallsTyped, CallShape, StartCheckBalance, NoAnswer

-----------------------------------------------------------------------------
(* Type correctness. *)

LEMMA GateTyped ==
  ASSUME TypeInv, NEW c \in Calls, NEW q \in Requests, Gate(c, q)
  PROVE  TypeInv'
<1> USE DEF TypeInv, TypeOK
<1>1. CallsTyped
  BY DEF CallsTyped
<1>2. /\ now' = now /\ keyName' = keyName
      /\ grants' = grants /\ readings' = readings
  BY DEF Gate
<1>3. now \in Nat
  BY GateConstants
<1>4. CallsTyped' /\ usedNonces' \subseteq Nonces
      /\ approvedHolders' \in ApprovalRows /\ cachedKeyV3' = cachedKeyV3
  <2>1. CASE RefusedOnSight(c, q)
    <3>1. CallsTyped'
      BY <1>1, <2>1, RefuseTyped DEF RefusedOnSight
    <3> QED
      BY <2>1, <3>1 DEF RefusedOnSight, stateVars
  <2>2. CASE Admitted(c, q)
    <3> DEFINE k == ApprovalCacheKey(q)
    <3>1. usedNonces' \subseteq Nonces /\ cachedKeyV3' = cachedKeyV3
      BY <2>2, RequestFields DEF Admitted, NonceKey
    <3>2. CASE Refuse(c, "InvalidSignature") /\ UNCHANGED approvedHolders
      BY <1>1, <3>1, <3>2, RefuseTyped
    <3>3. CASE StartDerive(c, q, now) /\ UNCHANGED approvedHolders
      BY <1>1, <1>3, <3>1, <3>3, StartDeriveTyped
    <3>4. CASE /\ IsApprovedHolder(approvedHolders, k, now)
               /\ StartDerive(c, q, approvedHolders[k])
               /\ UNCHANGED approvedHolders
      <4>1. approvedHolders[k] \in Nat
        BY <3>4, RequestFields DEF IsApprovedHolder, ApprovalRows
      <4> QED
        BY <1>1, <1>3, <3>1, <3>4, <4>1, StartDeriveTyped
    <3>5. CASE /\ StartCheckBalance(c, q)
               /\ approvedHolders' = DropIfStale(approvedHolders, k, now)
      <4>1. approvedHolders' \in ApprovalRows
        BY <3>5 DEF DropIfStale, ApprovalRows
      <4> QED
        BY <1>1, <3>1, <3>5, <4>1, StartCheckBalanceTyped
    <3> QED
      BY <2>2, <3>2, <3>3, <3>4, <3>5 DEF Admitted
  <2> QED
    BY <2>1, <2>2 DEF Gate
<1> QED
  BY <1>2, <1>4 DEF CallsTyped

LEMMA GrantTyped ==
  ASSUME TypeInv, NEW c \in Calls, pc[c] \in {"derive", "pubkey"},
         NEW v \in KeyNames, Grant(c, v)
  PROVE  grants' \subseteq Grants
BY RequestFields DEF TypeInv, TypeOK, CallShape, Grant, Grants

LEMMA ContinueTyped ==
  ASSUME TypeInv, NEW c \in Calls, Continue(c)
  PROVE  TypeInv'
<1> USE DEF TypeInv, TypeOK
<1>1. CallsTyped /\ now \in Nat
  BY GateConstants DEF CallsTyped
<1>2. CASE EthCall(c)
  <2>1. CallsTyped'
    <3>1. \E o \in Outcomes : seen' = [seen EXCEPT ![c] = o]
      BY <1>2, GateConstants DEF EthCall, Outcomes
    <3>2. seen' \in [Calls -> Outcomes]
      BY <1>1, <3>1 DEF CallsTyped
    <3>3. /\ pc[c] = "eth_call"
          /\ pc' = [pc EXCEPT ![c] = "balance"]
          /\ UNCHANGED <<req, basis, ekey, asked>>
          /\ answer' = "none"
      BY <1>2 DEF EthCall, NoAnswer
    <3> QED
      BY <1>1, <3>2, <3>3 DEF CallsTyped, CallShape
  <2>2. readings' \subseteq Readings
    <3>1. req[c] \in Requests
      BY <1>2 DEF EthCall, CallShape
    <3>2. req[c].wallet \in Wallets /\ LowerHex[req[c].token] \in Tokens
      BY <3>1, RequestFields
    <3>3. \A b \in Balances :
            [wallet |-> req[c].wallet, token |-> LowerHex[req[c].token],
             balance |-> b, at |-> now] \in Readings
      BY <1>1, <3>2, GateConstants DEF Readings
    <3> QED
      BY <1>2, <3>3 DEF EthCall
  <2> QED
    BY <1>2, <2>1, <2>2 DEF EthCall, CallsTyped, stateVars
<1>3. CASE CheckBalanceReturns(c)
  <2>1. req[c] \in Requests
    BY <1>3 DEF CheckBalanceReturns, CallShape
  <2>2. CallsTyped' /\ approvedHolders' \in ApprovalRows
    <3>1. CASE /\ BalanceUnknown(c)
               /\ Finish(c, seen[c].kind)
               /\ UNCHANGED approvedHolders
      <4>1. seen[c] \in Outcomes
        BY <1>1 DEF CallsTyped
      <4>2. seen[c].kind \in Errors \/ seen[c].kind = "none"
        BY <4>1, <3>1 DEF Outcomes, BalanceUnknown
      <4> QED
        BY <1>1, <3>1, <4>2, FinishTyped
    <3>2. CASE Finish(c, "InsufficientBalance") /\ UNCHANGED approvedHolders
      BY <1>1, <3>2, FinishTyped
    <3>3. CASE /\ approvedHolders' = RecordApproval(approvedHolders,
                                       ApprovalCacheKey(req[c]), now)
               /\ StartDerive(c, req[c], now)
      <4>1. approvedHolders' \in ApprovalRows
        BY <1>1, <3>3 DEF RecordApproval, ApprovalRows
      <4> QED
        BY <1>1, <2>1, <3>3, <4>1, StartDeriveTyped
    <3> QED
      BY <1>3, <3>1, <3>2, <3>3 DEF CheckBalanceReturns
  <2> QED
    BY <1>3, <2>2 DEF CheckBalanceReturns, CallsTyped
<1>4. CASE DeriveKeyReturns(c)
  <2>1. CallsTyped' /\ grants' \subseteq Grants
    <3>1. CASE ReportVetKDError(c) /\ UNCHANGED grants
      BY <1>1, <3>1, FinishTyped DEF ReportVetKDError
    <3>2. CASE cachedKeyV3 # NoKey /\ Grant(c, cachedKeyV3) /\ Finish(c, "ok")
      BY <1>1, <1>4, <3>2, FinishTyped, GrantTyped DEF DeriveKeyReturns
    <3>3. CASE /\ pc' = [pc EXCEPT ![c] = "pubkey"]
               /\ asked' = [asked EXCEPT ![c] = keyName]
               /\ UNCHANGED <<req, seen, basis, ekey, grants>>
               /\ NoAnswer
      BY <1>1, <1>4, <3>3 DEF CallsTyped, CallShape, NoAnswer, DeriveKeyReturns
    <3> QED
      BY <1>4, <3>1, <3>2, <3>3 DEF DeriveKeyReturns
  <2> QED
    BY <1>4, <2>1 DEF DeriveKeyReturns, CallsTyped, stateVars
<1>5. CASE PublicKeyReturns(c)
  <2>1. asked[c] \in KeyNames
    BY <1>5 DEF PublicKeyReturns, CallShape
  <2>2. CallsTyped' /\ grants' \subseteq Grants /\ cachedKeyV3' \in KeyNames \union {NoKey}
    BY <1>1, <1>5, <2>1, FinishTyped, GrantTyped
       DEF PublicKeyReturns, ReportVetKDError
  <2> QED
    BY <1>5, <2>2 DEF PublicKeyReturns, CallsTyped
<1>6. CASE WarmupReturns(c)
  <2>1. asked[c] \in KeyNames
    BY <1>6 DEF WarmupReturns, CallShape
  <2>2. CallsTyped' /\ cachedKeyV3' \in KeyNames \union {NoKey}
    BY <1>1, <1>6, <2>1, FinishTyped DEF WarmupReturns, StoreWarmedKey
  <2> QED
    BY <1>6, <2>2 DEF WarmupReturns, CallsTyped
<1> QED
  BY <1>2, <1>3, <1>4, <1>5, <1>6 DEF Continue

LEMMA TypeStep == TypeInv /\ [Next]_vars => TypeInv'
<1> SUFFICES ASSUME TypeInv, [Next]_vars PROVE TypeInv'
  OBVIOUS
<1> USE DEF TypeInv, TypeOK
<1>1. ASSUME NEW c \in Calls, NEW q \in Requests,
             RequestDecryptionKeyV3(c, q) \/ BatchRequestDecryptionKeyV3(c, q)
      PROVE  TypeInv'
  BY <1>1, GateTyped DEF RequestDecryptionKeyV3, BatchRequestDecryptionKeyV3
<1>2. ASSUME NEW c \in Calls, Continue(c)
      PROVE  TypeInv'
  BY <1>2, ContinueTyped
<1>3. ASSUME NEW c \in Calls, WarmupVetKDPublicKeyV3(c)
      PROVE  TypeInv'
  BY <1>3 DEF WarmupVetKDPublicKeyV3, CallShape, NoAnswer, stateVars
<1>4. ASSUME NEW m \in EvictBatches, EvictExpiredApprovals(m)
      PROVE  TypeInv'
  <2>1. approvedHolders' \in ApprovalRows
    BY <1>4 DEF EvictExpiredApprovals, Without, ApprovalRows
  <2> QED
    BY <1>4, <2>1 DEF EvictExpiredApprovals, CallShape, callVars, NoAnswer
<1>5. CASE Upgrade
  BY <1>5 DEF Upgrade, CallShape, callVars, stateVars, NoAnswer
<1>6. CASE Tick
  BY <1>6, GateConstants DEF Tick, CallShape, callVars, stateVars, NoAnswer
<1>7. CASE UNCHANGED vars
  BY <1>7 DEF vars, CallShape
<1> QED
  BY <1>1, <1>2, <1>3, <1>4, <1>5, <1>6, <1>7 DEF Next

(* The variables keep their types, and every call carries the values its   *)
(* place in the handler needs: the request and, past the gate, the basis   *)
(* and the key names.                                                      *)
THEOREM TypeCorrect == Spec => []TypeInv
<1>1. Init => TypeInv
  BY GateConstants DEF Init, TypeInv, TypeOK, CallShape, ApprovalRows,
     EmptyApprovals, Outcomes, NothingSeen
<1> QED
  BY <1>1, TypeStep, PTL DEF Spec

(* TypeOK, the type invariant of the specification. *)
THEOREM TypeSafety == Spec => []TypeOK
BY TypeCorrect, PTL DEF TypeInv

-----------------------------------------------------------------------------
(* Nonces. *)

(* The part of NonceSpentOnce that speaks of nonces. *)
NoncesApart ==
  /\ \A c, d \in Calls :
       InFlight(c) /\ InFlight(d) /\ req[c].nonce = req[d].nonce => c = d
  /\ \A c \in Calls, g \in grants : InFlight(c) => req[c].nonce # g.req.nonce
  /\ \A g, h \in grants : g.req.nonce = h.req.nonce => g = h

(* It is not inductive: that a nonce is fresh when it is admitted only     *)
(* helps if those of the past are known to be used up.                     *)
NonceInv ==
  /\ \A c \in Calls : InFlight(c) => req[c].nonce \in usedNonces
  /\ \A g \in grants : g.req.nonce \in usedNonces
  /\ NoncesApart

(* How a step moves a call and the history of keys, as far as nonces go.   *)
LEMMA NonceFinish ==
  ASSUME TypeInv, NonceInv, NEW c \in Calls, NEW a, Finish(c, a),
         UNCHANGED <<usedNonces, grants>>
  PROVE  NonceInv'
BY DEF TypeInv, TypeOK, NonceInv, NoncesApart, InFlight, Finish

LEMMA NonceGrant ==
  ASSUME TypeInv, NonceInv, NEW c \in Calls, NEW a, NEW v,
         pc[c] \in {"derive", "pubkey"},
         Grant(c, v), Finish(c, a), UNCHANGED usedNonces
  PROVE  NonceInv'
<1>1. req[c] \in Requests /\ InFlight(c)
  BY GateConstants DEF TypeInv, CallShape, InFlight
<1> DEFINE new == [req |-> req[c], input |-> DerivationInputV3(req[c]),
                   basis |-> basis[c], ekey |-> ekey[c], vkey |-> v]
<1>2. grants' = grants \union {new} /\ new.req = req[c]
  BY DEF Grant
<1> HIDE DEF new
<1> QED
  BY <1>1, <1>2 DEF TypeInv, TypeOK, NonceInv, NoncesApart, InFlight, Finish

LEMMA NonceStart ==
  ASSUME TypeInv, NonceInv, NEW c \in Calls, NEW q \in Requests, pc[c] = "idle",
         q.nonce \notin usedNonces,
         usedNonces' = usedNonces \union {q.nonce},
         req' = [req EXCEPT ![c] = q] \/ req' = req,
         UNCHANGED grants
  PROVE  NonceInv'
<1>1. ~ InFlight(c)
  BY DEF TypeInv, CallShape, InFlight
<1> QED
  BY <1>1 DEF TypeInv, TypeOK, NonceInv, NoncesApart, InFlight

LEMMA NonceSame ==
  ASSUME NonceInv, UNCHANGED <<req, usedNonces, grants>>
  PROVE  NonceInv'
BY DEF NonceInv, NoncesApart, InFlight

(* A nonce yields at most one key, on both v3 endpoints together.          *)
THEOREM NonceAlways == Spec => []NonceInv
<1>1. Init => NonceInv
  BY DEF Init, NonceInv, NoncesApart, InFlight
<1>2. TypeInv /\ NonceInv /\ [Next]_vars => NonceInv'
  <2> SUFFICES ASSUME TypeInv, NonceInv, [Next]_vars PROVE NonceInv'
    OBVIOUS
  <2>1. ASSUME NEW c \in Calls, NEW q \in Requests, Gate(c, q)
        PROVE  NonceInv'
    <3>1. CASE RefusedOnSight(c, q)
      BY <2>1, <3>1, NonceSame
         DEF Gate, RefusedOnSight, Refuse, callVars, stateVars
    <3>2. CASE Admitted(c, q)
      <4>1. /\ pc[c] = "idle"
            /\ q.nonce \notin usedNonces
            /\ usedNonces' = usedNonces \union {q.nonce}
            /\ UNCHANGED grants
        BY <2>1, <3>2 DEF Gate, Admitted, NonceKey
      <4>2. req' = [req EXCEPT ![c] = q] \/ req' = req
        BY <3>2 DEF Admitted, Refuse, callVars, StartDerive, StartCheckBalance
      <4> QED
        BY <4>1, <4>2, NonceStart
    <3> QED
      BY <2>1, <3>1, <3>2 DEF Gate
  <2>2. ASSUME NEW c \in Calls, EthCall(c)
        PROVE  NonceInv'
    BY <2>2, NonceSame DEF EthCall, stateVars
  <2>3. ASSUME NEW c \in Calls, CheckBalanceReturns(c)
        PROVE  NonceInv'
    <3>1. CASE \E a : Finish(c, a)
      BY <2>3, <3>1, NonceFinish DEF CheckBalanceReturns
    <3>2. CASE StartDerive(c, req[c], now)
      BY <2>3, <3>2, NonceSame
         DEF CheckBalanceReturns, StartDerive, TypeInv, TypeOK
    <3> QED
      BY <2>3, <3>1, <3>2 DEF CheckBalanceReturns
  <2>4. ASSUME NEW c \in Calls, DeriveKeyReturns(c)
        PROVE  NonceInv'
    BY <2>4, NonceFinish, NonceGrant, NonceSame
       DEF DeriveKeyReturns, ReportVetKDError, stateVars
  <2>5. ASSUME NEW c \in Calls, PublicKeyReturns(c)
        PROVE  NonceInv'
    BY <2>5, NonceFinish, NonceGrant DEF PublicKeyReturns, ReportVetKDError
  <2>6. ASSUME NEW c \in Calls, WarmupReturns(c)
        PROVE  NonceInv'
    BY <2>6, NonceFinish DEF WarmupReturns
  <2>7. ASSUME NEW c \in Calls, WarmupVetKDPublicKeyV3(c)
        PROVE  NonceInv'
    BY <2>7, NonceSame DEF WarmupVetKDPublicKeyV3, stateVars
  <2>8. CASE \/ \E m \in EvictBatches : EvictExpiredApprovals(m)
             \/ Upgrade
             \/ Tick
             \/ UNCHANGED vars
    BY <2>8, NonceSame
       DEF EvictExpiredApprovals, Upgrade, Tick, vars, callVars, stateVars
  <2> QED
    BY <2>1, <2>2, <2>3, <2>4, <2>5, <2>6, <2>7, <2>8
       DEF Next, Continue, RequestDecryptionKeyV3, BatchRequestDecryptionKeyV3
<1> QED
  BY <1>1, <1>2, TypeCorrect, PTL DEF Spec

-----------------------------------------------------------------------------
(* Holders. *)

(* What stands behind a call that passed the gate. *)
Backed(q, b) ==
  /\ SignedByWallet(q)
  /\ q.epoch <= b.passedAt \div EpochLength
  /\ b.passedAt <= MaxTime
  /\ q.threshold # 0 =>
       /\ Proven(q.wallet, LowerHex[q.token], q.threshold, b.verifiedAt)
       /\ b.verifiedAt <= b.passedAt
       /\ b.passedAt < b.verifiedAt + ApprovalTTL

(* A call on its way through step C: signed, for an epoch that has begun,  *)
(* and what it saw of the chain was really there to see.                   *)
OnItsWay(c) ==
  /\ pc[c] \in {"eth_call", "balance"} =>
       SignedByWallet(req[c]) /\ req[c].epoch <= CurrentEpoch
  /\ pc[c] = "balance" /\ seen[c].kind = "ok" =>
       Proven(req[c].wallet, LowerHex[req[c].token], seen[c].balance, now)
  /\ pc[c] \in {"derive", "pubkey"} => Backed(req[c], basis[c])

(* KeysOnlyForHolders speaks of keys already handed out; what makes it     *)
(* inductive is the same of the calls in flight and of the cached rows     *)
(* they may pass on.                                                       *)
HolderInv ==
  /\ RowsProven
  /\ \A c \in Calls : OnItsWay(c)
  /\ \A g \in grants :
       Backed(g.req, g.basis) /\ g.input = DerivationInputV3(g.req)

(* Integer division by a positive number grows with the clock.             *)
LEMMA DivBounds ==
  ASSUME NEW L \in Nat \ {0}, NEW a \in Nat
  PROVE  /\ a \div L \in Nat
         /\ L * (a \div L) <= a
         /\ a < L * (a \div L) + L
OBVIOUS

LEMMA DivAtMost ==
  ASSUME NEW L \in Nat \ {0}, NEW a \in Nat
  PROVE  a \div L <= a
<1> DEFINE x == a \div L
<1>1. x \in Nat /\ L * x <= a
  BY DivBounds
<1> HIDE DEF x
<1>2. PICK d \in Nat : L = 1 + d
  <2>1. L - 1 \in Nat /\ L = 1 + (L - 1)
    OBVIOUS
  <2> QED
    BY <2>1
<1>3. L * x = x + d * x
  BY <1>1, <1>2
<1>4. d * x >= 0
  BY <1>1
<1> QED
  BY <1>1, <1>3, <1>4 DEF x

LEMMA EpochGrows ==
  ASSUME NEW L \in Nat \ {0}, NEW a \in Nat, NEW e \in Nat, e <= a \div L
  PROVE  e <= (a + 1) \div L
<1> DEFINE x == a \div L
           y == (a + 1) \div L
<1>1. x \in Nat /\ y \in Nat /\ L * x <= a /\ a + 1 < L * y + L
  BY DivBounds
<1> HIDE DEF x, y
<1>2. L * x < L * (y + 1)
  BY <1>1
<1>3. ~ (x >= y + 1)
  <2> SUFFICES ASSUME x >= y + 1 PROVE FALSE
    OBVIOUS
  <2>1. PICK d \in Nat : x = y + 1 + d
    <3>1. x - (y + 1) \in Nat
      BY <1>1
    <3> QED
      BY <3>1, <1>1
  <2>2. L * x = L * (y + 1) + L * d
    BY <2>1, <1>1
  <2>3. L * d >= 0
    OBVIOUS
  <2> QED
    BY <2>2, <2>3, <1>2, <1>1
<1> QED
  BY <1>1, <1>3 DEF x, y

(* Readings are never forgotten, and prove what is weaker and later too.   *)
LEMMA ProvenGrows ==
  ASSUME readings \subseteq readings', readings' \subseteq Readings,
         NEW w, NEW tok, NEW b \in Nat, NEW b2 \in Nat, NEW t \in Nat,
         NEW t2 \in Nat, b2 <= b, t <= t2, Proven(w, tok, b, t)
  PROVE  Proven(w, tok, b2, t2)'
BY DEF Proven, Readings

LEMMA ProvenWeaker ==
  ASSUME readings \subseteq Readings,
         NEW w, NEW tok, NEW b \in Nat, NEW b2 \in Nat, NEW t \in Nat,
         NEW t2 \in Nat, b2 <= b, t <= t2, Proven(w, tok, b, t)
  PROVE  Proven(w, tok, b2, t2)
BY DEF Proven, Readings

(* A step that only adds readings leaves what stands behind a call.        *)
LEMMA BackedGrows ==
  ASSUME readings \subseteq readings', readings' \subseteq Readings,
         NEW q \in Requests, NEW b \in Bases, Backed(q, b)
  PROVE  Backed(q, b)'
<1>1. q.threshold \in Nat /\ b.verifiedAt \in Nat
  BY RequestFields DEF Bases
<1> QED
  BY <1>1, ProvenGrows DEF Backed, SignedByWallet, StructHashV3

LEMMA RowsGrow ==
  ASSUME TypeInv, TypeInv', RowsProven, readings \subseteq readings',
         now <= now',
         \A k \in ApprovalKeys :
           approvedHolders'[k] \in {approvedHolders[k], NoRow}
  PROVE  RowsProven'
<1> SUFFICES ASSUME NEW k \in ApprovalKeys, approvedHolders'[k] # NoRow
             PROVE  /\ approvedHolders'[k] <= now'
                    /\ Proven(k.wallet, k.token, k.threshold,
                              approvedHolders[k])'
  BY DEF RowsProven
<1>1. approvedHolders'[k] = approvedHolders[k] /\ approvedHolders[k] \in Nat
  BY DEF TypeInv, TypeOK, ApprovalRows
<1>2. /\ approvedHolders[k] <= now
      /\ Proven(k.wallet, k.token, k.threshold, approvedHolders[k])
  BY <1>1 DEF RowsProven
<1>3. k.threshold \in Nat /\ now \in Nat /\ now' \in Nat
  <2>1. k.threshold \in Nat
    BY CacheConstants DEF ApprovalKeys
  <2>2. now \in Nat /\ now' \in Nat
    BY GateConstants DEF TypeInv, TypeOK
  <2> QED
    BY <2>1, <2>2
<1>4. readings' \subseteq Readings
  BY DEF TypeInv, TypeOK
<1> QED
  BY <1>1, <1>2, <1>3, <1>4, ProvenGrows

(* A call that a step does not touch stays on its way while time passes    *)
(* and the chain is read.                                                  *)
LEMMA WayKept ==
  ASSUME TypeInv, TypeInv', NEW d \in Calls, OnItsWay(d),
         readings \subseteq readings', now' \in {now, now + 1},
         pc'[d] = pc[d], req'[d] = req[d], seen'[d] = seen[d],
         basis'[d] = basis[d]
  PROVE  OnItsWay(d)'
<1>1. /\ now \in Nat /\ now' \in Nat /\ EpochLength \in Nat \ {0}
      /\ now <= now'
      /\ readings' \subseteq Readings
  BY GateConstants DEF TypeInv, TypeOK
<1>2. ASSUME pc[d] \in {"eth_call", "balance"}
      PROVE  SignedByWallet(req[d])' /\ (req[d].epoch <= CurrentEpoch)'
  <2>1. req[d].epoch \in Nat
    BY <1>2, RequestFields DEF TypeInv, CallShape
  <2>2. SignedByWallet(req[d]) /\ req[d].epoch <= now \div EpochLength
    BY <1>2 DEF OnItsWay, CurrentEpoch
  <2>3. req[d].epoch <= now' \div EpochLength
    BY <1>1, <2>1, <2>2, EpochGrows
  <2> QED
    BY <2>2, <2>3 DEF SignedByWallet, StructHashV3, CurrentEpoch
<1>3. ASSUME pc[d] = "balance", seen[d].kind = "ok"
      PROVE  Proven(req[d].wallet, LowerHex[req[d].token], seen[d].balance, now)'
  <2>1. PICK r \in readings : /\ r.wallet = req[d].wallet
                              /\ r.token = LowerHex[req[d].token]
                              /\ r.balance >= seen[d].balance
                              /\ r.at <= now
    BY <1>3 DEF OnItsWay, Proven
  <2>2. r \in readings' /\ r.at \in Nat
    BY <1>1 DEF Readings
  <2>3. r.at <= now'
    BY <1>1, <2>1, <2>2
  <2> QED
    BY <2>1, <2>2, <2>3 DEF Proven
<1>4. ASSUME pc[d] \in {"derive", "pubkey"}
      PROVE  Backed(req[d], basis[d])'
  <2>1. req[d] \in Requests /\ basis[d] \in Bases
    BY <1>4 DEF TypeInv, CallShape
  <2>2. Backed(req[d], basis[d])
    BY <1>4 DEF OnItsWay
  <2>3. ASSUME NEW q \in Requests, NEW b \in Bases, Backed(q, b)
        PROVE  Backed(q, b)'
    BY <1>1, <2>3, BackedGrows
  <2> QED
    BY <2>1, <2>2, <2>3 DEF Backed, SignedByWallet, StructHashV3, Proven
<1> QED
  BY <1>2, <1>3, <1>4 DEF OnItsWay

LEMMA GrantsKept ==
  ASSUME TypeInv', readings \subseteq readings', grants' = grants,
         \A g \in grants :
           Backed(g.req, g.basis) /\ g.input = DerivationInputV3(g.req)
  PROVE  (\A g \in grants :
            Backed(g.req, g.basis) /\ g.input = DerivationInputV3(g.req))'
<1>1. readings' \subseteq Readings /\ grants' \subseteq Grants
  BY DEF TypeInv, TypeOK
<1> SUFFICES ASSUME NEW g \in grants
             PROVE  Backed(g.req, g.basis)' /\ g.input = DerivationInputV3(g.req)
  BY DEF DerivationInputV3
<1>2. g.req \in Requests /\ g.basis \in Bases
  BY <1>1 DEF Grants
<1> QED
  BY <1>1, <1>2, BackedGrows

(* A call that is over is on its way nowhere. *)
LEMMA WayOver ==
  ASSUME TypeInv, NEW c \in Calls, NEW a, Finish(c, a)
  PROVE  OnItsWay(c)'
BY DEF Finish, OnItsWay, TypeInv, TypeOK

LEMMA HolderFinish ==
  ASSUME TypeInv, TypeInv', HolderInv, NEW c \in Calls, NEW a, Finish(c, a),
         UNCHANGED <<now, readings, grants, approvedHolders>>
  PROVE  HolderInv'
<1>1. OnItsWay(c)'
  BY WayOver
<1>2. ASSUME NEW d \in Calls, d # c
      PROVE  OnItsWay(d)'
  BY <1>2, WayKept DEF Finish, HolderInv, TypeInv, TypeOK
<1>3. RowsProven'
  BY RowsGrow, GateConstants DEF HolderInv, TypeInv, TypeOK
<1> QED
  BY <1>1, <1>2, <1>3, GrantsKept DEF HolderInv

LEMMA HolderGrant ==
  ASSUME TypeInv, TypeInv', HolderInv, NEW c \in Calls, NEW a, NEW v,
         pc[c] \in {"derive", "pubkey"}, Grant(c, v), Finish(c, a),
         UNCHANGED <<now, readings, approvedHolders>>
  PROVE  HolderInv'
<1>1. OnItsWay(c)'
  BY WayOver
<1>2. ASSUME NEW d \in Calls, d # c
      PROVE  OnItsWay(d)'
  BY <1>2, WayKept DEF Finish, HolderInv, TypeInv, TypeOK
<1>3. RowsProven'
  BY RowsGrow, GateConstants DEF HolderInv, TypeInv, TypeOK
<1>4. Backed(req[c], basis[c])
  BY DEF HolderInv, OnItsWay
<1>5. ASSUME NEW g \in grants'
      PROVE  Backed(g.req, g.basis)' /\ g.input = DerivationInputV3(g.req)
  <2>1. Backed(g.req, g.basis) /\ g.input = DerivationInputV3(g.req)
    BY <1>4, <1>5 DEF Grant, HolderInv
  <2> QED
    BY <2>1 DEF Backed, SignedByWallet, StructHashV3, Proven
<1> QED
  BY <1>1, <1>2, <1>3, <1>5 DEF HolderInv, DerivationInputV3

(* A call that passes on an approval of time r. *)
LEMMA WayStarts ==
  ASSUME TypeInv, NEW c \in Calls, NEW q \in Requests, NEW r \in Nat,
         StartDerive(c, q, r), UNCHANGED <<now, readings>>,
         SignedByWallet(q), q.epoch <= CurrentEpoch,
         q.threshold # 0 =>
           /\ Proven(q.wallet, LowerHex[q.token], q.threshold, r)
           /\ r <= now
           /\ now < r + ApprovalTTL
  PROVE  OnItsWay(c)'
<1>1. /\ pc'[c] = "derive"
      /\ req'[c] = q
      /\ basis'[c] = [verifiedAt |-> r, passedAt |-> now]
  BY DEF StartDerive, TypeInv, TypeOK
<1>2. Backed(q, [verifiedAt |-> r, passedAt |-> now])
  BY GateConstants DEF Backed, CurrentEpoch, TypeInv, TypeOK
<1>3. Backed(req[c], basis[c])'
  BY <1>1, <1>2 DEF Backed, SignedByWallet, StructHashV3, Proven
<1> QED
  BY <1>1, <1>3 DEF OnItsWay

LEMMA HolderGate ==
  ASSUME TypeInv, TypeInv', HolderInv, NEW c \in Calls, NEW q \in Requests,
         Gate(c, q)
  PROVE  HolderInv'
<1> DEFINE k == ApprovalCacheKey(q)
<1>1. UNCHANGED <<now, readings, grants>> /\ now \in Nat
  BY GateConstants DEF Gate, TypeInv, TypeOK
<1>2. k \in ApprovalKeys /\ q.threshold \in Nat
  BY RequestFields
<1>3. RowsProven'
  <2>1. \A x \in ApprovalKeys :
          approvedHolders'[x] \in {approvedHolders[x], NoRow}
    BY DEF Gate, RefusedOnSight, Admitted, stateVars, DropIfStale,
           TypeInv, TypeOK, ApprovalRows
  <2> QED
    BY <1>1, <2>1, RowsGrow DEF HolderInv
<1>4. ASSUME NEW d \in Calls, d # c
      PROVE  OnItsWay(d)'
  <2>1. /\ pc'[d] = pc[d] /\ req'[d] = req[d]
        /\ seen'[d] = seen[d] /\ basis'[d] = basis[d]
    BY <1>4 DEF Gate, RefusedOnSight, Admitted, Refuse, callVars, StartDerive,
                StartCheckBalance, TypeInv, TypeOK
  <2> QED
    BY <1>1, <2>1, WayKept DEF HolderInv
<1>5. OnItsWay(c)'
  <2>1. CASE UNCHANGED <<pc, callVars>>
    BY <1>1, <2>1, WayKept DEF HolderInv, callVars
  <2>2. CASE Admitted(c, q) /\ SignedByWallet(q)
    <3>1. q.epoch <= CurrentEpoch
      BY <2>2 DEF Admitted, EpochStarted
    <3>2. CASE q.threshold = 0 /\ StartDerive(c, q, now)
      BY <1>1, <2>2, <3>1, <3>2, WayStarts
    <3>3. CASE /\ IsApprovedHolder(approvedHolders, k, now)
               /\ StartDerive(c, q, approvedHolders[k])
      <4>1. /\ approvedHolders[k] \in Nat
            /\ now < approvedHolders[k] + ApprovalTTL
        BY <1>1, <1>2, <3>3, CacheConstants
           DEF IsApprovedHolder, IsStale, TypeInv, TypeOK, ApprovalRows
      <4>2. /\ approvedHolders[k] <= now
            /\ Proven(k.wallet, k.token, k.threshold, approvedHolders[k])
        BY <1>2, <4>1, CacheConstants DEF HolderInv, RowsProven
      <4>3. Proven(q.wallet, LowerHex[q.token], q.threshold, approvedHolders[k])
        BY <4>2 DEF ApprovalCacheKey
      <4> QED
        BY <1>1, <2>2, <3>1, <3>3, <4>1, <4>2, <4>3, WayStarts
    <3>4. CASE StartCheckBalance(c, q)
      <4>1. /\ pc'[c] = "eth_call"
            /\ req'[c] = q
        BY <3>4 DEF StartCheckBalance, TypeInv, TypeOK
      <4> QED
        BY <1>1, <2>2, <3>1, <4>1
           DEF OnItsWay, SignedByWallet, StructHashV3, CurrentEpoch
    <3> QED
      BY <2>2, <3>2, <3>3, <3>4 DEF Admitted
  <2> QED
    BY <2>1, <2>2 DEF Gate, RefusedOnSight, Admitted, Refuse
<1>6. \A x \in Calls : OnItsWay(x)'
  BY <1>4, <1>5
<1> QED
  BY <1>1, <1>3, <1>6, GrantsKept DEF HolderInv

LEMMA HolderEthCall ==
  ASSUME TypeInv, TypeInv', HolderInv, NEW c \in Calls, EthCall(c)
  PROVE  HolderInv'
<1>1. /\ readings \subseteq readings'
      /\ UNCHANGED <<now, grants, approvedHolders>>
      /\ now \in Nat
  BY GateConstants DEF EthCall, stateVars, TypeInv, TypeOK
<1>2. RowsProven'
  BY <1>1, RowsGrow DEF HolderInv
<1>3. ASSUME NEW d \in Calls, d # c
      PROVE  OnItsWay(d)'
  BY <1>1, <1>3, WayKept DEF EthCall, HolderInv, TypeInv, TypeOK
<1>4. OnItsWay(c)'
  <2>1. /\ pc'[c] = "balance"
        /\ req'[c] = req[c]
        /\ SignedByWallet(req[c]) /\ req[c].epoch <= CurrentEpoch
    BY DEF EthCall, HolderInv, OnItsWay, TypeInv, TypeOK
  <2>2. seen'[c].kind = "ok" =>
          \E r \in readings' :
            /\ r.wallet = req[c].wallet
            /\ r.token = LowerHex[req[c].token]
            /\ r.balance = seen'[c].balance
            /\ r.balance \in Nat
            /\ r.at = now
    <3>1. ASSUME NEW b \in Balances,
                 seen' = [seen EXCEPT ![c] = [kind |-> "ok", balance |-> b]],
                 readings' = readings \union
                   {[wallet |-> req[c].wallet, token |-> LowerHex[req[c].token],
                     balance |-> b, at |-> now]}
          PROVE  \E r \in readings' :
                   /\ r.wallet = req[c].wallet
                   /\ r.token = LowerHex[req[c].token]
                   /\ r.balance = seen'[c].balance
                   /\ r.balance \in Nat
                   /\ r.at = now
      <4>1. seen'[c].balance = b /\ b \in Nat
        BY <3>1, GateConstants DEF TypeInv, TypeOK
      <4> DEFINE new == [wallet |-> req[c].wallet, token |-> LowerHex[req[c].token],
                         balance |-> b, at |-> now]
      <4>2. new \in readings'
        BY <3>1
      <4> QED
        BY <4>1, <4>2
    <3>2. ASSUME NEW e \in {"EvmRpcError", "Rejected"},
                 seen' = [seen EXCEPT ![c] = [kind |-> e, balance |-> 0]]
          PROVE  seen'[c].kind # "ok"
      BY <3>2 DEF TypeInv, TypeOK
    <3> QED
      BY <3>1, <3>2 DEF EthCall
  <2>3. (seen[c].kind = "ok" =>
           Proven(req[c].wallet, LowerHex[req[c].token], seen[c].balance, now))'
    BY <1>1, <2>1, <2>2 DEF Proven
  <2> QED
    BY <1>1, <2>1, <2>3 DEF OnItsWay, SignedByWallet, StructHashV3, CurrentEpoch
<1> QED
  BY <1>1, <1>2, <1>3, <1>4, GrantsKept DEF HolderInv

LEMMA HolderCheckBalance ==
  ASSUME TypeInv, TypeInv', HolderInv, NEW c \in Calls, CheckBalanceReturns(c)
  PROVE  HolderInv'
<1>1. UNCHANGED <<now, grants, readings>> /\ now \in Nat
  BY GateConstants DEF CheckBalanceReturns, TypeInv, TypeOK
<1>2. CASE \E a : Finish(c, a) /\ UNCHANGED approvedHolders
  BY <1>1, <1>2, HolderFinish
<1>3. CASE /\ ~ BalanceUnknown(c)
           /\ HoldsEnough(c)
           /\ approvedHolders' = RecordApproval(approvedHolders,
                                   ApprovalCacheKey(req[c]), now)
           /\ StartDerive(c, req[c], now)
  <2> DEFINE k == ApprovalCacheKey(req[c])
  <2>1. pc[c] = "balance" /\ req[c] \in Requests
    BY DEF CheckBalanceReturns, TypeInv, CallShape
  <2>2. k \in ApprovalKeys /\ req[c].threshold \in Nat
    BY <2>1, RequestFields
  <2>3. Proven(req[c].wallet, LowerHex[req[c].token], req[c].threshold, now)
    <3>1. /\ seen[c].balance \in Nat
          /\ Proven(req[c].wallet, LowerHex[req[c].token], seen[c].balance, now)
          /\ req[c].threshold <= seen[c].balance
      BY <1>3, <2>1 DEF HolderInv, OnItsWay, BalanceUnknown, HoldsEnough,
                        TypeInv, TypeOK, Outcomes
    <3> QED
      BY <1>1, <2>2, <3>1, ProvenWeaker DEF TypeInv, TypeOK
  <2>4. OnItsWay(c)'
    <3>1. SignedByWallet(req[c]) /\ req[c].epoch <= CurrentEpoch
      BY <2>1 DEF HolderInv, OnItsWay
    <3>2. now <= now /\ now < now + ApprovalTTL
      BY <1>1, CacheConstants
    <3> QED
      BY <1>1, <1>3, <2>1, <2>3, <3>1, <3>2, WayStarts
  <2>5. ASSUME NEW d \in Calls, d # c
        PROVE  OnItsWay(d)'
    BY <1>1, <1>3, <2>5, WayKept DEF StartDerive, HolderInv, TypeInv, TypeOK
  <2>6. RowsProven'
    <3> SUFFICES ASSUME NEW x \in ApprovalKeys, approvedHolders'[x] # NoRow
                 PROVE  /\ approvedHolders'[x] <= now
                        /\ Proven(x.wallet, x.token, x.threshold,
                                  approvedHolders'[x])
      BY <1>1 DEF RowsProven, Proven
    <3>1. CASE x = k
      <4>1. approvedHolders'[x] = now
        BY <1>3, <2>2, <3>1 DEF RecordApproval, TypeInv, TypeOK, ApprovalRows
      <4>2. /\ x.wallet = req[c].wallet
            /\ x.token = LowerHex[req[c].token]
            /\ x.threshold = req[c].threshold
        BY <3>1 DEF ApprovalCacheKey
      <4> QED
        BY <1>1, <2>3, <4>1, <4>2
    <3>2. CASE x # k
      <4>1. approvedHolders'[x] = approvedHolders[x]
        BY <1>3, <3>2 DEF RecordApproval, TypeInv, TypeOK, ApprovalRows
      <4> QED
        BY <4>1 DEF HolderInv, RowsProven
    <3> QED
      BY <3>1, <3>2
  <2> QED
    BY <1>1, <2>4, <2>5, <2>6, GrantsKept DEF HolderInv
<1> QED
  BY <1>2, <1>3 DEF CheckBalanceReturns

(* The step that all the theorems about holders rest on. *)
LEMMA HolderStep ==
  ASSUME TypeInv, TypeInv', HolderInv, [Next]_vars
  PROVE  HolderInv'
<1>1. ASSUME NEW c \in Calls, NEW q \in Requests, Gate(c, q)
      PROVE  HolderInv'
  BY <1>1, HolderGate
<1>2. ASSUME NEW c \in Calls, EthCall(c)
      PROVE  HolderInv'
  BY <1>2, HolderEthCall
<1>3. ASSUME NEW c \in Calls, CheckBalanceReturns(c)
      PROVE  HolderInv'
  BY <1>3, HolderCheckBalance
<1>4. ASSUME NEW c \in Calls, DeriveKeyReturns(c)
      PROVE  HolderInv'
  <2>1. CASE ReportVetKDError(c) /\ UNCHANGED grants
    BY <1>4, <2>1, HolderFinish DEF DeriveKeyReturns, ReportVetKDError, stateVars
  <2>2. CASE Grant(c, cachedKeyV3) /\ Finish(c, "ok")
    BY <1>4, <2>2, HolderGrant DEF DeriveKeyReturns, stateVars
  <2>3. CASE /\ pc' = [pc EXCEPT ![c] = "pubkey"]
             /\ UNCHANGED <<req, seen, basis, ekey, grants>>
    <3>1. UNCHANGED <<now, readings, approvedHolders, grants>> /\ now \in Nat
      BY <1>4, <2>3, GateConstants DEF DeriveKeyReturns, stateVars, TypeInv, TypeOK
    <3>2. RowsProven'
      BY <3>1, RowsGrow DEF HolderInv
    <3>3. OnItsWay(c)'
      BY <1>4, <2>3, <3>1 DEF DeriveKeyReturns, HolderInv, OnItsWay, Backed,
         SignedByWallet, StructHashV3, Proven, TypeInv, TypeOK
    <3>4. ASSUME NEW d \in Calls, d # c
          PROVE  OnItsWay(d)'
      BY <2>3, <3>1, <3>4, WayKept DEF HolderInv, TypeInv, TypeOK
    <3> QED
      BY <3>1, <3>2, <3>3, <3>4, GrantsKept DEF HolderInv
  <2> QED
    BY <1>4, <2>1, <2>2, <2>3 DEF DeriveKeyReturns
<1>5. ASSUME NEW c \in Calls, PublicKeyReturns(c)
      PROVE  HolderInv'
  <2>1. CASE ReportVetKDError(c) /\ UNCHANGED grants
    BY <1>5, <2>1, HolderFinish DEF PublicKeyReturns, ReportVetKDError
  <2>2. CASE Grant(c, asked[c]) /\ Finish(c, "ok")
    BY <1>5, <2>2, HolderGrant DEF PublicKeyReturns
  <2> QED
    BY <1>5, <2>1, <2>2 DEF PublicKeyReturns
<1>6. ASSUME NEW c \in Calls, WarmupReturns(c)
      PROVE  HolderInv'
  BY <1>6, HolderFinish DEF WarmupReturns
<1>7. ASSUME NEW c \in Calls, WarmupVetKDPublicKeyV3(c)
      PROVE  HolderInv'
  <2>1. UNCHANGED <<now, readings, approvedHolders, grants>> /\ now \in Nat
    BY <1>7, GateConstants DEF WarmupVetKDPublicKeyV3, stateVars, TypeInv, TypeOK
  <2>2. ASSUME NEW d \in Calls
        PROVE  OnItsWay(d)'
    <3>1. CASE d = c
      BY <1>7, <3>1 DEF WarmupVetKDPublicKeyV3, OnItsWay, TypeInv, TypeOK
    <3>2. CASE d # c
      BY <1>7, <2>1, <3>2, WayKept
         DEF WarmupVetKDPublicKeyV3, HolderInv, TypeInv, TypeOK
    <3> QED
      BY <3>1, <3>2
  <2> QED
    BY <2>1, <2>2, RowsGrow, GrantsKept DEF HolderInv
<1>8. CASE \/ \E m \in EvictBatches : EvictExpiredApprovals(m)
           \/ Upgrade
           \/ Tick
           \/ UNCHANGED vars
  <2>1. /\ UNCHANGED <<pc, req, seen, basis, readings, grants>>
        /\ now' \in {now, now + 1}
        /\ now \in Nat /\ now <= now'
    BY <1>8, GateConstants
       DEF EvictExpiredApprovals, Upgrade, Tick, vars, callVars, TypeInv, TypeOK
  <2>2. \A x \in ApprovalKeys :
          approvedHolders'[x] \in {approvedHolders[x], NoRow}
    BY <1>8 DEF EvictExpiredApprovals, Without, Upgrade, Tick, vars, stateVars
  <2> QED
    BY <2>1, <2>2, RowsGrow, WayKept, GrantsKept DEF HolderInv
<1>9. QED
  BY <1>1, <1>2, <1>3, <1>4, <1>5, <1>6, <1>7, <1>8
     DEF Next, Continue, RequestDecryptionKeyV3, BatchRequestDecryptionKeyV3

LEMMA HolderAlways == Spec => []HolderInv
<1>1. Init => HolderInv
  BY DEF Init, HolderInv, RowsProven, EmptyApprovals, OnItsWay
<1>2. TypeInv /\ TypeInv' /\ HolderInv /\ [Next]_vars => HolderInv'
  BY HolderStep
<1> QED
  BY <1>1, <1>2, TypeCorrect, PTL DEF Spec

(* A nonce opens the gate at most once, on both v3 endpoints together, and *)
(* so does a signature over nonces that are uint256: whoever is in flight  *)
(* or was answered has passed the signature check.                         *)
THEOREM NonceSafety == Spec => []NonceSpentOnce
<1>1. ASSUME TypeInv, NonceInv, HolderInv
      PROVE  NonceSpentOnce
  <2>1. ASSUME NEW c \in Calls, InFlight(c)
        PROVE  req[c] \in Requests /\ SignedByWallet(req[c])
    <3>1. pc[c] \in {"eth_call", "balance", "derive", "pubkey"}
      BY <1>1, <2>1 DEF InFlight, TypeInv, TypeOK, CallShape
    <3>2. OnItsWay(c)
      BY <1>1 DEF HolderInv
    <3>3. SignedByWallet(req[c])
      BY <3>1, <3>2 DEF OnItsWay, Backed
    <3> QED
      BY <1>1, <3>1, <3>3 DEF TypeInv, CallShape
  <2>2. ASSUME NEW g \in grants
        PROVE  g.req \in Requests /\ SignedByWallet(g.req)
    BY <1>1 DEF TypeInv, TypeOK, Grants, HolderInv, Backed
  <2>3. NoncesApart
    BY <1>1 DEF NonceInv
  <2>4. ASSUME NEW c \in Calls, NEW d \in Calls, InFlight(c), InFlight(d),
               SameMessage(req[c], req[d])
        PROVE  c = d
    BY <2>1, <2>3, <2>4, SameSignature DEF NoncesApart, SameMessage
  <2>5. ASSUME NEW c \in Calls, NEW g \in grants, InFlight(c),
               SameMessage(req[c], g.req)
        PROVE  FALSE
    BY <2>1, <2>2, <2>3, <2>5, SameSignature DEF NoncesApart, SameMessage
  <2>6. ASSUME NEW g \in grants, NEW h \in grants, SameMessage(g.req, h.req)
        PROVE  g = h
    BY <2>2, <2>3, <2>6, SameSignature DEF NoncesApart, SameMessage
  <2> QED
    BY <2>4, <2>5, <2>6 DEF NonceSpentOnce
<1> QED
  BY <1>1, TypeCorrect, NonceAlways, HolderAlways, PTL

(* Every cached approval stands on a sufficient reading of the chain.      *)
THEOREM RowsSafety == Spec => []RowsProven
<1>1. HolderInv => RowsProven
  BY DEF HolderInv
<1> QED
  BY <1>1, HolderAlways, PTL

(* Keys with a threshold go only to wallets that signed for them and were  *)
(* seen to hold the threshold, on an approval still within its TTL.        *)
THEOREM HolderSafety == Spec => []KeysOnlyForHolders
<1>1. TypeInv /\ HolderInv => KeysOnlyForHolders
  <2> SUFFICES ASSUME TypeInv, HolderInv, NEW g \in grants
               PROVE  /\ g.req.sig.signer = g.req.wallet
                      /\ g.req.sig.over = StructHashV3(g.req)
                      /\ g.input.epoch <= g.basis.passedAt \div EpochLength
                      /\ g.input.threshold # 0 =>
                           /\ g.input.epoch = g.req.sig.over.epoch
                           /\ Proven(g.req.wallet, LowerHex[g.input.token],
                                     g.input.threshold, g.basis.verifiedAt)
                           /\ g.basis.verifiedAt <= g.basis.passedAt
                           /\ g.basis.passedAt
                                < g.basis.verifiedAt + ApprovalTTL
    BY DEF KeysOnlyForHolders
  <2>1. Backed(g.req, g.basis) /\ g.input = DerivationInputV3(g.req)
    BY DEF HolderInv
  <2>2. /\ g.req \in Requests
        /\ g.basis.passedAt \in Nat
        /\ EpochLength \in Nat \ {0}
        /\ g.basis.passedAt \div EpochLength \in Nat
    BY GateConstants, DivBounds DEF TypeInv, TypeOK, Grants, Bases
  <2>3. g.req.epoch < Width
    <3>1. /\ g.req.epoch \in Nat /\ MaxTime \in Nat /\ MaxTime < Width /\ Width \in Nat
          /\ g.basis.passedAt <= MaxTime
          /\ g.req.epoch <= g.basis.passedAt \div EpochLength
      BY <2>1, <2>2, RequestFields, GateConstants, TypedDataConstants DEF Backed
    <3>2. g.basis.passedAt \div EpochLength <= g.basis.passedAt
      BY <2>2, DivAtMost
    <3> QED
      BY <2>2, <3>1, <3>2
  <2>4. encodeUint256(g.req.epoch) = g.req.epoch
    BY <2>2, <2>3, RequestFields, EncodedFits
  <2> QED
    BY <2>1, <2>2, <2>4 DEF Backed, SignedByWallet, StructHashV3, DerivationInputV3
<1> QED
  BY <1>1, HolderAlways, TypeCorrect, PTL

-----------------------------------------------------------------------------
(* The approval cache implements LiveRows. *)

LEMMA LiveValue ==
  ASSUME TypeInv, NEW k \in ApprovalKeys
  PROVE  /\ Live[k] \in Nat \union {NoRow}
         /\ Live[k] # NoRow <=>
              approvedHolders[k] # NoRow /\ approvedHolders[k] + ApprovalTTL > now
         /\ Live[k] # NoRow => Live[k] = approvedHolders[k]
BY CacheConstants, GateConstants
   DEF Live, IsApprovedHolder, IsStale, TypeInv, TypeOK, ApprovalRows

(* A step that keeps the clock and gives up stale rows only is not visible.*)
LEMMA LiveKept ==
  ASSUME TypeInv, now' = now,
         \A k \in ApprovalKeys :
           \/ approvedHolders'[k] = approvedHolders[k]
           \/ IsStale(approvedHolders, k, now) /\ approvedHolders'[k] = NoRow
  PROVE  UNCHANGED Promise!vars
<1>1. \A k \in ApprovalKeys :
        (IF IsApprovedHolder(approvedHolders, k, now)
           THEN approvedHolders[k] ELSE NoRow)
        = (IF IsApprovedHolder(approvedHolders', k, now')
             THEN approvedHolders'[k] ELSE NoRow)
  BY DEF IsApprovedHolder, IsStale
<1> QED
  BY <1>1 DEF Promise!vars, Live, IsApprovedHolder, IsStale

LEMMA PromiseStep ==
  ASSUME TypeInv, TypeInv', [Next]_vars
  PROVE  [Promise!Next]_Promise!vars
<1>1. ASSUME NEW c \in Calls, NEW q \in Requests, Gate(c, q)
      PROVE  UNCHANGED Promise!vars
  BY <1>1, LiveKept DEF Gate, RefusedOnSight, Admitted, stateVars, DropIfStale,
     TypeInv, TypeOK, ApprovalRows
<1>2. ASSUME NEW c \in Calls,
             \/ EthCall(c) \/ DeriveKeyReturns(c) \/ PublicKeyReturns(c)
             \/ WarmupReturns(c) \/ WarmupVetKDPublicKeyV3(c)
      PROVE  UNCHANGED Promise!vars
  BY <1>2, LiveKept DEF EthCall, DeriveKeyReturns, PublicKeyReturns,
     WarmupReturns, WarmupVetKDPublicKeyV3, stateVars
<1>3. ASSUME NEW c \in Calls, CheckBalanceReturns(c)
      PROVE  [Promise!Next]_Promise!vars
  <2> DEFINE k == ApprovalCacheKey(req[c])
  <2>1. CASE UNCHANGED approvedHolders
    BY <1>3, <2>1, LiveKept DEF CheckBalanceReturns
  <2>2. CASE approvedHolders' = RecordApproval(approvedHolders, k, now)
    <3>1. k \in ApprovalKeys /\ now' = now /\ now \in Nat
      BY <1>3, RequestFields, GateConstants
         DEF CheckBalanceReturns, TypeInv, TypeOK, CallShape
    <3>2. ASSUME NEW x \in ApprovalKeys
          PROVE  (IF IsApprovedHolder(approvedHolders', x, now')
                    THEN approvedHolders'[x] ELSE NoRow)
                 = IF x = k THEN now ELSE Live[x]
      BY <2>2, <3>1, CacheConstants DEF Live, RecordApproval, IsApprovedHolder,
         IsStale, TypeInv, TypeOK, ApprovalRows
    <3>3. Live' = [Live EXCEPT ![k] = now]
      BY <3>1, <3>2 DEF Live, IsApprovedHolder, IsStale
    <3> QED
      BY <3>1, <3>3 DEF Promise!Next, Promise!Record
  <2> QED
    BY <1>3, <2>1, <2>2 DEF CheckBalanceReturns
<1>4. ASSUME NEW m \in EvictBatches, EvictExpiredApprovals(m)
      PROVE  UNCHANGED Promise!vars
  <2>1. PICK D \in Sweeps(ExpiredApprovals(approvedHolders, now), m) :
          approvedHolders' = Without(approvedHolders, D)
    BY <1>4 DEF EvictExpiredApprovals
  <2>2. \A k \in D : IsStale(approvedHolders, k, now)
    BY DEF Sweeps, ExpiredApprovals
  <2> QED
    BY <1>4, <2>1, <2>2, LiveKept DEF EvictExpiredApprovals, Without
<1>5. CASE Tick
  <2>1. now' > now /\ now \in Nat /\ now' \in Nat /\ UNCHANGED approvedHolders
    BY <1>5, GateConstants DEF Tick, stateVars, TypeInv, TypeOK
  <2>2. ASSUME NEW k \in ApprovalKeys
        PROVE  (IF IsApprovedHolder(approvedHolders', k, now')
                  THEN approvedHolders'[k] ELSE NoRow)
               = IF Promise!Expired(k, now') THEN NoRow ELSE Live[k]
    BY <2>1, CacheConstants DEF Promise!Expired, Live, IsApprovedHolder,
       IsStale, TypeInv, TypeOK, ApprovalRows
  <2>3. Live' = [k \in ApprovalKeys |->
                   IF Promise!Expired(k, now') THEN NoRow ELSE Live[k]]
    BY <2>2 DEF Live, IsApprovedHolder, IsStale
  <2> QED
    BY <2>1, <2>3 DEF Promise!Next, Promise!Advance
<1>6. CASE Upgrade \/ UNCHANGED vars
  BY <1>6, LiveKept DEF Upgrade, stateVars, vars
<1> QED
  BY <1>1, <1>2, <1>3, <1>4, <1>5, <1>6
     DEF Next, Continue, RequestDecryptionKeyV3, BatchRequestDecryptionKeyV3

(* The rows of the cache, looked up and dropped lazily, evicted in batches *)
(* and carried over upgrades, are exactly the approvals that LiveRows *)
(* says are alive.                                                         *)
THEOREM PromiseKept == Spec => ApprovalsKeepPromise
<1>1. Init => Promise!Init
  BY DEF Init, Promise!Init, Live, EmptyApprovals, IsApprovedHolder
<1>2. TypeInv /\ TypeInv' /\ [Next]_vars => [Promise!Next]_Promise!vars
  BY PromiseStep
<1> QED
  BY <1>1, <1>2, TypeCorrect, PTL DEF Spec, ApprovalsKeepPromise, Promise!Spec

-----------------------------------------------------------------------------
(* Rotations of the key name. *)

(* A verification key that is being asked for is the running version's: an *)
(* upgrade, which alone changes the key name, waits for the calls.         *)
AskedInv ==
  \A c \in Calls : pc[c] \in {"pubkey", "warmup"} => asked[c] = keyName

(* A step of one call that is not the end of a warm-up.                    *)
LEMMA AskedKept ==
  ASSUME AskedInv, NEW c \in Calls, UNCHANGED keyName,
         \A d \in Calls : d # c => pc'[d] = pc[d] /\ asked'[d] = asked[d],
         pc[c] # "warmup",
         pc'[c] \in {"pubkey", "warmup"} => asked'[c] = keyName,
         cachedKeyV3' = cachedKeyV3 \/ cachedKeyV3' = keyName
  PROVE  AskedInv' /\ MemoIsCurrent
BY DEF AskedInv, MemoIsCurrent

LEMMA AskedStep ==
  ASSUME TypeInv, AskedInv, [Next]_vars
  PROVE  AskedInv' /\ MemoIsCurrent
<1> USE DEF TypeInv, TypeOK
<1>1. ASSUME NEW c \in Calls, NEW q \in Requests, Gate(c, q)
      PROVE  AskedInv' /\ MemoIsCurrent
  <2>1. /\ pc[c] = "idle" /\ UNCHANGED <<keyName, cachedKeyV3, asked>>
        /\ pc'[c] \in {"idle", "derive", "eth_call"}
        /\ \A d \in Calls : d # c => pc'[d] = pc[d]
    BY <1>1 DEF Gate, RefusedOnSight, Admitted, Refuse, StartDerive,
       StartCheckBalance, callVars, stateVars
  <2> QED
    BY <2>1, AskedKept
<1>2. ASSUME NEW c \in Calls, EthCall(c) \/ CheckBalanceReturns(c)
      PROVE  AskedInv' /\ MemoIsCurrent
  <2>1. /\ pc[c] \in {"eth_call", "balance"} /\ UNCHANGED <<keyName, cachedKeyV3>>
        /\ pc'[c] \in {"balance", "idle", "derive"}
        /\ \A d \in Calls : d # c => pc'[d] = pc[d] /\ asked'[d] = asked[d]
    BY <1>2 DEF EthCall, CheckBalanceReturns, Finish, StartDerive, stateVars
  <2> QED
    BY <2>1, AskedKept
<1>3. ASSUME NEW c \in Calls, DeriveKeyReturns(c)
      PROVE  AskedInv' /\ MemoIsCurrent
  <2>1. /\ pc[c] = "derive" /\ UNCHANGED <<keyName, cachedKeyV3>>
        /\ pc'[c] = "idle" \/ (pc'[c] = "pubkey" /\ asked'[c] = keyName)
        /\ \A d \in Calls : d # c => pc'[d] = pc[d] /\ asked'[d] = asked[d]
    BY <1>3 DEF DeriveKeyReturns, ReportVetKDError, Finish, stateVars
  <2> QED
    BY <2>1, AskedKept
<1>4. ASSUME NEW c \in Calls, PublicKeyReturns(c)
      PROVE  AskedInv' /\ MemoIsCurrent
  <2>1. /\ pc[c] = "pubkey" /\ pc'[c] = "idle" /\ UNCHANGED keyName
        /\ cachedKeyV3' \in {cachedKeyV3, asked[c]}
        /\ \A d \in Calls : d # c => pc'[d] = pc[d] /\ asked'[d] = asked[d]
    BY <1>4 DEF PublicKeyReturns, ReportVetKDError, Finish
  <2> QED
    BY <2>1, AskedKept DEF AskedInv
<1>5. ASSUME NEW c \in Calls, WarmupVetKDPublicKeyV3(c)
      PROVE  AskedInv' /\ MemoIsCurrent
  <2>1. /\ pc[c] = "idle" /\ asked'[c] = keyName /\ UNCHANGED <<keyName, cachedKeyV3>>
        /\ \A d \in Calls : d # c => pc'[d] = pc[d] /\ asked'[d] = asked[d]
    BY <1>5 DEF WarmupVetKDPublicKeyV3, stateVars
  <2> QED
    BY <2>1, AskedKept
<1>6. ASSUME NEW c \in Calls, WarmupReturns(c)
      PROVE  AskedInv' /\ MemoIsCurrent
  <2>1. /\ pc[c] = "warmup" /\ pc'[c] = "idle" /\ UNCHANGED keyName
        /\ \/ answer' = "Rejected" /\ cachedKeyV3' = cachedKeyV3
           \/ answer' = "ok" /\ cachedKeyV3' = asked[c]
        /\ \A d \in Calls : d # c => pc'[d] = pc[d] /\ asked'[d] = asked[d]
    BY <1>6 DEF WarmupReturns, StoreWarmedKey, Finish
  <2> QED
    BY <2>1 DEF AskedInv, MemoIsCurrent
<1>7. CASE Upgrade
  BY <1>7 DEF Upgrade, AskedInv, MemoIsCurrent, stateVars
<1>8. ASSUME NEW m \in EvictBatches, EvictExpiredApprovals(m)
      PROVE  AskedInv' /\ MemoIsCurrent
  BY <1>8 DEF EvictExpiredApprovals, AskedInv, MemoIsCurrent, callVars
<1>9. CASE Tick \/ UNCHANGED vars
  BY <1>9 DEF Tick, vars, AskedInv, MemoIsCurrent, callVars, stateVars
<1> QED
  BY <1>1, <1>2, <1>3, <1>4, <1>5, <1>6, <1>7, <1>8, <1>9
     DEF Next, Continue, RequestDecryptionKeyV3, BatchRequestDecryptionKeyV3

(* No answer brings a rotated key name back into the memo, and a warm-up   *)
(* that succeeds leaves the running version's there.                       *)
THEOREM RotationFollowed == Spec => MemoFollowsRotation
<1>1. Init => AskedInv
  BY DEF Init, AskedInv
<1>2. TypeInv /\ AskedInv /\ [Next]_vars => AskedInv' /\ [MemoIsCurrent]_vars
  BY AskedStep
<1> QED
  BY <1>1, <1>2, TypeCorrect, PTL DEF Spec, MemoFollowsRotation


=============================================================================
