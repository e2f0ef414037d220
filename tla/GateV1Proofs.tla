---------------------------- MODULE GateV1Proofs ----------------------------
(***************************************************************************)
(* Proofs about the protocol-v1 gate and the attestations, for every       *)
(* number of calls, wallets, nonces and CIDs, every limit of a batch and   *)
(* every clock bound.                                                      *)
(***************************************************************************)
EXTENDS GateV1, TLAPS

USE DEF Errors, Waiting

(* The places where a call waits with a request in hand. *)
OnRequest == {"eth_call", "balance", "derive", "pubkey", "sign"}

DerivedKeys ==
  [cid : Cids, input : [token : Tokens, threshold : Thresholds, cid : Cids]]

(* What a call carries at each place where it waits. *)
CallShape ==
  \A c \in Calls :
    /\ pc[c] \in OnRequest => req[c] \in Requests /\ ValidInput(req[c])
    /\ pc[c] \notin OnRequest => req[c] = NoRequest
    /\ pc[c] = "derive" => Len(keys[c]) < Len(req[c].cids)
    /\ pc[c] = "pubkey" => Len(keys[c]) = Len(req[c].cids)
    /\ pc[c] \notin {"derive", "pubkey"} => keys[c] = <<>>

(* The part of TypeOK that is about calls, with what it leaves open.       *)
CallsTyped ==
  /\ pc \in [Calls -> Waiting \union {"idle"}]
  /\ req \in [Calls -> Requests \union {NoRequest}]
  /\ arrived \in [Calls -> 0..MaxTime]
  /\ seen \in [Calls -> Outcomes]
  /\ keys \in [Calls -> Seq(DerivedKeys)]
  /\ payload = [c \in Calls |-> payload[c]]
  /\ signed = [c \in Calls |-> signed[c]]
  /\ answer \in Errors \union {"none", "ok"}
  /\ CallShape

TypeInv ==
  /\ CallsTyped
  /\ now \in 0..MaxTime
  /\ keyName \in KeyNames /\ schnorrName \in KeyNames
  /\ usedNonces \subseteq Endpoints \X Nonces
  /\ cachedKey \in KeyNames \union {NoKey}
  /\ cachedAttestKey \in KeyNames \union {NoKey}

-----------------------------------------------------------------------------
(* Facts about the helpers. *)

LEMMA RequestFields ==
  ASSUME NEW q \in Requests
  PROVE  /\ q # NoRequest
         /\ q.endpoint \in Endpoints
         /\ q.token \in Tokens
         /\ q.threshold \in Thresholds
         /\ q.threshold \in Nat
         /\ q.wallet \in Wallets
         /\ q.cids \in Seq(Cids)
         /\ q.nonce \in Nonces
         /\ NonceKey(q) \in Endpoints \X Nonces
BY GateConstants DEF IsRequest, NonceKey

(* The struct names the endpoint it was signed for. *)
LEMMA StructType ==
  ASSUME NEW q \in Requests
  PROVE  StructHash(q).type = q.endpoint
BY RequestFields DEF StructHash, Endpoints

(* One signature stands for one nonce at one endpoint, as long as nonces   *)
(* are uint256.                                                            *)
LEMMA SameSignature ==
  ASSUME NEW q \in Requests, NEW r \in Requests, Fits(q), Fits(r),
         SignedByWallet(q), SignedByWallet(r), q.sig = r.sig
  PROVE  q.endpoint = r.endpoint /\ q.nonce = r.nonce
<1>1. q.nonce \in Nonces /\ r.nonce \in Nonces
  BY RequestFields
<1>2. /\ q.nonce.number \in Nat /\ q.nonce.number < Width
      /\ r.nonce.number \in Nat /\ r.nonce.number < Width
  BY <1>1 DEF Nonces, Fits
<1>3. \A p \in Requests : StructHash(p).nonce = EncodedNonce(p.nonce)
  BY RequestFields DEF StructHash, Endpoints
<1>4. q.sig.over = StructHash(q) /\ r.sig.over = StructHash(r)
  BY DEF SignedByWallet
<1>5. /\ encodeUint256(q.nonce.number) = q.nonce.number
      /\ encodeUint256(r.nonce.number) = r.nonce.number
  BY <1>2, TypedDataConstants DEF encodeUint256
<1>6. EncodedNonce(q.nonce) = q.nonce /\ EncodedNonce(r.nonce) = r.nonce
  BY <1>1, <1>5 DEF EncodedNonce, Nonces
<1> QED
  BY <1>3, <1>4, <1>6, StructType

LEMMA Once ==
  ASSUME NEW q \in Requests, NEW r \in Requests,
         SignedByWallet(q), SignedByWallet(r)
  PROVE  SameMessage(q, r) <=> NonceKey(q) = NonceKey(r)
BY SameSignature DEF SameMessage, NonceKey

(* Putting a CID hash into canonical form twice changes nothing. *)
LEMMA CanonTwice ==
  ASSUME NEW s \in Seq(Cids)
  PROVE  LET t == MapSeq(s, LAMBDA x : Canon[x])
         IN  MapSeq(t, LAMBDA x : Canon[x]) = t
<1>1. \A i \in DOMAIN s : s[i] \in Cids
  OBVIOUS
<1> QED
  BY <1>1, GateConstants DEF MapSeq

LEMMA FinishTyped ==
  ASSUME CallsTyped, NEW c \in Calls, NEW a \in Errors \union {"none", "ok"}, Finish(c, a)
  PROVE  CallsTyped'
<1>1. /\ pc' \in [Calls -> Waiting \union {"idle"}]
      /\ req' \in [Calls -> Requests \union {NoRequest}]
      /\ arrived' \in [Calls -> 0..MaxTime]
      /\ answer' \in Errors \union {"none", "ok"}
  BY GateConstants DEF CallsTyped, Finish
<1>2. seen' \in [Calls -> Outcomes]
  BY DEF CallsTyped, Finish, NothingSeen, Outcomes
<1>3. keys' \in [Calls -> Seq(DerivedKeys)]
  BY DEF CallsTyped, Finish
<1>4. /\ payload' = [d \in Calls |-> payload'[d]]
      /\ signed' = [d \in Calls |-> signed'[d]]
  BY DEF CallsTyped, Finish
<1>5. CallShape'
  BY DEF CallsTyped, Finish, CallShape, OnRequest, ValidInput
<1> QED
  BY <1>1, <1>2, <1>3, <1>4, <1>5 DEF CallsTyped

LEMMA AnswerTyped ==
  ASSUME CallsTyped, NEW e \in Errors, AnswerAtOnce(e)
  PROVE  CallsTyped'
BY DEF CallsTyped, CallShape, AnswerAtOnce, callVars, OnRequest, ValidInput

-----------------------------------------------------------------------------
(* Type correctness. *)

LEMMA EnterTyped ==
  ASSUME TypeInv, NEW c \in Calls, NEW q \in Requests, Enter(c, q)
  PROVE  TypeInv'
<1>1. CallsTyped
  BY DEF TypeInv
<1>2. /\ now' = now /\ keyName' = keyName /\ schnorrName' = schnorrName
      /\ cachedKey' = cachedKey /\ cachedAttestKey' = cachedAttestKey
  BY DEF Enter, names, memos
<1>3. usedNonces' \subseteq Endpoints \X Nonces
  BY RequestFields DEF Enter, TypeInv
<1>4. CallsTyped'
  <2>1. CASE \E e \in Errors : AnswerAtOnce(e)
    BY <1>1, <2>1, AnswerTyped
  <2>2. CASE /\ GoOn(c, "eth_call")
             /\ req' = [req EXCEPT ![c] = q]
             /\ arrived' = [arrived EXCEPT ![c] = now]
             /\ UNCHANGED <<seen, keys, payload, signed>>
             /\ ValidInput(q)
    <3>1. pc[c] = "idle"
      BY DEF Enter
    <3>2. keys[c] = <<>>
      BY <1>1, <3>1 DEF CallsTyped, CallShape
    <3>3. /\ pc' \in [Calls -> Waiting \union {"idle"}]
          /\ req' \in [Calls -> Requests \union {NoRequest}]
          /\ arrived' \in [Calls -> 0..MaxTime]
          /\ answer' \in Errors \union {"none", "ok"}
      BY <1>1, <2>2 DEF CallsTyped, GoOn, TypeInv
    <3>4. CallShape'
      BY <1>1, <2>2, <3>2 DEF CallsTyped, CallShape, GoOn, OnRequest, ValidInput
    <3> QED
      BY <1>1, <2>2, <3>3, <3>4 DEF CallsTyped
  <2> QED
    BY <2>1, <2>2 DEF Enter
<1> QED
  BY <1>2, <1>3, <1>4 DEF TypeInv

(* A call that goes on with the same request and the same keys. *)
LEMMA GoOnTyped ==
  ASSUME CallsTyped, NEW c \in Calls, NEW place \in {"balance", "derive", "sign"},
         GoOn(c, place), pc[c] \in {"eth_call", "balance"},
         place = "derive" => Len(req[c].cids) > 0,
         UNCHANGED <<req, arrived, keys>>, seen' \in [Calls -> Outcomes],
         payload' = [d \in Calls |-> payload'[d]],
         signed' = [d \in Calls |-> signed'[d]]
  PROVE  CallsTyped'
<1>1. /\ pc' \in [Calls -> Waiting \union {"idle"}]
      /\ answer' \in Errors \union {"none", "ok"}
  BY DEF CallsTyped, GoOn
<1>2. keys[c] = <<>>
  BY DEF CallsTyped, CallShape
<1>3. CallShape'
  BY <1>2 DEF CallsTyped, CallShape, GoOn, OnRequest, ValidInput
<1> QED
  BY <1>1, <1>3 DEF CallsTyped

LEMMA EthCallTyped ==
  ASSUME TypeInv, NEW c \in Calls, EthCall(c)
  PROVE  TypeInv'
<1>1. CallsTyped
  BY DEF TypeInv
<1>2. \E o \in Outcomes : seen' = [seen EXCEPT ![c] = o]
  BY GateConstants DEF EthCall, Outcomes
<1>3. seen' \in [Calls -> Outcomes]
  BY <1>1, <1>2 DEF CallsTyped
<1>4. payload' = [d \in Calls |-> payload'[d]] /\ signed' = [d \in Calls |-> signed'[d]]
  BY <1>1 DEF CallsTyped, EthCall
<1>5. CallsTyped'
  BY <1>1, <1>3, <1>4, GoOnTyped DEF EthCall
<1> QED
  BY <1>5 DEF EthCall, TypeInv, names, memos

LEMMA BalanceTyped ==
  ASSUME TypeInv, NEW c \in Calls, CheckBalanceReturns(c)
  PROVE  TypeInv'
<1>1. CallsTyped /\ pc[c] = "balance"
  BY DEF TypeInv, CheckBalanceReturns
<1>2. CallsTyped'
  <2>1. CASE seen[c].kind # "ok" /\ Finish(c, seen[c].kind)
    <3>1. seen[c].kind \in Errors \union {"none", "ok"}
      BY <1>1 DEF CallsTyped, Outcomes
    <3> QED
      BY <1>1, <2>1, <3>1, FinishTyped
  <2>2. CASE Finish(c, "InsufficientBalance")
    BY <1>1, <2>2, FinishTyped
  <2>3. CASE /\ GoOn(c, "sign")
             /\ payload' = [payload EXCEPT ![c] = Attestation(c)]
             /\ signed' = [signed EXCEPT ![c] = Encoded(Attestation(c))]
             /\ UNCHANGED <<req, arrived, seen, keys>>
    <3>1. /\ payload' = [d \in Calls |-> payload'[d]]
          /\ signed' = [d \in Calls |-> signed'[d]]
      BY <1>1, <2>3 DEF CallsTyped
    <3>2. seen' \in [Calls -> Outcomes]
      BY <1>1, <2>3 DEF CallsTyped
    <3> QED
      BY <1>1, <2>3, <3>1, <3>2, GoOnTyped
  <2>4. CASE /\ GoOn(c, "derive")
             /\ UNCHANGED <<payload, signed, req, arrived, seen, keys>>
    <3>1. Len(req[c].cids) > 0
      <4>1. Len(req[c].cids) \in 1..MaxCids
        BY <1>1 DEF CallsTyped, CallShape, OnRequest, ValidInput
      <4> QED
        BY <4>1, GateConstants
    <3>2. /\ payload' = [d \in Calls |-> payload'[d]]
          /\ signed' = [d \in Calls |-> signed'[d]]
      BY <1>1, <2>4 DEF CallsTyped
    <3>3. seen' \in [Calls -> Outcomes]
      BY <1>1, <2>4 DEF CallsTyped
    <3> QED
      BY <1>1, <2>4, <3>1, <3>2, <3>3, GoOnTyped
  <2> QED
    BY <2>1, <2>2, <2>3, <2>4 DEF CheckBalanceReturns
<1> QED
  BY <1>2 DEF CheckBalanceReturns, TypeInv, names, memos

(* The next key of a batch, at the end of those it has derived. *)
LEMMA NextKey ==
  ASSUME TypeInv, NEW c \in Calls, pc[c] = "derive"
  PROVE  /\ WithNextKey(c) \in Seq(DerivedKeys)
         /\ Len(WithNextKey(c)) = Len(keys[c]) + 1
         /\ WithNextKey(c)[Len(keys[c]) + 1] =
              [cid |-> NextCid(c), input |-> DerivationInput(req[c], NextCid(c))]
         /\ \A i \in 1..Len(keys[c]) : WithNextKey(c)[i] = keys[c][i]
<1>1. /\ keys[c] \in Seq(DerivedKeys)
      /\ req[c] \in Requests
      /\ Len(keys[c]) < Len(req[c].cids)
  BY DEF TypeInv, CallsTyped, CallShape, OnRequest
<1>2. /\ req[c].cids \in Seq(Cids)
      /\ req[c].token \in Tokens /\ req[c].threshold \in Thresholds
  BY <1>1, RequestFields
<1>3. NextCid(c) \in Cids
  <2>1. Len(keys[c]) + 1 \in 1..Len(req[c].cids)
    BY <1>1, <1>2
  <2> QED
    BY <1>2, <2>1 DEF NextCid
<1> DEFINE k == [cid |-> NextCid(c), input |-> DerivationInput(req[c], NextCid(c))]
<1>4. k \in DerivedKeys
  BY <1>2, <1>3 DEF DerivedKeys, DerivationInput
<1>5. WithNextKey(c) = Append(keys[c], k)
  BY DEF WithNextKey
<1> HIDE DEF k
<1>6. /\ WithNextKey(c) \in Seq(DerivedKeys)
      /\ Len(WithNextKey(c)) = Len(keys[c]) + 1
      /\ WithNextKey(c)[Len(keys[c]) + 1] = k
      /\ \A i \in 1..Len(keys[c]) : WithNextKey(c)[i] = keys[c][i]
  BY <1>1, <1>4, <1>5
<1> QED
  BY <1>6 DEF k

LEMMA DeriveTyped ==
  ASSUME TypeInv, NEW c \in Calls, DeriveKeyReturns(c)
  PROVE  TypeInv'
<1> DEFINE got == WithNextKey(c)
<1>1. CallsTyped /\ pc[c] = "derive"
  BY DEF TypeInv, DeriveKeyReturns
<1>2. got \in Seq(DerivedKeys) /\ Len(got) = Len(keys[c]) + 1
  BY <1>1, NextKey
<1> HIDE DEF got
<1>3. CallsTyped'
  <2>1. CASE \E a \in Errors \union {"ok"} : Finish(c, a)
    BY <1>1, <2>1, FinishTyped
  <2>2. CASE \E place \in {"derive", "pubkey"} :
               /\ GoOn(c, place)
               /\ keys' = [keys EXCEPT ![c] = got]
               /\ place = "derive" => Len(got) < Len(req[c].cids)
               /\ place = "pubkey" => Len(got) = Len(req[c].cids)
               /\ UNCHANGED <<req, arrived, seen, payload, signed>>
    <3>1. /\ pc' \in [Calls -> Waiting \union {"idle"}]
          /\ answer' \in Errors \union {"none", "ok"}
      BY <1>1, <2>2 DEF CallsTyped, GoOn
    <3>2. keys' \in [Calls -> Seq(DerivedKeys)]
      BY <1>1, <1>2, <2>2 DEF CallsTyped
    <3>3. CallShape'
      BY <1>1, <2>2 DEF CallsTyped, CallShape, GoOn, OnRequest, ValidInput
    <3> QED
      BY <1>1, <2>2, <3>1, <3>2, <3>3 DEF CallsTyped
  <2> QED
    BY <2>1, <2>2 DEF DeriveKeyReturns, ReportVetKDError, got
<1> QED
  BY <1>3 DEF DeriveKeyReturns, TypeInv, names, memos

LEMMA TypeStep == TypeInv /\ [Next]_vars => TypeInv'
<1> SUFFICES ASSUME TypeInv, [Next]_vars PROVE TypeInv'
  OBVIOUS
<1> USE DEF TypeInv, names, memos
<1>1. ASSUME NEW c \in Calls, NEW q \in Requests, Enter(c, q)
      PROVE  TypeInv'
  BY <1>1, EnterTyped
<1>2. ASSUME NEW c \in Calls, PublicKeyReturns(c)
      PROVE  TypeInv'
  <2>1. CallsTyped'
    BY <1>2, FinishTyped DEF PublicKeyReturns, ReportVetKDError
  <2> QED
    BY <1>2, <2>1 DEF PublicKeyReturns
<1>3. ASSUME NEW c \in Calls, SignReturns(c)
      PROVE  TypeInv'
  <2>1. CallsTyped'
    BY <1>3, FinishTyped DEF SignReturns, ReportVetKDError
  <2> QED
    BY <1>3, <2>1 DEF SignReturns
<1>4. ASSUME NEW c \in Calls, WarmupReturns(c)
      PROVE  TypeInv'
  <2>1. CallsTyped'
    BY <1>4, FinishTyped DEF WarmupReturns
  <2> QED
    BY <1>4, <2>1 DEF WarmupReturns
<1>5. ASSUME NEW c \in Calls, NEW place \in {"warmup", "warmup_attest"},
             Warmup(c, place)
      PROVE  TypeInv'
  <2>1. CallsTyped'
    BY <1>5 DEF CallsTyped, CallShape, Warmup, GoOn, callVars, OnRequest, ValidInput
  <2> QED
    BY <1>5, <2>1 DEF Warmup
<1>6. ASSUME UNCHANGED <<pc, callVars>>, answer' \in {answer, "none"}
      PROVE  CallsTyped'
  BY <1>6 DEF CallsTyped, CallShape, callVars, OnRequest, ValidInput
<1>7. CASE Upgrade
  BY <1>6, <1>7 DEF Upgrade
<1>8. CASE Tick
  BY <1>6, <1>8, GateConstants DEF Tick
<1>9. CASE UNCHANGED vars
  BY <1>6, <1>9 DEF vars
<1> QED
  BY <1>1, <1>2, <1>3, <1>4, <1>5, <1>7, <1>8, <1>9,
     EthCallTyped, BalanceTyped, DeriveTyped
     DEF Next, Continue, RequestDecryptionKey, BatchRequestDecryptionKey,
         AttestHolding, BatchAttestHolding

(* The variables keep their types, every call carries what its place in    *)
(* the handler needs, and no loop of a batch derives more keys than it was *)
(* asked for.                                                              *)
THEOREM TypeCorrect == Spec => []TypeInv
<1>1. Init => TypeInv
  BY GateConstants DEF Init, TypeInv, CallsTyped, CallShape, Outcomes,
     NothingSeen, OnRequest
<1> QED
  BY <1>1, TypeStep, PTL DEF Spec

(* TypeOK, the type invariant of the specification, in which MaxCids is    *)
(* the limit on the keys of a batch.                                       *)
THEOREM TypeSafety == Spec => []TypeOK
<1>1. TypeInv => TypeOK
  <2> SUFFICES ASSUME TypeInv PROVE TypeOK
    OBVIOUS
  <2>1. ASSUME NEW c \in Calls
        PROVE  Len(keys[c]) <= MaxCids
    <3>1. CASE pc[c] \in {"derive", "pubkey"}
      <4>1. Len(req[c].cids) \in 1..MaxCids /\ Len(keys[c]) <= Len(req[c].cids)
        BY <3>1 DEF TypeInv, CallsTyped, CallShape, OnRequest, ValidInput
      <4> QED
        BY <4>1, GateConstants DEF TypeInv, CallsTyped
    <3>2. CASE pc[c] \notin {"derive", "pubkey"}
      BY <3>2, GateConstants DEF TypeInv, CallsTyped, CallShape
    <3> QED
      BY <3>1, <3>2
  <2> QED
    BY <2>1 DEF TypeInv, CallsTyped, TypeOK
<1> QED
  BY <1>1, TypeCorrect, PTL

-----------------------------------------------------------------------------
(* Nonces. *)

(* A request its wallet signed, whose nonce is spent. *)
Spent(q) == q \in Requests /\ SignedByWallet(q) /\ NonceKey(q) \in usedNonces

(* NonceSpentOnce is not inductive: that a nonce is fresh when a call is   *)
(* admitted only helps if those of all calls and answers are used up.      *)
NonceInv ==
  /\ \A c \in Calls : InFlight(c) => Spent(req[c])
  /\ \A r \in responses : Spent(r.req)
  /\ NonceSpentOnce

LEMMA NonceSame ==
  ASSUME NonceInv, UNCHANGED <<req, responses>>, usedNonces \subseteq usedNonces'
  PROVE  NonceInv'
BY DEF NonceInv, NonceSpentOnce, InFlight, Spent

LEMMA NonceFinish ==
  ASSUME TypeInv, NonceInv, NEW c \in Calls, NEW a, Finish(c, a),
         UNCHANGED <<usedNonces, responses>>
  PROVE  NonceInv'
BY DEF TypeInv, CallsTyped, NonceInv, NonceSpentOnce, InFlight, Spent, Finish

LEMMA NonceRespond ==
  ASSUME TypeInv, NonceInv, NEW c \in Calls, NEW a, NEW body,
         pc[c] \in OnRequest, Respond(c, body), Finish(c, a), UNCHANGED usedNonces
  PROVE  NonceInv'
<1>1. req[c] \in Requests /\ InFlight(c)
  BY RequestFields DEF TypeInv, CallsTyped, CallShape, InFlight
<1> DEFINE new == [req |-> req[c], arrived |-> arrived[c], at |-> now, body |-> body]
<1>2. responses' = responses \union {new} /\ new.req = req[c]
  BY DEF Respond
<1>3. Spent(new.req)
  BY <1>1, <1>2 DEF NonceInv
<1>4. req[c].sig.over.type = req[c].endpoint
  BY <1>1, <1>2, <1>3, StructType DEF Spent, SignedByWallet
<1> HIDE DEF new
<1>5. \A r \in responses : ~ SameMessage(req[c], r.req) /\ ~ SameMessage(r.req, req[c])
  BY <1>1 DEF NonceInv, NonceSpentOnce, SameMessage
<1>6. \A d \in Calls : InFlight(d)' => d # c /\ InFlight(d) /\ req'[d] = req[d]
  BY DEF Finish, InFlight, TypeInv, CallsTyped
<1>7. \A d \in Calls : InFlight(d)' => ~ SameMessage(req[d], new.req)
  BY <1>1, <1>2, <1>6 DEF NonceInv, NonceSpentOnce
<1>8. NonceSpentOnce'
  BY <1>2, <1>4, <1>5, <1>6, <1>7 DEF NonceInv, NonceSpentOnce
<1>9. /\ \A d \in Calls : InFlight(d)' => Spent(req[d])'
      /\ \A r \in responses' : Spent(r.req)'
  BY <1>2, <1>3, <1>6 DEF NonceInv, Spent
<1> QED
  BY <1>8, <1>9 DEF NonceInv

LEMMA NonceAdmit ==
  ASSUME TypeInv, NonceInv, NEW c \in Calls, NEW q \in Requests, pc[c] = "idle",
         NonceKey(q) \notin usedNonces,
         usedNonces' = usedNonces \union {NonceKey(q)},
         req' = [req EXCEPT ![c] = q], SignedByWallet(q),
         UNCHANGED responses
  PROVE  NonceInv'
<1>1. /\ ~ InFlight(c)
      /\ req'[c] = q
      /\ \A d \in Calls : d # c => req'[d] = req[d]
  BY DEF TypeInv, CallsTyped, CallShape, InFlight, OnRequest
<1>2. \A p : Spent(p) => ~ SameMessage(p, q) /\ ~ SameMessage(q, p)
  BY Once DEF Spent
<1>3. /\ \A d \in Calls : InFlight(d)' => Spent(req[d])'
      /\ \A r \in responses' : Spent(r.req)'
  BY <1>1 DEF NonceInv, Spent, InFlight
<1>4. \A d, e \in Calls :
        InFlight(d)' /\ InFlight(e)' /\ SameMessage(req'[d], req'[e]) => d = e
  BY <1>1, <1>2 DEF NonceInv, NonceSpentOnce, InFlight
<1>5. \A d \in Calls, r \in responses : InFlight(d)' => ~ SameMessage(req'[d], r.req)
  BY <1>1, <1>2 DEF NonceInv, NonceSpentOnce, InFlight
<1> QED
  BY <1>3, <1>4, <1>5 DEF NonceInv, NonceSpentOnce

LEMMA NonceStep == TypeInv /\ NonceInv /\ [Next]_vars => NonceInv'
<1> SUFFICES ASSUME TypeInv, NonceInv, [Next]_vars PROVE NonceInv'
  OBVIOUS
<1>1. ASSUME NEW c \in Calls, NEW q \in Requests, Enter(c, q)
      PROVE  NonceInv'
  <2>1. UNCHANGED responses /\ pc[c] = "idle"
    BY <1>1 DEF Enter, history
  <2>2. CASE req' = req /\ usedNonces \subseteq usedNonces'
    BY <2>1, <2>2, NonceSame
  <2>3. CASE /\ NonceKey(q) \notin usedNonces
             /\ usedNonces' = usedNonces \union {NonceKey(q)}
             /\ req' = [req EXCEPT ![c] = q]
             /\ SignedByWallet(q)
    BY <2>1, <2>3, NonceAdmit
  <2> QED
    BY <1>1, <2>2, <2>3 DEF Enter, AnswerAtOnce, callVars
<1>2. ASSUME NEW c \in Calls, EthCall(c)
      PROVE  NonceInv'
  BY <1>2, NonceSame DEF EthCall
<1>3. ASSUME NEW c \in Calls, CheckBalanceReturns(c)
      PROVE  NonceInv'
  BY <1>3, NonceSame, NonceFinish DEF CheckBalanceReturns, history
<1>4. ASSUME NEW c \in Calls, DeriveKeyReturns(c)
      PROVE  NonceInv'
  BY <1>4, NonceSame, NonceFinish, NonceRespond
     DEF DeriveKeyReturns, ReportVetKDError, OnRequest
<1>5. ASSUME NEW c \in Calls, PublicKeyReturns(c)
      PROVE  NonceInv'
  BY <1>5, NonceFinish, NonceRespond DEF PublicKeyReturns, ReportVetKDError, OnRequest
<1>6. ASSUME NEW c \in Calls, SignReturns(c)
      PROVE  NonceInv'
  BY <1>6, NonceFinish, NonceRespond DEF SignReturns, ReportVetKDError, OnRequest
<1>7. ASSUME NEW c \in Calls, WarmupReturns(c)
      PROVE  NonceInv'
  BY <1>7, NonceFinish DEF WarmupReturns, history
<1>8. CASE \/ \E c \in Calls, place \in {"warmup", "warmup_attest"} : Warmup(c, place)
           \/ Upgrade
           \/ Tick
           \/ UNCHANGED vars
  BY <1>8, NonceSame DEF Warmup, Upgrade, Tick, vars, callVars, history
<1> QED
  BY <1>1, <1>2, <1>3, <1>4, <1>5, <1>6, <1>7, <1>8
     DEF Next, Continue, RequestDecryptionKey, BatchRequestDecryptionKey,
         AttestHolding, BatchAttestHolding

LEMMA NonceAlways == Spec => []NonceInv
<1>1. Init => NonceInv
  BY DEF Init, NonceInv, NonceSpentOnce, InFlight
<1> QED
  BY <1>1, NonceStep, TypeCorrect, PTL DEF Spec

(* A nonce is answered with a result at most once by each endpoint, and so *)
(* is a signature over nonces that are uint256, only by the endpoint whose *)
(* type it signed.                                                         *)
THEOREM NonceSafety == Spec => []NonceSpentOnce
BY NonceAlways, PTL DEF NonceInv

-----------------------------------------------------------------------------
(* What stands behind the answers. *)

(* The chain was seen to have this balance in that time. *)
Read(q, balance, from, until) ==
  \E r \in readings :
    /\ r.wallet = q.wallet
    /\ r.token = LowerHex[q.token]
    /\ r.balance = balance
    /\ r.at \in from .. until

(* The keys of a batch so far, each for its own CID. *)
KeysFor(q, ks) ==
  \A i \in DOMAIN ks :
    ks[i] = [cid |-> q.cids[i], input |-> DerivationInput(q, q.cids[i])]

(* An attestation of what a request asked for and the chain has shown. *)
Attests(q, a, over, from, until) ==
  /\ over = Encoded(a)
  /\ a.timestamp \in from .. until
  /\ a.wallet = q.wallet /\ a.token = q.token
  /\ a.cids = IF q.endpoint = "attest" THEN q.cids ELSE CanonSeq(q)
  /\ Read(q, a.balance, from, a.timestamp)

(* What a call has behind it at each place where it waits. *)
OnItsWay(c) ==
  /\ pc[c] \in OnRequest => arrived[c] <= now
  /\ pc[c] = "balance" /\ seen[c].kind = "ok" =>
       Read(req[c], seen[c].balance, arrived[c], now)
  /\ pc[c] \in {"derive", "pubkey", "sign"} =>
       HoldsEnough(c) /\ Read(req[c], seen[c].balance, arrived[c], now)
  /\ pc[c] \in {"derive", "pubkey"} =>
       ~ IsAttestation(req[c]) /\ KeysFor(req[c], keys[c])
  /\ pc[c] = "sign" =>
       /\ IsAttestation(req[c])
       /\ Attests(req[c], payload[c], signed[c], arrived[c], now)

(* The three properties of the answers speak of the end of a call; what    *)
(* makes them inductive is what each call has behind it on its way there.  *)
AnswerInv ==
  /\ \A c \in Calls : OnItsWay(c)
  /\ AskedForEachRequest
  /\ KeysAsAsked
  /\ AttestationsTrue

(* A call that a step does not touch stays on its way while time passes    *)
(* and the chain is read.                                                  *)
LEMMA WayKept ==
  ASSUME TypeInv, NEW d \in Calls, OnItsWay(d),
         readings \subseteq readings', now' \in {now, now + 1},
         pc'[d] = pc[d], req'[d] = req[d], arrived'[d] = arrived[d],
         seen'[d] = seen[d], keys'[d] = keys[d],
         payload'[d] = payload[d], signed'[d] = signed[d]
  PROVE  OnItsWay(d)'
<1>1. now \in Nat /\ now' \in Nat /\ now <= now' /\ arrived[d] \in Nat
  BY GateConstants DEF TypeInv, CallsTyped
<1>2. (pc[d] \in OnRequest => arrived[d] <= now)'
  BY <1>1 DEF OnItsWay
<1>3. ASSUME Read(req[d], seen[d].balance, arrived[d], now)
      PROVE  Read(req[d], seen[d].balance, arrived[d], now)'
  <2>1. arrived[d] .. now \subseteq arrived[d] .. now'
    BY <1>1
  <2> QED
    BY <1>3, <2>1 DEF Read
<1>4. ASSUME Attests(req[d], payload[d], signed[d], arrived[d], now)
      PROVE  Attests(req[d], payload[d], signed[d], arrived[d], now)'
  <2>1. payload[d].timestamp \in arrived[d] .. now'
    BY <1>1, <1>4 DEF Attests
  <2> QED
    BY <1>4, <2>1 DEF Attests, Read
<1> QED
  BY <1>2, <1>3, <1>4 DEF OnItsWay, HoldsEnough, KeysFor

(* The answers given keep what stands behind them. *)
LEMMA AnswersKept ==
  ASSUME AnswerInv, readings \subseteq readings', UNCHANGED responses
  PROVE  AskedForEachRequest' /\ KeysAsAsked' /\ AttestationsTrue'
<1>1. AskedForEachRequest'
  BY DEF AnswerInv, AskedForEachRequest
<1>2. KeysAsAsked'
  BY DEF AnswerInv, KeysAsAsked, MapSeq
<1>3. AttestationsTrue'
  BY DEF AnswerInv, AttestationsTrue, MapSeq
<1> QED
  BY <1>1, <1>2, <1>3

LEMMA WayOver ==
  ASSUME TypeInv, NEW c \in Calls, NEW a, Finish(c, a)
  PROVE  OnItsWay(c)'
BY DEF Finish, OnItsWay, OnRequest, TypeInv, CallsTyped

(* The calls other than the one that moves. *)
Others(c) ==
  \A d \in Calls \ {c} :
    /\ pc'[d] = pc[d] /\ req'[d] = req[d] /\ arrived'[d] = arrived[d]
    /\ seen'[d] = seen[d] /\ keys'[d] = keys[d]
    /\ payload'[d] = payload[d] /\ signed'[d] = signed[d]

LEMMA FinishOthers ==
  ASSUME TypeInv, NEW c \in Calls, NEW a, Finish(c, a)
  PROVE  Others(c)
BY DEF Finish, TypeInv, CallsTyped, Others

(* A step of one call that answers nothing. *)
LEMMA AnswerFrame ==
  ASSUME TypeInv, AnswerInv, NEW c \in Calls, Others(c), OnItsWay(c)',
         readings \subseteq readings', now' \in {now, now + 1},
         UNCHANGED responses
  PROVE  AnswerInv'
<1>1. ASSUME NEW d \in Calls
      PROVE  OnItsWay(d)'
  <2>1. CASE d = c
    BY <2>1
  <2>2. CASE d # c
    BY <2>2, WayKept DEF AnswerInv, Others
  <2> QED
    BY <2>1, <2>2
<1> QED
  BY <1>1, AnswersKept DEF AnswerInv

LEMMA AnswerSame ==
  ASSUME TypeInv, AnswerInv, UNCHANGED <<pc, callVars, history>>,
         now' \in {now, now + 1}
  PROVE  AnswerInv'
<1>1. ASSUME NEW d \in Calls
      PROVE  OnItsWay(d)'
  BY WayKept DEF AnswerInv, callVars, history
<1> QED
  BY <1>1, AnswersKept DEF AnswerInv, history

LEMMA AnswerFinish ==
  ASSUME TypeInv, AnswerInv, NEW c \in Calls, NEW a, Finish(c, a),
         UNCHANGED <<now, history>>
  PROVE  AnswerInv'
BY WayOver, FinishOthers, AnswerFrame DEF history

LEMMA AnswerEnter ==
  ASSUME TypeInv, AnswerInv, NEW c \in Calls, NEW q \in Requests, Enter(c, q)
  PROVE  AnswerInv'
<1>1. UNCHANGED <<now, history>>
  BY DEF Enter
<1>2. CASE \E e : AnswerAtOnce(e)
  BY <1>1, <1>2, AnswerSame DEF AnswerAtOnce
<1>3. CASE /\ GoOn(c, "eth_call")
           /\ req' = [req EXCEPT ![c] = q]
           /\ arrived' = [arrived EXCEPT ![c] = now]
           /\ UNCHANGED <<seen, keys, payload, signed>>
  <2>1. now \in Nat /\ arrived'[c] = now /\ pc'[c] = "eth_call"
    BY <1>3, GateConstants DEF TypeInv, CallsTyped, GoOn
  <2>2. OnItsWay(c)'
    BY <1>1, <2>1 DEF OnItsWay
  <2>3. Others(c)
    BY <1>3 DEF Others, GoOn, TypeInv, CallsTyped
  <2> QED
    BY <1>1, <2>2, <2>3, AnswerFrame DEF history
<1> QED
  BY <1>2, <1>3 DEF Enter

LEMMA AnswerEthCall ==
  ASSUME TypeInv, AnswerInv, NEW c \in Calls, EthCall(c)
  PROVE  AnswerInv'
<1>1. /\ pc[c] = "eth_call" /\ pc'[c] = "balance"
      /\ UNCHANGED <<now, req, arrived, keys, payload, signed, responses>>
      /\ readings \subseteq readings'
  BY DEF EthCall, GoOn, TypeInv, CallsTyped
<1>2. Others(c)
  BY DEF EthCall, GoOn, Others, TypeInv, CallsTyped
<1>3. arrived[c] \in Nat /\ now \in Nat /\ arrived[c] <= now
  BY <1>1, GateConstants DEF TypeInv, CallsTyped, AnswerInv, OnItsWay, OnRequest
<1>4. seen'[c].kind = "ok" =>
        \E r \in readings' :
          /\ r.wallet = req[c].wallet
          /\ r.token = LowerHex[req[c].token]
          /\ r.balance = seen'[c].balance
          /\ r.at = now
  <2>1. ASSUME NEW b \in Balances,
               seen' = [seen EXCEPT ![c] = [kind |-> "ok", balance |-> b]],
               readings' = readings \union
                 {[wallet |-> req[c].wallet, token |-> LowerHex[req[c].token],
                   balance |-> b, at |-> now]}
        PROVE  \E r \in readings' :
                 /\ r.wallet = req[c].wallet
                 /\ r.token = LowerHex[req[c].token]
                 /\ r.balance = seen'[c].balance
                 /\ r.at = now
    <3> DEFINE new == [wallet |-> req[c].wallet, token |-> LowerHex[req[c].token],
                       balance |-> b, at |-> now]
    <3>1. seen'[c].balance = b
      BY <2>1 DEF TypeInv, CallsTyped
    <3>2. new \in readings'
      BY <2>1
    <3> QED
      BY <3>1, <3>2
  <2>2. ASSUME NEW e \in {"EvmRpcError", "Rejected"},
               seen' = [seen EXCEPT ![c] = [kind |-> e, balance |-> 0]]
        PROVE  seen'[c].kind # "ok"
    BY <2>2 DEF TypeInv, CallsTyped
  <2> QED
    BY <2>1, <2>2 DEF EthCall
<1>5. OnItsWay(c)'
  BY <1>1, <1>3, <1>4 DEF OnItsWay, OnRequest, Read
<1> QED
  BY <1>1, <1>2, <1>5, AnswerFrame

LEMMA AnswerBalance ==
  ASSUME TypeInv, AnswerInv, NEW c \in Calls, CheckBalanceReturns(c)
  PROVE  AnswerInv'
<1>1. UNCHANGED <<now, history>> /\ pc[c] = "balance"
  BY DEF CheckBalanceReturns
<1>2. CASE \E a : Finish(c, a)
  BY <1>1, <1>2, AnswerFinish
<1>3. CASE /\ seen[c].kind = "ok" /\ HoldsEnough(c)
           /\ UNCHANGED <<req, arrived, seen, keys>>
           /\ \/ /\ IsAttestation(req[c])
                 /\ GoOn(c, "sign")
                 /\ payload' = [payload EXCEPT ![c] = Attestation(c)]
                 /\ signed' = [signed EXCEPT ![c] = Encoded(Attestation(c))]
              \/ /\ ~ IsAttestation(req[c])
                 /\ GoOn(c, "derive")
                 /\ UNCHANGED <<payload, signed>>
  <2>1. /\ arrived[c] \in Nat /\ now \in Nat /\ arrived[c] <= now
        /\ Read(req[c], seen[c].balance, arrived[c], now)
        /\ keys[c] = <<>>
    BY <1>1, <1>3, GateConstants
       DEF TypeInv, CallsTyped, CallShape, AnswerInv, OnItsWay, OnRequest
  <2>2. Others(c)
    BY <1>3 DEF Others, GoOn, TypeInv, CallsTyped
  <2>3. HoldsEnough(c)' /\ Read(req[c], seen[c].balance, arrived[c], now)'
    BY <1>1, <1>3, <2>1 DEF HoldsEnough, Read, history
  <2>4. CASE /\ IsAttestation(req[c])
             /\ GoOn(c, "sign")
             /\ payload' = [payload EXCEPT ![c] = Attestation(c)]
             /\ signed' = [signed EXCEPT ![c] = Encoded(Attestation(c))]
    <3>1. /\ pc'[c] = "sign"
          /\ payload'[c] = Attestation(c)
          /\ signed'[c] = Encoded(Attestation(c))
      BY <2>4 DEF GoOn, TypeInv, CallsTyped
    <3> DEFINE a == Attestation(c)
    <3>2. /\ a.wallet = req[c].wallet /\ a.token = req[c].token
          /\ a.timestamp = now /\ a.balance = seen[c].balance
          /\ a.cids = IF req[c].endpoint = "attest" THEN req[c].cids
                                                    ELSE CanonSeq(req[c])
      BY DEF Attestation
    <3> HIDE DEF a
    <3>3. Attests(req[c], a, Encoded(a), arrived[c], now)
      BY <2>1, <3>2 DEF Attests
    <3>4. Attests(req[c], payload[c], signed[c], arrived[c], now)'
      BY <1>1, <1>3, <3>1, <3>3 DEF Attests, Read, a, history
    <3>5. OnItsWay(c)'
      BY <1>1, <1>3, <2>1, <2>3, <2>4, <3>1, <3>4 DEF OnItsWay, OnRequest
    <3> QED
      BY <1>1, <2>2, <3>5, AnswerFrame DEF history
  <2>5. CASE ~ IsAttestation(req[c]) /\ GoOn(c, "derive")
    <3>1. pc'[c] = "derive"
      BY <2>5 DEF GoOn, TypeInv, CallsTyped
    <3>2. KeysFor(req[c], keys[c])'
      BY <1>3, <2>1 DEF KeysFor
    <3>3. OnItsWay(c)'
      BY <1>1, <1>3, <2>1, <2>3, <2>5, <3>1, <3>2 DEF OnItsWay, OnRequest
    <3> QED
      BY <1>1, <2>2, <3>3, AnswerFrame DEF history
  <2> QED
    BY <1>3, <2>4, <2>5
<1> QED
  BY <1>2, <1>3 DEF CheckBalanceReturns

(* The keys of a batch that are all there are those it asked for, and the  *)
(* wallet of a batch gate signed their derivation inputs.                  *)
LEMMA KeysComplete ==
  ASSUME NEW q \in Requests, SignedByWallet(q), NEW ks \in Seq(DerivedKeys),
         KeysFor(q, ks), Len(ks) = Len(q.cids)
  PROVE  /\ \A i \in DOMAIN ks :
              /\ ks[i].cid = q.cids[i]
              /\ ks[i].input = DerivationInput(q, q.cids[i])
         /\ q.endpoint = "batch_gate" =>
              q.sig.over.inputs = MapSeq(ks, LAMBDA k : k.input)
<1>1. \A i \in DOMAIN ks :
        /\ ks[i].cid = q.cids[i]
        /\ ks[i].input = DerivationInput(q, q.cids[i])
  BY DEF KeysFor
<1>2. DOMAIN ks = DOMAIN q.cids
  BY RequestFields
<1>3. MapSeq(ks, LAMBDA k : k.input) =
        MapSeq(q.cids, LAMBDA x : DerivationInput(q, x))
  BY <1>1, <1>2 DEF MapSeq
<1>4. ASSUME q.endpoint = "batch_gate"
      PROVE  q.sig.over.inputs = MapSeq(q.cids, LAMBDA x : DerivationInput(q, x))
  BY <1>4 DEF SignedByWallet, StructHash
<1> QED
  BY <1>1, <1>3, <1>4

(* The gate answers with keys. *)
LEMMA AnswerKeys ==
  ASSUME TypeInv, NonceInv, AnswerInv, NEW c \in Calls, NEW a,
         pc[c] \in {"derive", "pubkey"},
         NEW ks \in Seq(DerivedKeys), KeysFor(req[c], ks),
         Len(ks) = Len(req[c].cids),
         Respond(c, ks), Finish(c, a), UNCHANGED <<now, readings>>
  PROVE  AnswerInv'
<1> DEFINE new == [req |-> req[c], arrived |-> arrived[c], at |-> now, body |-> ks]
<1>1. responses' = responses \union {new}
  BY DEF Respond
<1>2. /\ new.req = req[c] /\ new.arrived = arrived[c]
      /\ new.at = now /\ new.body = ks
  OBVIOUS
<1> HIDE DEF new
<1>3. /\ req[c] \in Requests /\ SignedByWallet(req[c])
      /\ req[c].threshold \in Nat
  BY RequestFields
     DEF TypeInv, CallsTyped, CallShape, OnRequest, NonceInv, InFlight, Spent
<1>4. /\ HoldsEnough(c) /\ ~ IsAttestation(req[c])
      /\ Read(req[c], seen[c].balance, arrived[c], now)
  BY DEF AnswerInv, OnItsWay
<1>5. AskedForEachRequest'
  BY <1>1, <1>2, <1>4 DEF AnswerInv, AskedForEachRequest, HoldsEnough, Read
<1>6. KeysAsAsked'
  <2>1. SUFFICES ASSUME NEW s \in responses', ~ IsAttestation(s.req)
                 PROVE  /\ Len(s.body) = Len(s.req.cids)
                        /\ \A i \in DOMAIN s.body :
                             /\ s.body[i].cid = s.req.cids[i]
                             /\ s.body[i].input = DerivationInput(s.req, s.req.cids[i])
                        /\ s.req.endpoint = "batch_gate" =>
                             s.req.sig.over.inputs = MapSeq(s.body, LAMBDA k : k.input)
    BY DEF KeysAsAsked, MapSeq
  <2>2. CASE s \in responses
    BY <2>1, <2>2 DEF AnswerInv, KeysAsAsked, MapSeq
  <2>3. CASE s = new
    <3>1. /\ \A i \in DOMAIN ks :
               /\ ks[i].cid = req[c].cids[i]
               /\ ks[i].input = DerivationInput(req[c], req[c].cids[i])
          /\ req[c].endpoint = "batch_gate" =>
               req[c].sig.over.inputs = MapSeq(ks, LAMBDA k : k.input)
      BY <1>3, KeysComplete
    <3> QED
      BY <1>2, <2>3, <3>1 DEF MapSeq
  <2> QED
    BY <1>1, <2>2, <2>3
<1>7. AttestationsTrue'
  BY <1>1, <1>2, <1>4 DEF AnswerInv, AttestationsTrue, MapSeq
<1>8. ASSUME NEW d \in Calls
      PROVE  OnItsWay(d)'
  <2>1. CASE d = c
    BY <2>1, WayOver
  <2>2. CASE d # c
    BY <2>2, WayKept, FinishOthers DEF AnswerInv, Others
  <2> QED
    BY <2>1, <2>2
<1> QED
  BY <1>5, <1>6, <1>7, <1>8 DEF AnswerInv

(* The attestation that is returned is the one that was signed. *)
LEMMA AnswerAttestation ==
  ASSUME TypeInv, NonceInv, AnswerInv, NEW c \in Calls, NEW a,
         pc[c] = "sign",
         Respond(c, [attestation |-> payload[c], over |-> signed[c]]),
         Finish(c, a), UNCHANGED <<now, readings>>
  PROVE  AnswerInv'
<1> DEFINE new == [req |-> req[c], arrived |-> arrived[c], at |-> now,
                   body |-> [attestation |-> payload[c], over |-> signed[c]]]
<1>1. responses' = responses \union {new}
  BY DEF Respond
<1>2. /\ new.req = req[c] /\ new.arrived = arrived[c] /\ new.at = now
      /\ new.body.attestation = payload[c] /\ new.body.over = signed[c]
  OBVIOUS
<1> HIDE DEF new
<1>3. /\ req[c] \in Requests /\ SignedByWallet(req[c])
      /\ req[c].cids \in Seq(Cids) /\ req[c].endpoint \in Endpoints
  BY RequestFields
     DEF TypeInv, CallsTyped, CallShape, OnRequest, NonceInv, InFlight, Spent
<1>4. /\ HoldsEnough(c) /\ IsAttestation(req[c])
      /\ Read(req[c], seen[c].balance, arrived[c], now)
      /\ Attests(req[c], payload[c], signed[c], arrived[c], now)
  BY DEF AnswerInv, OnItsWay
<1>5. AskedForEachRequest'
  BY <1>1, <1>2, <1>4 DEF AnswerInv, AskedForEachRequest, HoldsEnough, Read
<1>6. KeysAsAsked'
  BY <1>1, <1>2, <1>4 DEF AnswerInv, KeysAsAsked, MapSeq
<1>7. MapSeq(payload[c].cids, LAMBDA x : Canon[x]) = req[c].sig.over.cids
  <2>1. req[c].sig.over.cids = CanonSeq(req[c])
    BY <1>3, <1>4 DEF SignedByWallet, StructHash, IsAttestation
  <2>2. CASE payload[c].cids = req[c].cids
    BY <2>1, <2>2 DEF CanonSeq
  <2>3. CASE payload[c].cids = CanonSeq(req[c])
    BY <1>3, <2>1, <2>3, CanonTwice DEF CanonSeq
  <2> QED
    BY <1>4, <2>2, <2>3 DEF Attests
<1>8. AttestationsTrue'
  <2> DEFINE True(s) ==
        /\ s.body.over = Encoded(s.body.attestation)
        /\ s.body.attestation.timestamp \in s.arrived .. s.at
        /\ MapSeq(s.body.attestation.cids, LAMBDA x : Canon[x]) = s.req.sig.over.cids
        /\ \E r \in readings :
             /\ r.wallet = s.body.attestation.wallet
             /\ r.token = LowerHex[s.body.attestation.token]
             /\ r.balance = s.body.attestation.balance
             /\ r.at \in s.arrived .. s.body.attestation.timestamp
  <2>1. \A s \in responses : IsAttestation(s.req) => True(s)
    BY DEF AnswerInv, AttestationsTrue
  <2>2. True(new)
    BY <1>2, <1>4, <1>7 DEF Attests, Read
  <2> HIDE DEF True
  <2>3. \A s \in responses' : IsAttestation(s.req) => True(s)
    BY <1>1, <2>1, <2>2
  <2> QED
    BY <2>3 DEF AttestationsTrue, True, MapSeq
<1>9. ASSUME NEW d \in Calls
      PROVE  OnItsWay(d)'
  <2>1. CASE d = c
    BY <2>1, WayOver
  <2>2. CASE d # c
    BY <2>2, WayKept, FinishOthers DEF AnswerInv, Others
  <2> QED
    BY <2>1, <2>2
<1> QED
  BY <1>5, <1>6, <1>8, <1>9 DEF AnswerInv

LEMMA AnswerDerive ==
  ASSUME TypeInv, NonceInv, AnswerInv, NEW c \in Calls, DeriveKeyReturns(c)
  PROVE  AnswerInv'
<1> DEFINE got == WithNextKey(c)
<1>1. UNCHANGED <<now, readings>> /\ pc[c] = "derive"
  BY DEF DeriveKeyReturns
<1>2. /\ keys[c] \in Seq(DerivedKeys)
      /\ KeysFor(req[c], keys[c])
  BY <1>1 DEF TypeInv, CallsTyped, AnswerInv, OnItsWay
<1>3. got \in Seq(DerivedKeys) /\ KeysFor(req[c], got)
  <2>1. /\ got \in Seq(DerivedKeys)
        /\ Len(got) = Len(keys[c]) + 1
        /\ got[Len(keys[c]) + 1] =
             [cid |-> NextCid(c), input |-> DerivationInput(req[c], NextCid(c))]
        /\ \A i \in 1..Len(keys[c]) : got[i] = keys[c][i]
    BY <1>1, NextKey
  <2> HIDE DEF got
  <2>2. ASSUME NEW i \in DOMAIN got
        PROVE  got[i] = [cid |-> req[c].cids[i],
                         input |-> DerivationInput(req[c], req[c].cids[i])]
    <3>1. CASE i = Len(keys[c]) + 1
      BY <2>1, <3>1 DEF NextCid
    <3>2. CASE i # Len(keys[c]) + 1
      <4>1. i \in 1..Len(keys[c]) /\ i \in DOMAIN keys[c]
        BY <1>2, <2>1, <3>2
      <4> QED
        BY <1>2, <2>1, <4>1 DEF KeysFor
    <3> QED
      BY <3>1, <3>2
  <2> QED
    BY <2>1, <2>2 DEF KeysFor
<1> HIDE DEF got
<1>4. CASE \E a : Finish(c, a) /\ UNCHANGED responses
  BY <1>1, <1>4, AnswerFinish DEF history
<1>5. CASE Len(got) = Len(req[c].cids) /\ Respond(c, got) /\ Finish(c, "ok")
  BY <1>1, <1>3, <1>5, AnswerKeys
<1>6. CASE \E place \in {"derive", "pubkey"} :
             /\ GoOn(c, place)
             /\ keys' = [keys EXCEPT ![c] = got]
             /\ UNCHANGED <<req, arrived, seen, payload, signed, responses>>
  <2>1. Others(c) /\ keys'[c] = got /\ pc'[c] \in {"derive", "pubkey"}
    BY <1>6 DEF Others, GoOn, TypeInv, CallsTyped
  <2>2. /\ arrived[c] <= now /\ HoldsEnough(c) /\ ~ IsAttestation(req[c])
        /\ Read(req[c], seen[c].balance, arrived[c], now)
    BY <1>1 DEF AnswerInv, OnItsWay, OnRequest
  <2>3. OnItsWay(c)'
    BY <1>1, <1>3, <1>6, <2>1, <2>2 DEF OnItsWay, OnRequest, HoldsEnough, Read, KeysFor
  <2> QED
    BY <1>1, <1>6, <2>1, <2>3, AnswerFrame
<1> QED
  BY <1>4, <1>5, <1>6 DEF DeriveKeyReturns, ReportVetKDError, got

LEMMA AnswerStep == TypeInv /\ NonceInv /\ AnswerInv /\ [Next]_vars => AnswerInv'
<1> SUFFICES ASSUME TypeInv, NonceInv, AnswerInv, [Next]_vars PROVE AnswerInv'
  OBVIOUS
<1>1. ASSUME NEW c \in Calls, PublicKeyReturns(c)
      PROVE  AnswerInv'
  <2>1. /\ pc[c] = "pubkey" /\ UNCHANGED <<now, readings>>
        /\ keys[c] \in Seq(DerivedKeys) /\ KeysFor(req[c], keys[c])
        /\ Len(keys[c]) = Len(req[c].cids)
    BY <1>1 DEF PublicKeyReturns, TypeInv, CallsTyped, CallShape, AnswerInv, OnItsWay
  <2>2. CASE ReportVetKDError(c) /\ UNCHANGED responses
    BY <2>1, <2>2, AnswerFinish DEF ReportVetKDError, history
  <2>3. CASE Respond(c, keys[c]) /\ Finish(c, "ok")
    BY <2>1, <2>3, AnswerKeys
  <2> QED
    BY <1>1, <2>2, <2>3 DEF PublicKeyReturns
<1>2. ASSUME NEW c \in Calls, SignReturns(c)
      PROVE  AnswerInv'
  <2>1. pc[c] = "sign" /\ UNCHANGED <<now, readings>>
    BY <1>2 DEF SignReturns
  <2>2. CASE ReportVetKDError(c) /\ UNCHANGED responses
    BY <2>1, <2>2, AnswerFinish DEF ReportVetKDError, history
  <2>3. CASE /\ Respond(c, [attestation |-> payload[c], over |-> signed[c]])
             /\ Finish(c, "ok")
    BY <2>1, <2>3, AnswerAttestation
  <2> QED
    BY <1>2, <2>2, <2>3 DEF SignReturns, ReturnedAttestation
<1>3. ASSUME NEW c \in Calls, WarmupReturns(c)
      PROVE  AnswerInv'
  BY <1>3, AnswerFinish DEF WarmupReturns
<1>4. ASSUME NEW c \in Calls, NEW place \in {"warmup", "warmup_attest"},
             Warmup(c, place)
      PROVE  AnswerInv'
  <2>1. Others(c) /\ pc'[c] \notin OnRequest
    BY <1>4 DEF Warmup, GoOn, Others, callVars, TypeInv, CallsTyped, OnRequest
  <2>2. OnItsWay(c)'
    BY <2>1 DEF OnItsWay, OnRequest
  <2> QED
    BY <1>4, <2>1, <2>2, AnswerFrame DEF Warmup, history
<1>5. CASE Upgrade \/ Tick \/ UNCHANGED vars
  BY <1>5, AnswerSame DEF Upgrade, Tick, vars
<1> QED
  BY <1>1, <1>2, <1>3, <1>4, <1>5,
     AnswerEnter, AnswerEthCall, AnswerBalance, AnswerDerive
     DEF Next, Continue, RequestDecryptionKey, BatchRequestDecryptionKey,
         AttestHolding, BatchAttestHolding

LEMMA AnswersAlways == Spec => []AnswerInv
<1>1. Init => AnswerInv
  BY DEF Init, AnswerInv, OnItsWay, OnRequest, AskedForEachRequest, KeysAsAsked,
         AttestationsTrue
<1> QED
  BY <1>1, AnswerStep, TypeCorrect, NonceAlways, PTL DEF Spec

(* Behind every key and every attestation is a balance, at or above the    *)
(* threshold, that the chain showed while that request was being served.   *)
THEOREM AskedSafety == Spec => []AskedForEachRequest
BY AnswersAlways, PTL DEF AnswerInv

(* A batch is answered with one key for each CID, in order, and each key   *)
(* is for what the wallet signed.                                          *)
THEOREM KeysSafety == Spec => []KeysAsAsked
BY AnswersAlways, PTL DEF AnswerInv

(* An attestation is returned as it was signed, and tells of a balance and *)
(* of CID hashes that were really there.                                   *)
THEOREM AttestationSafety == Spec => []AttestationsTrue
BY AnswersAlways, PTL DEF AnswerInv

=============================================================================
