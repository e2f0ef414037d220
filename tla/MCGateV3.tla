------------------------------- MODULE MCGateV3 -------------------------------
(* Small instances of GateV3. *)
EXTENDS GateV3, TLC

CONSTANTS c1, c2, w1, w2, tok, tokMixed, dom, t1, t2, kA, kB

(* Two spellings of one token. *)
MCLowerHex == [t \in Tokens |-> tok]

n1 == [domain |-> dom, number |-> 1]
n2 == [domain |-> dom, number |-> 2]

(* A nonce with the encoding of n1. *)
n1Wide == [domain |-> dom, number |-> 1 + Width]

(* A request of a client that signed what it sends. *)
Signed(ep, w, thr, e, n) ==
  [endpoint |-> ep, token |-> tok, threshold |-> thr, epoch |-> e,
   wallet |-> w, transport |-> t1, nonce |-> n, cids |-> 1,
   wellFormed |-> TRUE,
   sig |-> [signer |-> w,
            over |-> [wallet |-> w, transport |-> t1, epoch |-> e, nonce |-> n]]]

(* One message sent to both endpoints and for two thresholds, and again    *)
(* with a nonce past the width of its signature; two wallets, two epochs,  *)
(* two spellings, the free tier, and each way to be refused.               *)
MCRequests ==
  {Signed("single", w1, 2, 0, n1),
   Signed("batch", w1, 1, 0, n1),
   [Signed("single", w1, 1, 0, n1) EXCEPT !.nonce = n1Wide],
   Signed("single", w1, 1, 1, n1),
   Signed("single", w2, 1, 0, n1),
   [Signed("batch", w1, 2, 0, n2) EXCEPT !.token = tokMixed],
   Signed("single", w1, 1, 1, n2),
   Signed("single", w2, 1, 0, n2),
   Signed("single", w1, 0, 1, n2),
   [Signed("batch", w1, 2, 0, n2) EXCEPT !.cids = 2],
   [Signed("single", w1, 2, 0, n1) EXCEPT !.wellFormed = FALSE],
   [Signed("single", w2, 1, 0, n2) EXCEPT !.sig.signer = w1],
   [Signed("single", w1, 2, 0, n2) EXCEPT !.transport = t2]}

(* One wallet, three calls: a probe, a repeat and a free one. *)
MCOneWallet ==
  {Signed("single", w1, 1, 0, n1),
   Signed("batch", w1, 1, 0, n2),
   Signed("single", w1, 0, 1, n1)}

(* Two rows that expire apart, and the refresh of one of them. *)
MCTwoRows ==
  {Signed("single", w1, 1, 0, n1),
   Signed("single", w1, 1, 0, n2),
   Signed("single", w2, 1, 0, n2)}

(* A behaviour spends two of the three nonces. *)
TwoNonces == Cardinality(usedNonces) <= 2

CallSymmetry == Permutations(Calls)

=============================================================================
