------------------------------- MODULE MCGateV1 -------------------------------
(* Small instances of GateV1. *)
EXTENDS GateV1, TLC

CONSTANTS c1, c2, w1, w2, tok, dom, t1, t2, x1, x2, X2, kA, kB

CONSTANT MaxSpent  \* bound on the nonces a behaviour spends

MCLowerHex == [t \in Tokens |-> t]

(* X2 is x2 with its 0x prefix. *)
MCCanon == [x \in Cids |-> IF x = X2 THEN x2 ELSE x]

n1 == [domain |-> dom, number |-> 1]
n2 == [domain |-> dom, number |-> 2]

(* A nonce with the encoding of n1. *)
n1Wide == [domain |-> dom, number |-> 1 + Width]

(* A request as a client sends it, and signs it. *)
Request(ep, thr, cids, n) ==
  [endpoint |-> ep, token |-> tok, threshold |-> thr, wallet |-> w1,
   transport |-> t1, nonce |-> n, cids |-> cids, wellFormed |-> TRUE]

WithSig(q, signer, over) == q @@ [sig |-> [signer |-> signer, over |-> over]]

Signed(q) == WithSig(q, w1, StructHash(q))

(* A message signed for q and sent with the fields of r. *)
Resent(q, r) == WithSig(r, w1, StructHash(q))

Single == Request("gate", 2, <<x1>>, n1)
Batch  == Request("batch_gate", 2, <<x1, x2>>, n1)
Attest == Request("attest", 2, <<X2>>, n1)
Merkle == Request("merkle_attest", 2, <<X2, x1>>, n1)

(* The single and the batch gate: the same message twice, with a nonce     *)
(* past the width of its signature, with other CIDs than those that were   *)
(* signed, at the other endpoint, without a gate and beyond the limit.     *)
MCGateRequests ==
  {Signed(Single), Signed(Batch),
   Resent(Single, [Single EXCEPT !.nonce = n1Wide]),
   Resent(Single, [Single EXCEPT !.cids = <<x2>>]),
   Resent(Batch, [Batch EXCEPT !.cids = <<x2, x1>>]),
   Resent(Batch, [Batch EXCEPT !.endpoint = "gate", !.cids = <<x1>>, !.nonce = n2]),
   Signed([Single EXCEPT !.threshold = 0]),
   Signed([Batch EXCEPT !.cids = <<x1, x2, x1>>])}

(* The two attestation endpoints, likewise. *)
MCAttestRequests ==
  {Signed(Attest), Signed(Merkle),
   Resent(Attest, [Attest EXCEPT !.nonce = n1Wide]),
   Resent(Attest, [Attest EXCEPT !.cids = <<x2>>]),
   Resent(Merkle, [Merkle EXCEPT !.endpoint = "attest", !.cids = <<x1>>, !.nonce = n2])}

MCRequests == MCGateRequests \cup MCAttestRequests

(* Gates and attestations share no scope of nonces: a behaviour spends     *)
(* those of the gates or those of the attestations, and two of them.       *)
OneKind ==
  LET Within(endpoints) == \A k \in usedNonces : k[1] \in endpoints
  IN  /\ Within({"gate", "batch_gate"}) \/ Within({"attest", "merkle_attest"})
      /\ Cardinality(usedNonces) <= MaxSpent

=============================================================================
