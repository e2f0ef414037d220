------------------------------- MODULE MCGateV4 -------------------------------
(* Small instances of GateV4: one wallet, one priced token in two          *)
(* spellings, one chain, two Bond contracts and an address that is none.   *)
EXTENDS GateV4, TLC

CONSTANTS c1, c2, wal, tok, tokMixed, weth, wethB, eth, bondA, bondB, notBond,
  dom, t1, t2, kA, kB

MCLowerHex == [t \in Tokens |-> IF t = tokMixed THEN tok ELSE t]

MCChainOf == [t \in Tokens |-> eth]

ConfigA == [bond |-> bondA, wrappedNative |-> weth]
ConfigB == [bond |-> bondB, wrappedNative |-> wethB]

MCDefaultConfig == [x \in Chains |-> ConfigA]
MCOverrides == {ConfigA, ConfigB}

(* Each Bond has a reserve of its own.  A wrapped native is not itself on  *)
(* a curve; what a Bond says of it is no wrapped native.                   *)
MCReserveOf ==
  [bt \in Contracts \X Tokens |->
     IF bt[2] \in {weth, wethB} THEN tok ELSE IF bt[1] = bondB THEN wethB ELSE weth]

(* decimals() is 2 for the token, 1 and 0 for the reserves. *)
MCUnitOf == [t \in Tokens |-> IF t = weth THEN 10 ELSE IF t = wethB THEN 1 ELSE 100]

n1 == [domain |-> dom, number |-> 1]
n2 == [domain |-> dom, number |-> 2]

(* A nonce with the encoding of n1. *)
n1Wide == [domain |-> dom, number |-> 1 + Width]

(* A request of a client that signed what it sends. *)
Signed(thr, e, target, oracle, n) ==
  [kind |-> "gate", token |-> tok, threshold |-> thr, epoch |-> e,
   target |-> target, oracle |-> oracle, wallet |-> wal, transport |-> t1,
   nonce |-> n, wellFormed |-> TRUE,
   sig |-> [signer |-> wal,
            over |-> [wallet |-> wal, transport |-> t1, epoch |-> e,
                      target |-> target, nonce |-> n]]]

Cap(t, oracle) == [kind |-> "cap", token |-> t, oracle |-> oracle]

(* A message, and the same again with a nonce past the width of its        *)
(* signature and the other spelling, a chunk of a later epoch and one of   *)
(* another target, and each way to be refused.                             *)
MCRequests ==
  {Signed(1, 0, 1, bondA, n1),
   [Signed(1, 0, 1, bondA, n1) EXCEPT !.nonce = n1Wide, !.token = tokMixed],
   Signed(0, 1, 1, bondA, n1),
   Signed(1, 0, 2, bondA, n2),
   Signed(1, 0, 1, notBond, n2),
   [Signed(1, 0, 1, bondA, n1) EXCEPT !.wellFormed = FALSE],
   [Signed(1, 0, 2, bondA, n1) EXCEPT !.sig.over.target = 1],
   [Signed(1, 0, 1, bondA, n2) EXCEPT !.transport = t2]}

(* Two readers of the free tier, one rung apart. *)
MCFreeRequests == {Signed(0, 0, 1, bondA, n1), Signed(0, 0, 2, bondB, n2)}

MCCapRequests == {Cap(tok, bondA), Cap(weth, bondA)}

(* A behaviour spends two of the three nonces. *)
TwoNonces == Cardinality(usedNonces) <= 2

CallSymmetry == Permutations(Calls)

=============================================================================
