--------------------------- MODULE MCSignedRequests ---------------------------
(* A small instance of SignedRequests: two spellings of one account and    *)
(* one that is no address, nonces up to Width, an epoch to come and a      *)
(* negative one, and two canisters behind one agent.                       *)
EXTENDS SignedRequests, TLC

CONSTANTS s1, s2, main, test, ag, acc, accMixed, other, dom, domMixed, junk,
          corpus, badToken, x1, x2

MCLowerHex(a) ==
  CASE a = accMixed -> acc [] a = domMixed -> dom [] OTHER -> a

Plan(flow, cids, ep, target) ==
  [flow |-> flow, canister |-> main, agent |-> ag, account |-> acc,
   evmAddress |-> accMixed, contract |-> domMixed, gate |-> corpus, cids |-> cids,
   epoch |-> ep, target |-> target, nonce |-> 1]

Single == Plan("gate", <<x1>>, 0, 0)
Batch  == Plan("batch_gate", <<x2, x1>>, 0, 0)
V3     == Plan("gate_v3", <<x1>>, 1, 0)
V4     == Plan("gate_v4", <<x1>>, 1, 2)
File   == Plan("decryptGatedFile", <<x1>>, 0, 0)

(* As they should be; then with another account selected, at the other     *)
(* canister, with a malformed token, with what a wallet or a builder       *)
(* refuses, and past the limit of a batch.                                 *)
MCPlans ==
  {Single, Batch, V3, V4, File,
   [V4 EXCEPT !.account = other],
   [Single EXCEPT !.canister = test],
   [V3 EXCEPT !.gate = badToken],
   [Single EXCEPT !.evmAddress = junk], [V4 EXCEPT !.contract = junk],
   [Single EXCEPT !.nonce = Width], [V3 EXCEPT !.epoch = -1],
   [V4 EXCEPT !.target = -1],
   [Batch EXCEPT !.cids = <<x1, x2, x1>>]}

SessionSymmetry == Permutations(Sessions)

=============================================================================
