----------------------------- MODULE CanisterMaps -----------------------------
(***************************************************************************)
(* What the maps of the canister have in common: tokens as keys, whatever  *)
(* their spelling, and janitors that sweep a bounded number of rows.       *)
(***************************************************************************)
EXTENDS Integers, FiniteSets

CONSTANTS
  Tokens,   \* (chain, tokenAddress) pairs, as requests spell them
  LowerHex  \* a spelling of a token, lowercased

ASSUME TokenConstants == LowerHex \in [Tokens -> Tokens]

(* The sets of rows one call of a janitor may delete: it walks the map in  *)
(* key order and stops at maxBatch, so it takes all the expired rows or    *)
(* maxBatch of them.  Which ones depends on the text order of the keys,    *)
(* which is left open.                                                     *)
Sweeps(expired, maxBatch) ==
  {D \in SUBSET expired :
     \/ D = expired /\ Cardinality(D) <= maxBatch
     \/ Cardinality(D) = maxBatch}

=============================================================================
