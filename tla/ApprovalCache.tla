---------------------------- MODULE ApprovalCache ----------------------------
(***************************************************************************)
(* The approval cache of the canister: the map approvedHolders and the     *)
(* four helpers of main.mo that read and write it.  Every protocol-v3 and  *)
(* protocol-v4 gate goes through these helpers, so they are kept as        *)
(* operators on the value of the map and the modules of the gates share    *)
(* them.  A map without a row for a key is a function that has NoRow there.*)
(***************************************************************************)
EXTENDS CanisterMaps

CONSTANTS
  Wallets,      \* lowercased evmAddress values
  Thresholds,   \* balances a gate may ask for; 0 is the free tier
  Epochs,       \* epochs a request may name
  ApprovalTTL,  \* APPROVAL_TTL_SECONDS, in clock ticks
  NoRow         \* no row for this key

ASSUME CacheConstants ==
  /\ Thresholds \subseteq Nat
  /\ Epochs \subseteq Nat
  /\ ApprovalTTL \in Nat \ {0}
  /\ NoRow \notin Nat

ApprovalKeys ==
  [token : Tokens, threshold : Thresholds, epoch : Epochs, wallet : Wallets]

ApprovalRows == [ApprovalKeys -> Nat \union {NoRow}]

EmptyApprovals == [k \in ApprovalKeys |-> NoRow]

(* Broken on purpose: the threshold is left out of the key. *)
KeyWithoutThreshold(q) ==
  [token |-> LowerHex[q.token], threshold |-> CHOOSE x \in Thresholds : TRUE,
   epoch |-> q.epoch, wallet |-> q.wallet]

(* The composite key.  Spellings of one token share a row.  The epoch is   *)
(* the one the request names, the epoch of the content, and not the epoch  *)
(* the canister is in.                                                     *)
ApprovalCacheKey(q) ==
  [token |-> LowerHex[q.token], threshold |-> q.threshold,
   epoch |-> q.epoch, wallet |-> q.wallet]

IsStale(rows, k, t) == rows[k] # NoRow /\ rows[k] + ApprovalTTL <= t

IsApprovedHolder(rows, k, t) == rows[k] # NoRow /\ ~ IsStale(rows, k, t)

(* The side effect of the lookup: a stale row is deleted when it is read.  *)
DropIfStale(rows, k, t) ==
  IF IsStale(rows, k, t) THEN [rows EXCEPT ![k] = NoRow] ELSE rows

RecordApproval(rows, k, t) == [rows EXCEPT ![k] = t]

(* Broken on purpose: the janitor is off by one tick and takes a live row. *)
ExpiredEarly(rows, t) ==
  {k \in ApprovalKeys : rows[k] # NoRow /\ rows[k] + ApprovalTTL <= t + 1}

ExpiredApprovals(rows, t) == {k \in ApprovalKeys : IsStale(rows, k, t)}

Without(rows, D) == [k \in ApprovalKeys |-> IF k \in D THEN NoRow ELSE rows[k]]

=============================================================================
