---------------------------- MODULE MarketCapCache ----------------------------
(***************************************************************************)
(* The market-cap burst cache of protocol v4: the map marketCapCache, the  *)
(* helpers of main.mo that read and write it, and the arithmetic on a      *)
(* snapshot.  A decimals count d appears here only as the unit 10^d it     *)
(* stands for.                                                             *)
(***************************************************************************)
EXTENDS CanisterMaps

CONSTANTS
  CapTTL,     \* MARKET_CAP_CACHE_TTL_SECONDS, in clock ticks
  NoSnapshot  \* no row for this token

Snapshots == [capScaled : Nat, unit : Nat \ {0}, fetchedAt : Nat]

ASSUME CapConstants ==
  /\ CapTTL \in Nat
  /\ NoSnapshot \notin Snapshots
  /\ NoSnapshot \notin Nat

CapRows == [Tokens -> Snapshots \union {NoSnapshot}]

EmptyCaps == [k \in Tokens |-> NoSnapshot]

MarketCapCacheKey(tok) == LowerHex[tok]

(* A row serves up to and including the last second of its life. *)
IsFreshCap(row, t) == row # NoSnapshot /\ t - row.fetchedAt <= CapTTL

CachedMarketCap(rows, tok, t) ==
  IF IsFreshCap(rows[MarketCapCacheKey(tok)], t)
    THEN rows[MarketCapCacheKey(tok)] ELSE NoSnapshot

(* What the lookup leaves behind: an old row is deleted when it is read.   *)
AfterLookup(rows, tok, t) ==
  [rows EXCEPT ![MarketCapCacheKey(tok)] = CachedMarketCap(rows, tok, t)]

RecordMarketCap(rows, tok, cap, unit, t) ==
  [rows EXCEPT ![MarketCapCacheKey(tok)] =
     [capScaled |-> cap, unit |-> unit, fetchedAt |-> t]]

(* Broken on purpose: the janitor takes a row in the last second of its life. *)
ExpiredCapsEarly(rows, t) ==
  {k \in Tokens : rows[k] # NoSnapshot /\ t - rows[k].fetchedAt >= CapTTL}

ExpiredCaps(rows, t) ==
  {k \in Tokens : rows[k] # NoSnapshot /\ t - rows[k].fetchedAt > CapTTL}

CapsWithout(rows, D) == [k \in Tokens |-> IF k \in D THEN NoSnapshot ELSE rows[k]]

(* supply x marginal price, in the smallest unit of the reserve. *)
CapReserveWei(supply, price, tokenUnit) == (supply * price) \div tokenUnit

(* Broken on purpose: the target is not brought to the scale of the cap. *)
CapReachedUnscaled(row, target) == row.capScaled >= target

CapReached(row, target) == row.capScaled >= target * row.unit

(* The cap in whole reserve units, as answers and errors report it. *)
WholeUnits(row) == row.capScaled \div row.unit

=============================================================================
