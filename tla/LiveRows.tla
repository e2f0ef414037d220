---------------------------- MODULE LiveRows ----------------------------
(***************************************************************************)
(* What a cache with a time to live promises, with no map, no lazy         *)
(* deletion and no janitor: a row is alive from the instant it is recorded *)
(* until exactly TTL later, and nothing but the passage of time ends its   *)
(* life or prolongs it, except recording it again.  The approvals of       *)
(* GateV3 and the cap snapshots of GateV4 are both such rows.              *)
(***************************************************************************)
EXTENDS Integers

CONSTANTS Keys, TTL, NoRow

VARIABLES now, live

vars == <<now, live>>

Expired(k, t) == live[k] # NoRow /\ live[k] + TTL <= t

Init ==
  /\ now \in Nat
  /\ live = [k \in Keys |-> NoRow]

(* The row of k is recorded: a balance was sufficient, a cap was priced. *)
Record(k) ==
  /\ live' = [live EXCEPT ![k] = now]
  /\ UNCHANGED now

(* Time passes, and takes with it the rows whose time is over. *)
Advance ==
  /\ now' \in Nat
  /\ now' > now
  /\ live' = [k \in Keys |-> IF Expired(k, now') THEN NoRow ELSE live[k]]

Next == Advance \/ \E k \in Keys : Record(k)

Spec == Init /\ [][Next]_vars

=============================================================================
