--------------------------- MODULE MCEvictApprovals ---------------------------
(* Small instances of EvictApprovals: three rows, as many as can expire    *)
(* within a run.                                                           *)
EXTENDS EvictApprovals

CONSTANTS r1, r2, tok, w1, w2, w3

MCLowerHex == [t \in Tokens |-> t]
MCHolders == ApprovalKeys

=============================================================================
