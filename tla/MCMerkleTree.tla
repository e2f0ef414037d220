----------------------------- MODULE MCMerkleTree -----------------------------
(* Small instances of MerkleTree, with hash functions that never collide.  *)
EXTENDS MerkleTree

MCHashLeaf(h) == [kind |-> "leaf", cid |-> h]
MCHashNode(l, r) == [kind |-> "node", left |-> l, right |-> r]
MCZeroLeaf == [kind |-> "zero"]
MCUnset == [kind |-> "unset"]


=============================================================================
