------------------------------ MODULE MerkleTree ------------------------------
(***************************************************************************)
(* The computation between the two awaits of batchAttestHolding            *)
(* (src/backend/main.mo): the canonical CID hashes are sorted, hashed into *)
(* the leaves of a heap padded to a power of two, combined bottom-up to    *)
(* the root, and each gets its audit path, in the order of submission.     *)
(*                                                                         *)
(* An action is one turn of a loop of the code.  Indices count from 0, as  *)
(* in the code.  The hash functions are parameters, and nothing is assumed *)
(* of them.  Of a leaf's preimage only the CID hash differs from one leaf  *)
(* to another, so HashLeaf is a function of it alone.                      *)
(***************************************************************************)
EXTENDS Integers, Sequences, FiniteSets

CONSTANTS
  Hashes,         \* canonical CID hashes, as numbers in the order of Text.compare
  MaxCids,        \* the hard limit of a call, 20 in the code
  HashLeaf(_),    \* hashLeaf(merkleLeafPreimage(..., cidHash, ...))
  HashNode(_, _), \* hashNode
  ZeroLeaf,       \* zeroLeafHash()
  Unset           \* the empty blob a node holds before it is computed

ASSUME TreeConstants == Hashes \subseteq Nat /\ MaxCids \in Nat \ {0}

VARIABLES
  count,     \* the number of CID hashes
  cids,      \* the canonical CID hashes, in submission order
  pc,        \* the loop that runs
  sorted,    \* the submission index at each place of the sorted order
  place,     \* submissionToSorted
  limit,     \* the number of leaves
  nodes,     \* the heap: root at 0, leaves from limit - 1
  i,         \* the loop variable of the padding
  p,         \* the heap index at hand
  leaf,      \* the submission index whose audit path is emitted
  path,      \* its path so far
  acc,       \* history: what a verifier has folded the path so far to
  proofs     \* the audit paths that are complete, in submission order

tree == <<nodes, i>>
walk == <<leaf, path, acc, proofs>>
vars == <<count, cids, pc, sorted, place, limit, tree, p, walk>>

Indices == 0 .. count - 1

Loops == {"sort", "limit", "pad", "combine", "walk", "done"}

(* The bijections from the places to the submission indices that put the   *)
(* hashes in ascending order.                                              *)
SortedOrders ==
  {s \in [Indices -> Indices] :
     /\ \A k, l \in Indices : s[k] = s[l] => k = l
     /\ \A x \in Indices : \E k \in Indices : s[k] = x
     /\ \A k, l \in Indices : k < l => cids[s[k]] <= cids[s[l]]}

TypeOK ==
  /\ count \in 1..MaxCids
  /\ cids \in [Indices -> Hashes]
  /\ pc \in Loops
  /\ sorted \in [Indices -> Indices]
  /\ place \in [Indices -> Indices]
  /\ limit \in Nat \ {0}
  /\ i \in 0..limit
  /\ p \in 0 .. 2 * limit - 2
  /\ leaf \in 0..count
  /\ DOMAIN nodes = 0 .. 2 * limit - 2

-----------------------------------------------------------------------------
Init ==
  /\ count \in 1..MaxCids
  /\ cids \in [Indices -> Hashes]
  /\ pc = "sort"
  /\ sorted = [k \in Indices |-> k]
  /\ place = [k \in Indices |-> 0]
  /\ limit = 1
  /\ nodes = [q \in 0..0 |-> Unset]
  /\ i = 0 /\ p = 0 /\ leaf = 0
  /\ path = <<>> /\ acc = Unset /\ proofs = <<>>

(* Broken on purpose: the sorted order is used the wrong way around. *)
NotInverted(s) == s

(* submissionToSorted[sorted[k]] = k, for each k. *)
PlaceOf(s) == [x \in Indices |-> CHOOSE k \in Indices : s[k] = x]

SortPairs ==
  /\ pc = "sort"
  /\ pc' = "limit"
  /\ \E s \in SortedOrders : sorted' = s /\ place' = PlaceOf(s)
  /\ UNCHANGED <<count, cids, limit, tree, p, walk>>

(* Broken on purpose: stops a power too early. *)
StopsEarly(l) == 2 * l < count

TooFewLeaves(l) == l < count

(* nextPowerOfTwo *)
DoubleLimit ==
  /\ pc = "limit"
  /\ TooFewLeaves(limit)
  /\ limit' = 2 * limit
  /\ nodes' = [q \in 0 .. 2 * limit' - 2 |-> Unset]
  /\ UNCHANGED <<count, cids, pc, sorted, place, i, p, walk>>

LimitFound ==
  /\ pc = "limit"
  /\ ~ TooFewLeaves(limit)
  /\ pc' = "pad"
  /\ UNCHANGED <<count, cids, sorted, place, limit, tree, p, walk>>

(* Broken on purpose: the last leaf is repeated instead of zeroLeafHash. *)
RepeatLast(k) ==
  HashLeaf(cids[sorted[IF k < count THEN k ELSE count - 1]])

LeafAt(k) == IF k < count THEN HashLeaf(cids[sorted[k]]) ELSE ZeroLeaf

(* The first loop of buildMerkleHeap: the leaves, and zeros after them. *)
PlaceLeaf ==
  /\ pc = "pad"
  /\ i < limit
  /\ nodes' = [nodes EXCEPT ![limit - 1 + i] = LeafAt(i)]
  /\ i' = i + 1
  /\ UNCHANGED <<count, cids, pc, sorted, place, limit, p, walk>>

(* merkleProofForLeaf starts at the leaf of submission index x. *)
StartWalk(x) ==
  /\ leaf' = x
  /\ p' = limit - 1 + place[x]
  /\ path' = <<>>
  /\ acc' = HashLeaf(cids[x])

(* With a single leaf there is nothing to combine. *)
LeavesPlaced ==
  /\ pc = "pad"
  /\ i = limit
  /\ \/ /\ limit > 1
        /\ pc' = "combine"
        /\ p' = limit - 2
        /\ UNCHANGED walk
     \/ /\ limit = 1
        /\ pc' = "walk"
        /\ StartWalk(0)
        /\ UNCHANGED proofs
  /\ UNCHANGED <<count, cids, sorted, place, limit, tree>>

(* Broken on purpose: the children of a heap that counts from 1. *)
FromOne(q) == <<2 * q, 2 * q + 1>>

Children(q) == <<2 * q + 1, 2 * q + 2>>

(* Broken on purpose: the loop is left a node too soon, or never. *)
IsNode1(q) == q = 1

IsRoot(q) == q = 0

(* The second loop of buildMerkleHeap, which leaves by way of p = 0 before *)
(* p, a Nat, is decremented; below 0 the decrement would trap.             *)
Combine ==
  /\ pc = "combine"
  /\ nodes' = [nodes EXCEPT ![p] = HashNode(nodes[Children(p)[1]], nodes[Children(p)[2]])]
  /\ \/ /\ ~ IsRoot(p)
        /\ p > 0
        /\ p' = p - 1
        /\ UNCHANGED <<pc, walk>>
     \/ /\ IsRoot(p)
        /\ pc' = "walk"
        /\ StartWalk(0)
        /\ UNCHANGED proofs
  /\ UNCHANGED <<count, cids, sorted, place, limit, i>>

Parent(q) == (q - 1) \div 2

(* Broken on purpose: the sides are swapped. *)
OtherSide(q) ==
  IF q % 2 = 1 THEN [at |-> q + 1, side |-> "left"] ELSE [at |-> q - 1, side |-> "right"]

(* The sibling of a left child is on the right, of a right one on the left. *)
Sibling(q) ==
  IF q % 2 = 1 THEN [at |-> q + 1, side |-> "right"] ELSE [at |-> q - 1, side |-> "left"]

(* What a verifier does with an entry of the path. *)
Fold(h, e) == IF e.side = "left" THEN HashNode(e.hash, h) ELSE HashNode(h, e.hash)

Entry == [side |-> Sibling(p).side, hash |-> nodes[Sibling(p).at]]

(* A turn of the loop of merkleProofForLeaf. *)
Climb ==
  /\ pc = "walk"
  /\ p > 0
  /\ path' = Append(path, Entry)
  /\ acc' = Fold(acc, Entry)
  /\ p' = Parent(p)
  /\ UNCHANGED <<count, cids, pc, sorted, place, limit, tree, leaf, proofs>>

(* The path is complete; the next submitted hash is taken up. *)
PathDone ==
  /\ pc = "walk"
  /\ p = 0
  /\ proofs' = Append(proofs, path)
  /\ \/ /\ leaf + 1 < count
        /\ StartWalk(leaf + 1)
        /\ UNCHANGED pc
     \/ /\ leaf + 1 = count
        /\ pc' = "done"
        /\ leaf' = count
        /\ UNCHANGED <<p, path, acc>>
  /\ UNCHANGED <<count, cids, sorted, place, limit, tree>>

Next ==
  \/ SortPairs
  \/ DoubleLimit
  \/ LimitFound
  \/ PlaceLeaf
  \/ LeavesPlaced
  \/ Combine
  \/ Climb
  \/ PathDone

Spec == Init /\ [][Next]_vars
FairSpec == Spec /\ WF_vars(Next)

-----------------------------------------------------------------------------
(* Properties. *)

(* The verifier that folds a path from its leaf is, at each step, at the   *)
(* node the walk has reached, and so at the root when the path ends        *)
(* (merkleProofForLeaf against buildMerkleHeap, through the index          *)
(* arithmetic of both and submissionToSorted).                             *)
WalkFollowsTree == pc = "walk" => acc = nodes[p]

(* No read traps, none finds a node that is not yet computed (the nodes    *)
(* start as empty blobs, and hashing one would go unnoticed), and the path *)
(* fits the 64 entries set aside for it.                                   *)
ReadsComputedNodes ==
  /\ pc = "combine" =>
       \A k \in 1..2 : /\ Children(p)[k] \in DOMAIN nodes
                       /\ Children(p)[k] \in p + 1 .. 2 * limit - 2
                       /\ nodes[Children(p)[k]] # Unset
  /\ pc = "walk" /\ p > 0 =>
       /\ Sibling(p).at \in DOMAIN nodes
       /\ nodes[Sibling(p).at] # Unset
       /\ Len(path) < 64

(* The k-th smallest submitted hash. *)
Smallest(k) ==
  CHOOSE h \in Hashes :
    /\ Cardinality({x \in Indices : cids[x] < h}) <= k
    /\ k < Cardinality({x \in Indices : cids[x] <= h})

(* Each factor but 1 is even. *)
PowerOfTwo(w) == \A d, m \in 1..w : d * m = w => d = 1 \/ d % 2 = 0

(* The width of the smallest perfect tree with a leaf for each hash, and   *)
(* those of its rows, from the root's 1 on.                                *)
Width ==
  CHOOSE w \in 1 .. 2 * count :
    /\ PowerOfTwo(w) /\ w >= count
    /\ \A v \in 1 .. w - 1 : PowerOfTwo(v) => v < count

Widths == {w \in 1..Width : PowerOfTwo(w)}

(* The rows of the padded tree over the ascending hashes.                  *)
Rows[w \in Widths] ==
  [k \in 0 .. w - 1 |->
     IF w < Width THEN HashNode(Rows[2 * w][2 * k], Rows[2 * w][2 * k + 1])
     ELSE IF k < count THEN HashLeaf(Smallest(k)) ELSE ZeroLeaf]

Height == Cardinality(Widths \ {Width})

(* The signed root is that of the smallest padded tree over the sorted     *)
(* hashes: it depends on which hashes were submitted and how often, not on *)
(* their order (nextPowerOfTwo, the sort, and buildMerkleHeap).            *)
RootOfSortedTree == pc \in {"walk", "done"} => nodes[0] = Rows[1][0]

FoldPath(h, s) ==
  LET f[k \in 0 .. Len(s)] == IF k = 0 THEN h ELSE Fold(f[k - 1], s[k])
  IN  f[Len(s)]

(* What the caller gets verifies: the path at each place of leaves folds   *)
(* the hash submitted at that place to the signed root, and has the length *)
(* of the tree's height (Step G of batchAttestHolding: "proofs in          *)
(* submission order").                                                     *)
ProofsVerify ==
  pc = "done" =>
    /\ Len(proofs) = count
    /\ \A x \in Indices :
         /\ FoldPath(HashLeaf(cids[x]), proofs[x + 1]) = nodes[0]
         /\ Len(proofs[x + 1]) = Height

(* The loops end, also the one that leaves only when p is exactly 0. *)
Terminates == <>(pc = "done")

=============================================================================
