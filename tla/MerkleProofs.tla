----------------------------- MODULE MerkleProofs -----------------------------
(***************************************************************************)
(* Theorems of MerkleTree, for every choice of the hash functions and      *)
(* every number of CID hashes: the indices stay inside the heap, no read   *)
(* finds an empty node, the root is that of the padded tree over the       *)
(* sorted hashes, and the audit path of each submitted hash leads to it.   *)
(***************************************************************************)
EXTENDS MerkleTree, FiniteSetTheorems, FunctionTheorems, TLAPS

(* Once the loop of nextPowerOfTwo is over there is a leaf for each hash.  *)
EnoughLeaves == pc \notin {"sort", "limit"} => count <= limit

(* place inverts sorted, so that the walk starts at the leaf of its hash.  *)
PlaceInverts == pc # "sort" => \A x \in Indices : sorted[place[x]] = x

LeavesUpTo(n) == \A k \in 0 .. n - 1 : nodes[limit - 1 + k] = LeafAt(k)

NodesAbove(q) ==
  \A r \in 0 .. limit - 2 :
    r > q => nodes[r] = HashNode(nodes[2 * r + 1], nodes[2 * r + 2])

(* The heap is filled from its far end: first the leaves, then the inner   *)
(* nodes from the last to the root.                                        *)
HeapFilled ==
  /\ nodes = [q \in 0 .. 2 * limit - 2 |-> nodes[q]]
  /\ pc \in {"sort", "limit"} => i = 0
  /\ pc = "pad" => LeavesUpTo(i)
  /\ pc \in {"combine", "walk", "done"} => LeavesUpTo(limit)
  /\ pc = "combine" => p <= limit - 2 /\ NodesAbove(p)
  /\ pc \in {"walk", "done"} => NodesAbove(-1)

WalkInRange == pc = "walk" => leaf < count

IndInv ==
  /\ TypeOK
  /\ EnoughLeaves
  /\ PlaceInverts
  /\ HeapFilled
  /\ WalkInRange
  /\ WalkFollowsTree

-----------------------------------------------------------------------------
(* Facts about the heap's indices. *)

LEMMA OddNode ==
  ASSUME NEW q \in Nat \ {0}, q % 2 = 1
  PROVE  Parent(q) \in Nat /\ q = 2 * Parent(q) + 1
BY SMT DEF Parent

LEMMA EvenNode ==
  ASSUME NEW q \in Nat \ {0}, q % 2 # 1
  PROVE  Parent(q) \in Nat /\ q = 2 * Parent(q) + 2 /\ q - 1 = 2 * Parent(q) + 1
BY SMT DEF Parent

(* A hash's leaf is inside the heap and holds its hash. *)
LEMMA OwnLeaf ==
  ASSUME TypeOK, EnoughLeaves, PlaceInverts, HeapFilled,
         pc \in {"combine", "walk"}, NEW x \in Indices
  PROVE  /\ limit - 1 + place[x] \in 0 .. 2 * limit - 2
         /\ limit - 1 + place[x] >= limit - 1
         /\ nodes[limit - 1 + place[x]] = HashLeaf(cids[x])
<1>1. place[x] \in Indices /\ place[x] \in 0 .. limit - 1 /\ place[x] < count
  <2>1. place[x] \in Indices
    BY DEF TypeOK
  <2>2. count \in Nat /\ limit \in Nat /\ count <= limit
    BY TreeConstants DEF TypeOK, EnoughLeaves
  <2> QED BY <2>1, <2>2 DEF Indices
<1>2. nodes[limit - 1 + place[x]] = LeafAt(place[x])
  BY <1>1 DEF HeapFilled, LeavesUpTo
<1>3. sorted[place[x]] = x
  BY DEF PlaceInverts
<1> QED BY <1>1, <1>2, <1>3 DEF LeafAt, TypeOK

(* A step of the walk folds the node at hand to its parent's. *)
LEMMA ClimbFolds ==
  ASSUME NEW q \in 1 .. 2 * limit - 2, limit \in Nat \ {0}, NodesAbove(-1), p = q
  PROVE  /\ Parent(q) \in 0 .. limit - 2
         /\ Fold(nodes[q], Entry) = nodes[Parent(q)]
<1>1. CASE q % 2 = 1
  <2>1. Parent(q) \in 0 .. limit - 2 /\ q = 2 * Parent(q) + 1
    BY <1>1, OddNode
  <2>2. nodes[Parent(q)] = HashNode(nodes[2 * Parent(q) + 1], nodes[2 * Parent(q) + 2])
    BY <2>1 DEF NodesAbove
  <2>3. Entry = [side |-> "right", hash |-> nodes[q + 1]]
    BY <1>1 DEF Entry, Sibling
  <2>4. q + 1 = 2 * Parent(q) + 2
    BY <2>1
  <2> QED BY <2>1, <2>2, <2>3, <2>4 DEF Fold
<1>2. CASE q % 2 # 1
  <2>1. /\ Parent(q) \in 0 .. limit - 2
        /\ q = 2 * Parent(q) + 2
        /\ q - 1 = 2 * Parent(q) + 1
    BY <1>2, EvenNode
  <2>2. nodes[Parent(q)] = HashNode(nodes[2 * Parent(q) + 1], nodes[2 * Parent(q) + 2])
    BY <2>1 DEF NodesAbove
  <2>3. Entry = [side |-> "left", hash |-> nodes[q - 1]]
    BY <1>2 DEF Entry, Sibling
  <2> QED BY <2>1, <2>2, <2>3 DEF Fold
<1> QED BY <1>1, <1>2

(* What is left to show of TypeOK' once the heap has its size. *)
LEMMA TypeKept ==
  ASSUME TypeOK, UNCHANGED <<count, cids, sorted, place, limit, i>>,
         pc' \in Loops, p' \in 0 .. 2 * limit - 2, leaf' \in 0 .. count,
         DOMAIN nodes' = DOMAIN nodes
  PROVE  TypeOK'
BY DEF TypeOK, Indices

-----------------------------------------------------------------------------
(* The invariant is inductive. *)

LEMMA InitInv == Init => IndInv
<1> SUFFICES ASSUME Init PROVE IndInv
  OBVIOUS
<1> count \in Nat /\ count >= 1
  BY TreeConstants DEF Init
<1>1. TypeOK
  BY TreeConstants DEF Init, TypeOK, Loops, Indices
<1> QED BY <1>1 DEF Init, IndInv, EnoughLeaves, PlaceInverts, HeapFilled, WalkInRange,
                    WalkFollowsTree

LEMMA SortPairsKeeps ==
  ASSUME IndInv, SortPairs
  PROVE  IndInv'
<1> USE DEF IndInv, SortPairs, tree, walk
<1>1. PICK s \in SortedOrders : sorted' = s /\ place' = PlaceOf(s)
  OBVIOUS
<1>2. s \in [Indices -> Indices] /\ \A x \in Indices : \E k \in Indices : s[k] = x
  BY DEF SortedOrders
<1>3. \A x \in Indices : PlaceOf(s)[x] \in Indices /\ s[PlaceOf(s)[x]] = x
  BY <1>2 DEF PlaceOf
<1>4. PlaceOf(s) \in [Indices -> Indices]
  BY <1>3 DEF PlaceOf
<1>5. TypeOK'
  BY <1>1, <1>2, <1>4 DEF TypeOK, Loops, Indices
<1>6. PlaceInverts'
  BY <1>1, <1>3 DEF PlaceInverts, Indices
<1> QED BY <1>5, <1>6 DEF EnoughLeaves, HeapFilled, WalkInRange, WalkFollowsTree

LEMMA DoubleLimitKeeps ==
  ASSUME IndInv, DoubleLimit
  PROVE  IndInv'
<1> USE DEF IndInv, DoubleLimit, walk
<1>1. limit' \in Nat \ {0} /\ limit' = 2 * limit
  BY DEF TypeOK
<1>2. TypeOK'
  BY <1>1 DEF TypeOK, Indices, HeapFilled, Loops
<1> QED BY <1>2 DEF EnoughLeaves, PlaceInverts, Indices, HeapFilled, WalkInRange, WalkFollowsTree

LEMMA LimitFoundKeeps ==
  ASSUME IndInv, LimitFound
  PROVE  IndInv'
<1> USE DEF IndInv, LimitFound, tree, walk
<1>1. count \in Nat /\ limit \in Nat /\ count <= limit
  BY TreeConstants DEF TypeOK, TooFewLeaves
<1>2. TypeOK'
  BY DEF TypeOK, Indices, Loops
<1> QED BY <1>1, <1>2 DEF EnoughLeaves, PlaceInverts, Indices, HeapFilled, WalkInRange,
           WalkFollowsTree, LeavesUpTo

LEMMA PlaceLeafKeeps ==
  ASSUME IndInv, PlaceLeaf
  PROVE  IndInv'
<1> USE DEF IndInv, PlaceLeaf, walk
<1>1. limit \in Nat \ {0} /\ i \in 0 .. limit - 1
  BY DEF TypeOK
<1>2. TypeOK'
  <2>1. i' \in 0 .. limit' /\ DOMAIN nodes' = 0 .. 2 * limit' - 2
    BY <1>1 DEF TypeOK
  <2> QED BY <2>1 DEF TypeOK, Indices
<1>3. nodes' = [q \in 0 .. 2 * limit' - 2 |-> nodes'[q]]
  BY DEF HeapFilled, TypeOK
<1>4. LeavesUpTo(i)'
  <2> SUFFICES ASSUME NEW k \in 0 .. i PROVE nodes'[limit - 1 + k] = LeafAt(k)
    BY <1>1 DEF LeavesUpTo, LeafAt
  <2>1. limit - 1 + k \in DOMAIN nodes /\ limit - 1 + i \in DOMAIN nodes
    BY <1>1 DEF TypeOK
  <2>2. CASE k = i
    BY <2>1, <2>2
  <2>3. CASE k # i
    <3>1. k \in 0 .. i - 1 /\ limit - 1 + k # limit - 1 + i
      BY <1>1, <2>3
    <3> QED BY <2>1, <3>1 DEF HeapFilled, LeavesUpTo
  <2> QED BY <2>2, <2>3
<1> QED BY <1>2, <1>3, <1>4 DEF EnoughLeaves, PlaceInverts, Indices, HeapFilled, WalkInRange,
           WalkFollowsTree

(* StartWalk leaves the walker at its own leaf. *)
LEMMA StartWalkFollows ==
  ASSUME TypeOK, EnoughLeaves, PlaceInverts, HeapFilled, pc \in {"combine", "walk"},
         NEW x \in Indices, StartWalk(x)
  PROVE  /\ p' \in 0 .. 2 * limit - 2
         /\ p' >= limit - 1
         /\ acc' = nodes[p']
         /\ leaf' = x
BY OwnLeaf DEF StartWalk

LEMMA LeavesPlacedKeeps ==
  ASSUME IndInv, LeavesPlaced
  PROVE  IndInv'
<1> USE DEF IndInv, LeavesPlaced, tree
<1>1. limit \in Nat \ {0} /\ count \in Nat \ {0} /\ count <= limit
  BY TreeConstants DEF TypeOK, EnoughLeaves
<1>2. LeavesUpTo(limit)
  BY DEF HeapFilled
<1>3. CASE limit > 1
  <2>1. p' = limit - 2 /\ pc' = "combine" /\ UNCHANGED walk
    BY <1>3, <1>1
  <2>2. TypeOK'
    <3>1. p' \in 0 .. 2 * limit - 2 /\ pc' \in Loops
      BY <1>1, <1>3, <2>1 DEF Loops
    <3>2. leaf' \in 0 .. count
      BY <2>1 DEF TypeOK, walk
    <3> QED BY <3>1, <3>2, TypeKept
  <2>3. HeapFilled'
    <3>1. LeavesUpTo(limit)'
      BY <1>2, <2>1 DEF LeavesUpTo, LeafAt
    <3>2. NodesAbove(p)' /\ p' <= limit' - 2
      BY <1>1, <2>1 DEF NodesAbove
    <3>3. nodes' = [q \in 0 .. 2 * limit' - 2 |-> nodes'[q]]
      BY <2>1 DEF HeapFilled
    <3> QED BY <2>1, <3>1, <3>2, <3>3 DEF HeapFilled
  <2> QED BY <1>1, <2>1, <2>2, <2>3
          DEF EnoughLeaves, PlaceInverts, Indices, WalkInRange, WalkFollowsTree
<1>4. CASE limit = 1
  <2>1. pc' = "walk" /\ StartWalk(0)
    BY <1>4, <1>1
  <2>2. count = 1 /\ Indices = {0}
    BY <1>1, <1>4 DEF Indices
  <2>3. place[0] = 0 /\ sorted[0] = 0
    BY <2>2 DEF TypeOK
  <2>4. p' = 0 /\ leaf' = 0 /\ acc' = HashLeaf(cids[0])
    BY <1>4, <2>1, <2>3 DEF StartWalk
  <2>5. nodes[0] = HashLeaf(cids[0])
    <3>1. nodes[limit - 1 + 0] = LeafAt(0)
      BY <1>1, <1>2 DEF LeavesUpTo
    <3> QED BY <1>1, <1>4, <2>3, <3>1 DEF LeafAt
  <2>6. TypeOK'
    BY <1>1, <1>4, <2>1, <2>4 DEF TypeOK, Indices, Loops
  <2>7. HeapFilled'
    BY <1>1, <1>2, <1>4, <2>1 DEF HeapFilled, LeavesUpTo, LeafAt, NodesAbove
  <2> QED BY <1>1, <2>1, <2>4, <2>5, <2>6, <2>7
          DEF EnoughLeaves, PlaceInverts, Indices, WalkInRange, WalkFollowsTree
<1> QED BY <1>1, <1>3, <1>4

LEMMA CombineKeeps ==
  ASSUME IndInv, Combine
  PROVE  IndInv'
<1> USE DEF IndInv, Combine, IsRoot
<1>1. /\ limit \in Nat \ {0} /\ count \in Nat \ {0} /\ count <= limit
      /\ p \in 0 .. limit - 2
  BY TreeConstants DEF TypeOK, EnoughLeaves, HeapFilled
<1>2. DOMAIN nodes = 0 .. 2 * limit - 2 /\ p \in DOMAIN nodes
  BY <1>1 DEF TypeOK
<1>3. nodes' = [nodes EXCEPT ![p] = HashNode(nodes[2 * p + 1], nodes[2 * p + 2])]
  BY DEF Children
<1>4. \A q \in DOMAIN nodes : q > p => nodes'[q] = nodes[q]
  BY <1>1, <1>2, <1>3
<1>5. LeavesUpTo(limit)'
  <2> SUFFICES ASSUME NEW k \in 0 .. limit - 1
               PROVE  nodes'[limit - 1 + k] = LeafAt(k)
    BY DEF LeavesUpTo, LeafAt
  <2>1. limit - 1 + k \in DOMAIN nodes /\ limit - 1 + k > p
    BY <1>1, <1>2
  <2>2. nodes[limit - 1 + k] = LeafAt(k)
    BY DEF HeapFilled, LeavesUpTo
  <2> QED BY <1>4, <2>1, <2>2
<1>6. \A r \in 0 .. limit - 2 :
        r >= p => nodes'[r] = HashNode(nodes'[2 * r + 1], nodes'[2 * r + 2])
  <2> SUFFICES ASSUME NEW r \in 0 .. limit - 2, r >= p
               PROVE  nodes'[r] = HashNode(nodes'[2 * r + 1], nodes'[2 * r + 2])
    OBVIOUS
  <2>1. /\ 2 * r + 1 \in DOMAIN nodes /\ 2 * r + 1 > p
        /\ 2 * r + 2 \in DOMAIN nodes /\ 2 * r + 2 > p
        /\ r \in DOMAIN nodes
    BY <1>1, <1>2
  <2>2. nodes'[2 * r + 1] = nodes[2 * r + 1] /\ nodes'[2 * r + 2] = nodes[2 * r + 2]
    BY <1>4, <2>1
  <2>3. CASE r = p
    BY <1>2, <1>3, <2>2, <2>3
  <2>4. CASE r # p
    <3>1. r > p
      BY <1>1, <2>4
    <3>2. nodes'[r] = nodes[r]
      BY <1>4, <2>1, <3>1
    <3>3. nodes[r] = HashNode(nodes[2 * r + 1], nodes[2 * r + 2])
      BY <3>1 DEF HeapFilled, NodesAbove
    <3> QED BY <2>2, <3>2, <3>3
  <2> QED BY <2>3, <2>4
<1>7. nodes' = [q \in 0 .. 2 * limit' - 2 |-> nodes'[q]]
  BY <1>2, <1>3
<1>8. DOMAIN nodes' = 0 .. 2 * limit' - 2
  BY <1>2, <1>3
<1>9. CASE p > 0 /\ p' = p - 1 /\ pc' = pc /\ UNCHANGED walk
  <2>1. TypeOK'
    <3>1. p' \in 0 .. 2 * limit - 2
      BY <1>1, <1>9
    <3>2. leaf' \in 0 .. count /\ pc' \in Loops
      BY <1>9 DEF TypeOK, walk
    <3> QED BY <1>2, <1>8, <3>1, <3>2, TypeKept
  <2>2. NodesAbove(p)'
    BY <1>1, <1>6, <1>9 DEF NodesAbove
  <2>3. HeapFilled'
    BY <1>1, <1>5, <1>7, <1>9, <2>2 DEF HeapFilled
  <2> QED BY <1>9, <2>1, <2>3
          DEF EnoughLeaves, PlaceInverts, Indices, WalkInRange, WalkFollowsTree
<1>10. CASE p = 0 /\ pc' = "walk" /\ StartWalk(0) /\ UNCHANGED proofs
  <2>1. 0 \in Indices
    BY <1>1 DEF Indices
  <2>2. /\ limit - 1 + place[0] \in 0 .. 2 * limit - 2
        /\ limit - 1 + place[0] >= limit - 1
        /\ nodes[limit - 1 + place[0]] = HashLeaf(cids[0])
    BY <2>1, OwnLeaf
  <2>3. nodes'[p'] = acc' /\ p' \in 0 .. 2 * limit - 2 /\ leaf' = 0
    BY <1>1, <1>2, <1>4, <1>10, <2>2 DEF StartWalk
  <2>4. TypeOK'
    <3>1. leaf' \in 0 .. count /\ pc' \in Loops
      BY <1>1, <1>10, <2>3 DEF Loops
    <3> QED BY <1>2, <1>8, <2>3, <3>1, TypeKept
  <2>5. NodesAbove(-1)'
    BY <1>1, <1>6, <1>10 DEF NodesAbove
  <2>6. HeapFilled'
    BY <1>5, <1>7, <1>10, <2>5 DEF HeapFilled
  <2> QED BY <1>1, <1>10, <2>3, <2>4, <2>6
          DEF EnoughLeaves, PlaceInverts, Indices, WalkInRange, WalkFollowsTree
<1> QED BY <1>9, <1>10

LEMMA ClimbKeeps ==
  ASSUME IndInv, Climb
  PROVE  IndInv'
<1> USE DEF IndInv, Climb, tree
<1>1. limit \in Nat \ {0} /\ p \in 1 .. 2 * limit - 2
  BY DEF TypeOK
<1>2. NodesAbove(-1) /\ acc = nodes[p]
  BY DEF HeapFilled, WalkFollowsTree
<1>3. Parent(p) \in 0 .. limit - 2 /\ Fold(nodes[p], Entry) = nodes[Parent(p)]
  BY <1>1, <1>2, ClimbFolds
<1>4. p' \in 0 .. 2 * limit - 2 /\ acc' = nodes'[p']
  BY <1>1, <1>2, <1>3
<1>5. TypeOK'
  BY <1>4 DEF TypeOK, Indices
<1>6. HeapFilled'
  BY DEF HeapFilled, LeavesUpTo, LeafAt, NodesAbove
<1> QED BY <1>4, <1>5, <1>6
        DEF EnoughLeaves, PlaceInverts, Indices, WalkInRange, WalkFollowsTree

LEMMA PathDoneKeeps ==
  ASSUME IndInv, PathDone
  PROVE  IndInv'
<1> USE DEF IndInv, PathDone, tree
<1>1. /\ limit \in Nat \ {0} /\ count \in Nat \ {0}
      /\ leaf \in 0 .. count - 1
  BY TreeConstants DEF TypeOK, WalkInRange
<1>2. HeapFilled'
  BY DEF HeapFilled, LeavesUpTo, LeafAt, NodesAbove
<1>3. CASE leaf + 1 < count /\ StartWalk(leaf + 1) /\ pc' = pc
  <2>1. leaf + 1 \in Indices
    BY <1>1, <1>3 DEF Indices
  <2>2. p' \in 0 .. 2 * limit - 2 /\ acc' = nodes[p'] /\ leaf' = leaf + 1
    BY <1>3, <2>1, StartWalkFollows
  <2>3. TypeOK'
    <3>1. leaf' \in 0 .. count /\ pc' \in Loops
      BY <1>1, <1>3, <2>2 DEF Loops
    <3> QED BY <2>2, <3>1, TypeKept
  <2> QED BY <1>1, <1>2, <1>3, <2>2, <2>3
          DEF EnoughLeaves, PlaceInverts, Indices, WalkInRange, WalkFollowsTree
<1>4. CASE leaf + 1 = count /\ pc' = "done" /\ leaf' = count /\ UNCHANGED <<p, path, acc>>
  <2>1. TypeOK'
    <3>1. leaf' \in 0 .. count /\ pc' \in Loops
      BY <1>1, <1>4 DEF Loops
    <3>2. p' \in 0 .. 2 * limit - 2
      BY <1>4 DEF TypeOK
    <3> QED BY <3>1, <3>2, TypeKept
  <2> QED BY <1>2, <1>4, <2>1
          DEF EnoughLeaves, PlaceInverts, Indices, WalkInRange, WalkFollowsTree
<1> QED BY <1>3, <1>4

LEMMA StutterKeeps ==
  ASSUME IndInv, UNCHANGED vars
  PROVE  IndInv'
BY DEF IndInv, vars, tree, walk, TypeOK, Indices, EnoughLeaves, PlaceInverts, HeapFilled,
       LeavesUpTo, LeafAt, NodesAbove, WalkInRange, WalkFollowsTree

(* Every step of the assembly keeps the invariant. *)
THEOREM TreeInvariant == Spec => []IndInv
<1>1. Init => IndInv
  BY InitInv
<1>2. IndInv /\ [Next]_vars => IndInv'
  BY SortPairsKeeps, DoubleLimitKeeps, LimitFoundKeeps, PlaceLeafKeeps, LeavesPlacedKeeps,
     CombineKeeps, ClimbKeeps, PathDoneKeeps, StutterKeeps
     DEF Next
<1> QED BY <1>1, <1>2, PTL DEF Spec

(* Every index the assembly computes is inside the arrays (the loops of    *)
(* nextPowerOfTwo, buildMerkleHeap and merkleProofForLeaf).                *)
THEOREM TreeTyped == Spec => []TypeOK
<1>1. IndInv => TypeOK
  BY DEF IndInv
<1> QED BY <1>1, TreeInvariant, PTL

(* Whatever the hash functions are, a verifier that folds an audit path    *)
(* from its leaf is at every step at the node the walk has reached; a walk *)
(* ends at node 0, the signed root.                                        *)
THEOREM PathsLeadToRoot == Spec => []WalkFollowsTree
<1>1. IndInv => WalkFollowsTree
  BY DEF IndInv
<1> QED BY <1>1, TreeInvariant, PTL

-----------------------------------------------------------------------------
(* What the reads find. *)

(* SHA-256 gives 32 bytes, never the empty blob.                           *)
HashesFilled ==
  /\ ZeroLeaf # Unset
  /\ \A h \in Hashes : HashLeaf(h) # Unset
  /\ \A a, b : HashNode(a, b) # Unset

(* The limits nextPowerOfTwo can reach from 1 with at most 32 hashes.      *)
Limits == {1, 2, 4, 8, 16, 32}

(* Every turn of the walk moves the index down, so the path is never       *)
(* longer than the way the index has come.                                 *)
PathFits ==
  pc = "walk" =>
    /\ path \in Seq({path[k] : k \in 1 .. Len(path)})
    /\ Len(path) <= 2 * limit - 2 - p

ReadInv == limit \in Limits /\ PathFits

(* What a place of the heap holds once its loop has passed it.             *)
LEMMA LeavesFilled ==
  ASSUME HashesFilled, IndInv, pc \in {"combine", "walk"},
         NEW q \in limit - 1 .. 2 * limit - 2
  PROVE  nodes[q] # Unset
<1>1. limit \in Nat \ {0} /\ count \in Nat \ {0}
  BY TreeConstants DEF IndInv, TypeOK
<1> DEFINE k == q - (limit - 1)
<1>2. k \in 0 .. limit - 1 /\ limit - 1 + k = q
  BY <1>1
<1>3. nodes[limit - 1 + k] = LeafAt(k)
  BY <1>2 DEF IndInv, HeapFilled, LeavesUpTo
<1>4. LeafAt(k) # Unset
  <2>1. CASE k < count
    <3>1. k \in Indices
      BY <1>1, <1>2, <2>1 DEF Indices
    <3>2. cids[sorted[k]] \in Hashes
      BY <3>1 DEF IndInv, TypeOK
    <3> QED BY <2>1, <3>2 DEF LeafAt, HashesFilled
  <2>2. CASE ~ (k < count)
    BY <2>2 DEF LeafAt, HashesFilled
  <2> QED BY <2>1, <2>2
<1> QED BY <1>2, <1>3, <1>4

LEMMA CombinedFilled ==
  ASSUME HashesFilled, NEW b, NodesAbove(b), NEW q \in 0 .. limit - 2, q > b
  PROVE  nodes[q] # Unset
BY DEF NodesAbove, HashesFilled

(* A sequence is one over its own elements.                                *)
LEMMA OwnElements ==
  ASSUME NEW T, NEW s \in Seq(T)
  PROVE  s \in Seq({s[k] : k \in 1 .. Len(s)})
OBVIOUS

LEMMA ParentIsLess ==
  ASSUME NEW q \in Nat \ {0}
  PROVE  Parent(q) \in Nat /\ Parent(q) <= q - 1
BY SMT DEF Parent

LEMMA ReadInitially == Init => ReadInv
BY DEF Init, ReadInv, Limits, PathFits

(* The walk of a hash starts with an empty path inside the heap.           *)
LEMMA StartFits ==
  ASSUME NEW x, StartWalk(x), limit' \in Nat, p' \in 0 .. 2 * limit' - 2
  PROVE  PathFits'
<1>1. path' = <<>> /\ Len(path') = 0 /\ path' \in Seq({})
  BY DEF StartWalk
<1>2. path' \in Seq({path'[k] : k \in 1 .. Len(path')})
  BY <1>1
<1>3. ASSUME NEW l \in Nat, NEW q \in 0 .. 2 * l - 2
      PROVE  0 <= 2 * l - 2 - q
  OBVIOUS
<1>4. Len(path') <= 2 * limit' - 2 - p'
  BY <1>1, <1>3
<1> QED BY <1>2, <1>4 DEF PathFits

LEMMA AtMost32 ==
  ASSUME NEW m \in Nat, m <= 32, NEW c \in 1 .. m
  PROVE  c \in Nat /\ c <= 32
BY SMT

LEMMA ReadKept ==
  ASSUME MaxCids <= 32, IndInv, IndInv', ReadInv, [Next]_vars
  PROVE  ReadInv'
<1>1. count \in Nat /\ count <= 32 /\ limit' \in Nat /\ p' \in 0 .. 2 * limit' - 2
  <2>1. count \in 1 .. MaxCids /\ MaxCids \in Nat
    BY TreeConstants DEF IndInv, TypeOK
  <2>2. limit' \in Nat \ {0} /\ p' \in 0 .. 2 * limit' - 2
    BY DEF IndInv, TypeOK
  <2>3. count \in Nat /\ count <= 32
    BY <2>1, AtMost32
  <2> QED BY <2>2, <2>3
<1>2. CASE SortPairs
  BY <1>2 DEF SortPairs, ReadInv, PathFits, Limits
<1>3. CASE DoubleLimit
  BY <1>1, <1>3 DEF DoubleLimit, TooFewLeaves, ReadInv, PathFits, Limits
<1>4. CASE LimitFound
  BY <1>4 DEF LimitFound, ReadInv, PathFits, Limits
<1>5. CASE PlaceLeaf
  BY <1>5 DEF PlaceLeaf, ReadInv, PathFits, Limits
<1>6. CASE LeavesPlaced
  <2>1. limit' = limit
    BY <1>6 DEF LeavesPlaced
  <2>2. pc' = "combine" \/ StartWalk(0)
    BY <1>6 DEF LeavesPlaced
  <2>3. PathFits'
    BY <1>1, <2>2, StartFits DEF PathFits
  <2> QED BY <2>1, <2>3 DEF ReadInv
<1>7. CASE Combine
  <2>1. limit' = limit
    BY <1>7 DEF Combine
  <2>2. pc' = "combine" \/ StartWalk(0)
    BY <1>7 DEF Combine
  <2>3. PathFits'
    BY <1>1, <2>2, StartFits DEF PathFits
  <2> QED BY <2>1, <2>3 DEF ReadInv
<1>8. CASE Climb
  <2>1. /\ pc = "walk" /\ p \in Nat \ {0} /\ limit \in Nat
        /\ p' = Parent(p) /\ limit' = limit
        /\ path' = Append(path, Entry)
    BY <1>8 DEF Climb, IndInv, TypeOK
  <2>2. Parent(p) \in Nat /\ Parent(p) <= p - 1
    BY <2>1, ParentIsLess
  <2> DEFINE T == {path[k] : k \in 1 .. Len(path)} \cup {Entry}
  <2>3. path \in Seq(T) /\ Len(path) \in Nat /\ Len(path) <= 2 * limit - 2 - p
    BY <2>1 DEF ReadInv, PathFits
  <2>4. path' \in Seq(T) /\ Len(path') = Len(path) + 1
    BY <2>1, <2>3
  <2>5. path' \in Seq({path'[k] : k \in 1 .. Len(path')})
    BY <2>4, OwnElements
  <2>6. Len(path') <= 2 * limit' - 2 - p'
    BY <2>1, <2>2, <2>3, <2>4
  <2> QED BY <2>1, <2>5, <2>6 DEF ReadInv, PathFits
<1>9. CASE PathDone
  <2>1. limit' = limit
    BY <1>9 DEF PathDone
  <2>2. pc' = "done" \/ StartWalk(leaf + 1)
    BY <1>9 DEF PathDone
  <2>3. PathFits'
    BY <1>1, <2>2, StartFits DEF PathFits
  <2> QED BY <2>1, <2>3 DEF ReadInv
<1>10. CASE UNCHANGED vars
  BY <1>10 DEF vars, tree, walk, ReadInv, PathFits
<1> QED BY <1>2, <1>3, <1>4, <1>5, <1>6, <1>7, <1>8, <1>9, <1>10 DEF Next

(* The reads of a turn of the loops, from the two invariants.              *)
LEMMA CombineReads ==
  ASSUME HashesFilled, IndInv, pc = "combine", NEW k \in 1..2
  PROVE  /\ Children(p)[k] \in DOMAIN nodes
         /\ Children(p)[k] \in p + 1 .. 2 * limit - 2
         /\ nodes[Children(p)[k]] # Unset
<1>1. /\ limit \in Nat \ {0} /\ p \in 0 .. limit - 2 /\ NodesAbove(p)
      /\ DOMAIN nodes = 0 .. 2 * limit - 2
  BY DEF IndInv, TypeOK, HeapFilled
<1> DEFINE q == Children(p)[k]
<1>2. q \in p + 1 .. 2 * limit - 2 /\ q \in 0 .. 2 * limit - 2
  BY <1>1 DEF Children
<1>3. CASE q >= limit - 1
  <2>1. q \in limit - 1 .. 2 * limit - 2
    BY <1>1, <1>2, <1>3
  <2>2. nodes[q] # Unset
    BY <2>1, LeavesFilled
  <2> QED BY <1>1, <1>2, <2>2
<1>4. CASE ~ (q >= limit - 1)
  <2>1. q \in 0 .. limit - 2 /\ q > p
    BY <1>1, <1>2, <1>4
  <2>2. nodes[q] # Unset
    BY <1>1, <2>1, CombinedFilled
  <2> QED BY <1>1, <1>2, <2>2
<1> QED BY <1>3, <1>4

LEMMA WalkReads ==
  ASSUME HashesFilled, IndInv, ReadInv, pc = "walk", p > 0
  PROVE  /\ Sibling(p).at \in DOMAIN nodes
         /\ nodes[Sibling(p).at] # Unset
         /\ Len(path) < 64
<1>1. /\ limit \in Nat \ {0} /\ p \in 1 .. 2 * limit - 2 /\ NodesAbove(-1)
      /\ DOMAIN nodes = 0 .. 2 * limit - 2
  BY DEF IndInv, TypeOK, HeapFilled
<1> DEFINE q == Sibling(p).at
<1>2. q \in 0 .. 2 * limit - 2
  <2>1. CASE p % 2 = 1
    <3>1. q = p + 1
      BY <2>1 DEF Sibling
    <3>2. p # 2 * limit - 2
      BY <1>1, <2>1, OddNode
    <3> QED BY <1>1, <3>1, <3>2
  <2>2. CASE p % 2 # 1
    <3>1. q = p - 1
      BY <2>2 DEF Sibling
    <3> QED BY <1>1, <3>1
  <2> QED BY <2>1, <2>2
<1>3. ASSUME q >= limit - 1 PROVE nodes[q] # Unset
  <2>1. q \in limit - 1 .. 2 * limit - 2
    BY <1>1, <1>2, <1>3
  <2>2. nodes[q] # Unset
    BY <2>1, LeavesFilled
  <2> QED BY <2>2
<1>4. ASSUME ~ (q >= limit - 1) PROVE nodes[q] # Unset
  <2>1. q \in 0 .. limit - 2 /\ q > -1
    BY <1>1, <1>2, <1>4
  <2>2. nodes[q] # Unset
    BY <1>1, <2>1, CombinedFilled
  <2> QED BY <2>2
<1>5. nodes[q] # Unset
  BY <1>3, <1>4
<1>6. path \in Seq({path[k] : k \in 1 .. Len(path)}) /\ Len(path) <= 2 * limit - 2 - p
      /\ limit <= 32
  BY DEF ReadInv, PathFits, Limits
<1>7. Len(path) \in Nat
  BY <1>6
<1> QED BY <1>1, <1>2, <1>5, <1>6, <1>7

(* No read of the two loops traps or finds a node that is not yet          *)
(* computed, and no path overruns the 64 entries set aside for it, as long *)
(* as the limit of a call is at most 32 (it is 20) and the hash is never   *)
(* the empty blob (buildMerkleHeap, merkleProofForLeaf).                   *)
THEOREM ReadsSafety ==
  ASSUME HashesFilled, MaxCids <= 32
  PROVE  Spec => []ReadsComputedNodes
<1>1. Init => ReadInv
  BY ReadInitially
<1>2. IndInv /\ IndInv' /\ ReadInv /\ [Next]_vars => ReadInv'
  BY ReadKept
<1>3. IndInv /\ ReadInv => ReadsComputedNodes
  BY CombineReads, WalkReads DEF ReadsComputedNodes
<1> QED BY <1>1, <1>2, <1>3, TreeInvariant, PTL DEF Spec

-----------------------------------------------------------------------------
(* The paths handed out.  FoldPath is defined by recursion over the path,  *)
(* and induction over data is out of reach here.  But the walk makes the   *)
(* path one entry at a time, so that the function FoldPath chooses exists, *)
(* and ends in acc, is an invariant of the steps.                          *)

IsFold(f, h, s) == f = [k \in 0 .. Len(s) |-> IF k = 0 THEN h ELSE Fold(f[k - 1], s[k])]

(* The fold of s from h is defined, and is a.                              *)
FoldsTo(h, s, a) ==
  /\ \E f : IsFold(f, h, s)
  /\ \A f : IsFold(f, h, s) => f[Len(s)] = a

LEMMA FoldsToIsFoldPath ==
  ASSUME NEW h, NEW s, NEW a, FoldsTo(h, s, a)
  PROVE  FoldPath(h, s) = a
<1> DEFINE g == CHOOSE f : IsFold(f, h, s)
<1>1. IsFold(g, h, s)
  BY DEF FoldsTo
<1>2. g[Len(s)] = a
  BY <1>1 DEF FoldsTo
<1>3. FoldPath(h, s) = g[Len(s)]
  BY DEF FoldPath, IsFold
<1> QED BY <1>2, <1>3

LEMMA EmptyFolds ==
  ASSUME NEW h
  PROVE  FoldsTo(h, <<>>, h)
<1>1. IsFold([k \in 0 .. 0 |-> h], h, <<>>)
  BY DEF IsFold
<1>2. ASSUME NEW f, IsFold(f, h, <<>>)
      PROVE  f[Len(<<>>)] = h
  BY <1>2 DEF IsFold
<1> QED BY <1>1, <1>2 DEF FoldsTo

LEMMA AppendFolds ==
  ASSUME NEW T, NEW s \in Seq(T), NEW e \in T, NEW h, NEW a, FoldsTo(h, s, a)
  PROVE  FoldsTo(h, Append(s, e), Fold(a, e))
<1> DEFINE t == Append(s, e)
<1>1. /\ Len(s) \in Nat /\ Len(t) = Len(s) + 1 /\ t[Len(s) + 1] = e
      /\ \A k \in 1 .. Len(s) : t[k] = s[k]
  OBVIOUS
<1> HIDE DEF t
<1>2. \E f : IsFold(f, h, t)
  <2>1. PICK f : IsFold(f, h, s)
    BY DEF FoldsTo
  <2>2. f[Len(s)] = a
    BY <2>1 DEF FoldsTo
  <2> DEFINE g == [k \in 0 .. Len(t) |-> IF k = Len(t) THEN Fold(a, e) ELSE f[k]]
  <2>3. ASSUME NEW k \in 0 .. Len(t)
        PROVE  g[k] = IF k = 0 THEN h ELSE Fold(g[k - 1], t[k])
    <3>1. CASE k = 0
      <4>1. 0 \in 0 .. Len(s) /\ f[0] = h
        BY <1>1, <2>1 DEF IsFold
      <4> QED BY <1>1, <3>1, <4>1
    <3>2. CASE k \in 1 .. Len(s)
      <4>1. f[k] = Fold(f[k - 1], s[k])
        BY <1>1, <2>1, <3>2 DEF IsFold
      <4>2. g[k] = f[k] /\ g[k - 1] = f[k - 1] /\ t[k] = s[k]
        BY <1>1, <3>2
      <4> QED BY <3>2, <4>1, <4>2
    <3>3. CASE k = Len(s) + 1
      <4>1. g[k] = Fold(a, e) /\ g[k - 1] = f[Len(s)] /\ t[k] = e
        BY <1>1, <3>3
      <4> QED BY <1>1, <2>2, <3>3, <4>1
    <3> QED BY <1>1, <3>1, <3>2, <3>3
  <2>4. IsFold(g, h, t)
    BY <2>3 DEF IsFold
  <2> QED BY <2>4
<1>3. ASSUME NEW g, IsFold(g, h, t)
      PROVE  g[Len(t)] = Fold(a, e)
  <2>1. \A k \in 0 .. Len(t) : g[k] = IF k = 0 THEN h ELSE Fold(g[k - 1], t[k])
    BY <1>3 DEF IsFold
  <2> DEFINE f == [k \in 0 .. Len(s) |-> g[k]]
  <2>2. ASSUME NEW k \in 0 .. Len(s)
        PROVE  f[k] = IF k = 0 THEN h ELSE Fold(f[k - 1], s[k])
    <3>1. CASE k = 0
      BY <1>1, <2>1, <3>1
    <3>2. CASE k # 0
      <4>1. k \in 1 .. Len(s) /\ k - 1 \in 0 .. Len(s) /\ k \in 0 .. Len(t)
        BY <1>1, <3>2
      <4>2. g[k] = Fold(g[k - 1], s[k])
        BY <1>1, <2>1, <3>2, <4>1
      <4> QED BY <3>2, <4>1, <4>2
    <3> QED BY <3>1, <3>2
  <2>3. IsFold(f, h, s)
    BY <2>2 DEF IsFold
  <2>4. g[Len(s)] = a
    BY <1>1, <2>3 DEF FoldsTo
  <2>5. Len(s) + 1 \in 0 .. Len(t) /\ Len(s) + 1 # 0 /\ Len(s) + 1 - 1 = Len(s)
    BY <1>1
  <2>6. g[Len(s) + 1] = Fold(g[Len(s)], t[Len(s) + 1])
    BY <2>1, <2>5
  <2> QED BY <1>1, <2>4, <2>6
<1>4. FoldsTo(h, t, Fold(a, e))
  BY <1>2, <1>3 DEF FoldsTo
<1> QED BY <1>4 DEF t

IsSeq(s) == s \in Seq({s[k] : k \in 1 .. Len(s)})

LEMMA AppendIsSeq ==
  ASSUME NEW s, NEW e, IsSeq(s)
  PROVE  /\ IsSeq(Append(s, e))
         /\ Len(s) \in Nat /\ Len(Append(s, e)) = Len(s) + 1
         /\ Append(s, e)[Len(s) + 1] = e
         /\ \A k \in 1 .. Len(s) : Append(s, e)[k] = s[k]
         /\ \A h, a : FoldsTo(h, s, a) => FoldsTo(h, Append(s, e), Fold(a, e))
<1> DEFINE T == {s[k] : k \in 1 .. Len(s)} \cup {e}
<1>1. s \in Seq({s[k] : k \in 1 .. Len(s)}) /\ e \in T
  BY DEF IsSeq
<1>2. s \in Seq(T)
  BY <1>1
<1> HIDE DEF T
<1>3. Append(s, e) \in Seq(T)
  BY <1>1, <1>2
<1>4. IsSeq(Append(s, e))
  BY <1>3, OwnElements DEF IsSeq
<1>5. ASSUME NEW h, NEW a, FoldsTo(h, s, a)
      PROVE  FoldsTo(h, Append(s, e), Fold(a, e))
  BY <1>1, <1>2, <1>5, AppendFolds
<1> QED BY <1>1, <1>2, <1>4, <1>5

(* What the walks have emitted, and what the walk at hand has folded.      *)
Emitted ==
  /\ IsSeq(proofs) /\ Len(proofs) = leaf
  /\ \A x \in 0 .. leaf - 1 : FoldsTo(HashLeaf(cids[x]), proofs[x + 1], nodes[0])

Folded == IsSeq(path) /\ FoldsTo(HashLeaf(cids[leaf]), path, acc)

FoldInv ==
  /\ pc \notin {"walk", "done"} => proofs = <<>>
  /\ pc \in {"walk", "done"} => Emitted
  /\ pc = "walk" => Folded
  /\ pc = "done" => leaf = count

(* The walk of the hash at x has folded nothing yet.                       *)
LEMMA StartFolded ==
  ASSUME NEW x, StartWalk(x), UNCHANGED cids
  PROVE  Folded'
<1>1. path' = <<>> /\ leaf' = x /\ acc' = HashLeaf(cids[x])
  BY DEF StartWalk
<1>2. IsSeq(<<>>)
  BY DEF IsSeq
<1>3. FoldsTo(HashLeaf(cids[x]), <<>>, HashLeaf(cids[x]))
  BY EmptyFolds
<1>4. HashLeaf(cids'[x]) = HashLeaf(cids[x])
  OBVIOUS
<1> QED BY <1>1, <1>2, <1>3, <1>4 DEF Folded

(* The first walk starts with nothing emitted.                             *)
LEMMA FirstWalk ==
  ASSUME FoldInv, pc \notin {"walk", "done"}, StartWalk(0), pc' = "walk",
         UNCHANGED <<cids, proofs>>
  PROVE  FoldInv'
<1>1. proofs' = <<>> /\ leaf' = 0
  BY DEF FoldInv, StartWalk
<1>2. IsSeq(<<>>) /\ Len(<<>>) = 0
  BY DEF IsSeq
<1>3. Emitted'
  BY <1>1, <1>2 DEF Emitted
<1>4. Folded'
  BY StartFolded
<1> QED BY <1>3, <1>4 DEF FoldInv

LEMMA FoldKept ==
  ASSUME IndInv, FoldInv, [Next]_vars
  PROVE  FoldInv'
<1>1. CASE SortPairs
  BY <1>1 DEF SortPairs, FoldInv, walk
<1>2. CASE DoubleLimit
  BY <1>2 DEF DoubleLimit, FoldInv, walk
<1>3. CASE LimitFound
  BY <1>3 DEF LimitFound, FoldInv, walk
<1>4. CASE PlaceLeaf
  BY <1>4 DEF PlaceLeaf, FoldInv, walk
<1>5. CASE LeavesPlaced
  <2>1. CASE pc' = "combine"
    BY <1>5, <2>1 DEF LeavesPlaced, FoldInv, StartWalk, walk
  <2>2. CASE pc' = "walk"
    BY <1>5, <2>2, FirstWalk DEF LeavesPlaced
  <2> QED BY <1>5, <2>1, <2>2 DEF LeavesPlaced
<1>6. CASE Combine
  <2>1. CASE IsRoot(p)
    BY <1>6, <2>1, FirstWalk DEF Combine
  <2>2. CASE ~ IsRoot(p)
    BY <1>6, <2>2 DEF Combine, FoldInv, walk
  <2> QED BY <2>1, <2>2
<1>7. CASE Climb
  <2>1. /\ pc = "walk" /\ pc' = "walk" /\ Emitted /\ Folded
        /\ path' = Append(path, Entry) /\ acc' = Fold(acc, Entry)
        /\ UNCHANGED <<cids, leaf, proofs, nodes>>
    BY <1>7 DEF Climb, FoldInv, tree
  <2>2. IsSeq(path) /\ FoldsTo(HashLeaf(cids[leaf]), path, acc)
    BY <2>1 DEF Folded
  <2>3. IsSeq(path') /\ FoldsTo(HashLeaf(cids[leaf]), path', acc')
    BY <2>1, <2>2, AppendIsSeq
  <2>4. Folded'
    BY <2>1, <2>3 DEF Folded
  <2>5. Emitted'
    BY <2>1 DEF Emitted
  <2> QED BY <2>1, <2>4, <2>5 DEF FoldInv
<1>8. CASE PathDone
  <2>1. /\ pc = "walk" /\ p = 0 /\ Emitted /\ Folded /\ leaf \in Nat
        /\ proofs' = Append(proofs, path)
        /\ UNCHANGED <<cids, nodes>>
        /\ leaf' = leaf + 1 /\ pc' \in {"walk", "done"}
        /\ pc' = "walk" => StartWalk(leaf + 1)
        /\ pc' = "done" => leaf' = count'
    BY <1>8 DEF PathDone, FoldInv, IndInv, TypeOK, tree, StartWalk
  <2>2. acc = nodes[0]
    BY <2>1 DEF IndInv, WalkFollowsTree
  <2>3. FoldsTo(HashLeaf(cids[leaf]), path, nodes[0])
    BY <2>1, <2>2 DEF Folded
  <2>4. IsSeq(proofs) /\ Len(proofs) = leaf
    BY <2>1 DEF Emitted
  <2>5. /\ IsSeq(proofs') /\ Len(proofs') = leaf + 1 /\ proofs'[leaf + 1] = path
        /\ \A k \in 1 .. leaf : proofs'[k] = proofs[k]
    BY <2>1, <2>4, AppendIsSeq
  <2>6. ASSUME NEW x \in 0 .. leaf
        PROVE  FoldsTo(HashLeaf(cids[x]), proofs'[x + 1], nodes[0])
    <3>1. CASE x = leaf
      BY <2>3, <2>5, <3>1
    <3>2. CASE x \in 0 .. leaf - 1
      <4>1. proofs'[x + 1] = proofs[x + 1]
        BY <2>1, <2>5, <3>2
      <4> QED BY <2>1, <3>2, <4>1 DEF Emitted
    <3>3. x = leaf \/ x \in 0 .. leaf - 1
      BY <2>1
    <3> QED BY <3>1, <3>2, <3>3
  <2>7. Emitted'
    BY <2>1, <2>5, <2>6 DEF Emitted
  <2>8. pc' = "walk" => Folded'
    BY <2>1, StartFolded
  <2> QED BY <2>1, <2>7, <2>8 DEF FoldInv
<1>9. CASE UNCHANGED vars
  BY <1>9 DEF vars, tree, walk, FoldInv, Emitted, Folded
<1> QED BY <1>1, <1>2, <1>3, <1>4, <1>5, <1>6, <1>7, <1>8, <1>9 DEF Next

-----------------------------------------------------------------------------
(* The width of the tree. *)

LEMMA PowerOne == PowerOfTwo(1)
BY DEF PowerOfTwo

(* A factor of an even number is even, or is one of its half.              *)
LEMMA OddFactor ==
  ASSUME NEW d \in Nat \ {0}, NEW m \in Nat \ {0}, NEW w \in Nat \ {0},
         d * m = 2 * w, d % 2 # 0
  PROVE  m \div 2 \in Nat \ {0} /\ d * (m \div 2) = w
<1>1. PICK e \in Nat : d = 2 * e + 1
  <2>1. d = 2 * (d \div 2) + 1 /\ d \div 2 \in Nat
    BY SMT
  <2> QED BY <2>1
<1>2. CASE m % 2 = 0
  <2> DEFINE n == m \div 2
  <2>1. m = 2 * n /\ n \in Nat \ {0}
    BY <1>2, SMT
  <2> HIDE DEF n
  <2>2. d * (2 * n) = 2 * (d * n)
    BY <2>1, SMT
  <2>3. d * n \in Nat
    BY <2>1, SMT
  <2>4. d * n = w
    BY <2>1, <2>2, <2>3
  <2> QED BY <2>1, <2>4 DEF n
<1>3. CASE m % 2 # 0
  <2>1. PICK n \in Nat : m = 2 * n + 1
    <3>1. m = 2 * (m \div 2) + 1 /\ m \div 2 \in Nat
      BY <1>3, SMT
    <3> QED BY <3>1
  <2>2. (2 * e + 1) * (2 * n + 1) = 2 * (2 * (e * n) + e + n) + 1
    BY SMT
  <2>3. e * n \in Nat
    BY SMT
  <2> DEFINE r == 2 * (e * n) + e + n
  <2>4. r \in Nat /\ 2 * w = 2 * r + 1
    BY <1>1, <2>1, <2>2, <2>3
  <2> QED BY <2>4, SMT
<1> QED BY <1>2, <1>3

LEMMA FactorIsLess ==
  ASSUME NEW d \in Nat \ {0}, NEW m \in Nat \ {0}
  PROVE  d <= d * m /\ m <= d * m /\ d * m \in Nat \ {0}
BY SMT

LEMMA PowerDoubles ==
  ASSUME NEW w \in Nat \ {0}, PowerOfTwo(w)
  PROVE  PowerOfTwo(2 * w)
<1>1. ASSUME NEW d \in Nat \ {0}, NEW m \in Nat \ {0}, d * m = 2 * w, d % 2 # 0
      PROVE  d = 1
  <2> DEFINE n == m \div 2
  <2>1. n \in Nat \ {0} /\ d * n = w
    BY <1>1, OddFactor
  <2>2. d \in 1..w /\ n \in 1..w
    BY <2>1, FactorIsLess
  <2> QED BY <1>1, <2>1, <2>2 DEF PowerOfTwo
<1>2. \A d, m \in 1 .. 2 * w : d \in Nat \ {0} /\ m \in Nat \ {0}
  OBVIOUS
<1> QED BY <1>1, <1>2, Zenon DEF PowerOfTwo

LEMMA PowerHalves ==
  ASSUME NEW w \in Nat \ {0, 1}, PowerOfTwo(w)
  PROVE  \E v \in Nat \ {0} : w = 2 * v /\ PowerOfTwo(v)
<1>1. w % 2 = 0
  <2>1. w \in 1..w /\ 1 \in 1..w /\ w * 1 = w
    OBVIOUS
  <2> QED BY <2>1 DEF PowerOfTwo
<1>2. PICK v \in Nat \ {0} : w = 2 * v
  <2>1. w = 2 * (w \div 2) /\ w \div 2 \in Nat \ {0}
    BY <1>1, SMT
  <2> QED BY <2>1
<1>3. PowerOfTwo(v)
  <2> SUFFICES ASSUME NEW d \in 1..v, NEW m \in 1..v, d * m = v
               PROVE  d = 1 \/ d % 2 = 0
    BY DEF PowerOfTwo
  <2>1. d * (2 * m) = 2 * (d * m)
    BY SMT
  <2>2. d \in 1..w /\ 2 * m \in 1..w /\ d * (2 * m) = w
    BY <1>2, <2>1
  <2> QED BY <2>2 DEF PowerOfTwo
<1> QED BY <1>2, <1>3

(* The powers below the limit, and that no smaller one would do.           *)
LimitInv ==
  /\ PowerOfTwo(limit)
  /\ \A v \in 1 .. limit - 1 : PowerOfTwo(v) => 2 * v <= limit
  /\ limit = 1 \/ limit < 2 * count

LEMMA LimitInitially == Init => LimitInv
BY PowerOne DEF Init, LimitInv

LEMMA LimitKept ==
  ASSUME IndInv, LimitInv, [Next]_vars
  PROVE  LimitInv'
<1>1. CASE DoubleLimit
  <2>1. limit \in Nat \ {0} /\ count \in Nat \ {0} /\ limit' = 2 * limit /\ limit < count
        /\ count' = count
    BY <1>1, TreeConstants DEF IndInv, TypeOK, DoubleLimit, TooFewLeaves
  <2>2. PowerOfTwo(limit')
    BY <2>1, PowerDoubles DEF LimitInv
  <2>3. ASSUME NEW v \in 1 .. limit' - 1, PowerOfTwo(v)
        PROVE  2 * v <= limit'
    <3>1. CASE v = 1
      BY <2>1, <3>1
    <3>2. CASE v # 1
      <4>1. PICK u \in Nat \ {0} : v = 2 * u /\ PowerOfTwo(u)
        BY <2>1, <2>3, <3>2, PowerHalves
      <4>2. u \in 1 .. limit - 1
        BY <2>1, <4>1
      <4>3. 2 * u <= limit
        BY <4>1, <4>2 DEF LimitInv
      <4> QED BY <2>1, <4>1, <4>3
    <3> QED BY <3>1, <3>2
  <2>4. limit' < 2 * count'
    BY <2>1
  <2> QED BY <2>2, <2>3, <2>4 DEF LimitInv
<1>2. ASSUME UNCHANGED <<limit, count>> PROVE LimitInv'
  BY <1>2 DEF LimitInv
<1> QED BY <1>1, <1>2 DEF Next, SortPairs, LimitFound, PlaceLeaf, LeavesPlaced, Combine, Climb,
           PathDone, vars

(* When the loop of nextPowerOfTwo is over, the limit is the width.        *)
LEMMA LimitIsWidth ==
  ASSUME IndInv, LimitInv, pc \notin {"sort", "limit"}
  PROVE  Width = limit
<1>1. limit \in Nat \ {0} /\ count \in Nat \ {0} /\ count <= limit
  BY TreeConstants DEF IndInv, TypeOK, EnoughLeaves
<1> DEFINE Fits(w) == /\ PowerOfTwo(w) /\ w >= count
                      /\ \A v \in 1 .. w - 1 : PowerOfTwo(v) => v < count
<1>2. limit \in 1 .. 2 * count /\ Fits(limit)
  <2>1. limit \in 1 .. 2 * count
    BY <1>1 DEF LimitInv
  <2>2. ASSUME NEW v \in 1 .. limit - 1, PowerOfTwo(v)
        PROVE  v < count
    <3>1. 2 * v <= limit
      BY <2>2 DEF LimitInv
    <3> QED BY <1>1, <3>1 DEF LimitInv
  <2> QED BY <1>1, <2>1, <2>2 DEF LimitInv
<1>3. ASSUME NEW w \in 1 .. 2 * count, Fits(w)
      PROVE  w = limit
  <2>1. ~ (w < limit)
    <3> SUFFICES ASSUME w < limit PROVE FALSE
      OBVIOUS
    <3>1. w \in 1 .. limit - 1
      BY <1>1
    <3>2. w < count
      BY <1>2, <1>3, <3>1
    <3> QED BY <1>1, <1>3, <3>2
  <2>2. ~ (limit < w)
    <3> SUFFICES ASSUME limit < w PROVE FALSE
      OBVIOUS
    <3>1. limit \in 1 .. w - 1
      BY <1>1
    <3>2. limit < count
      BY <1>2, <1>3, <3>1
    <3> QED BY <1>1, <3>2
  <2> QED BY <1>1, <2>1, <2>2
<1>4. Width = CHOOSE w \in 1 .. 2 * count : Fits(w)
  BY DEF Width
<1> HIDE DEF Fits
<1> QED BY <1>2, <1>3, <1>4

-----------------------------------------------------------------------------
(* The leaves in order. *)

(* An injection bounds the size of what it maps into.                      *)
LEMMA InjectionBounds ==
  ASSUME NEW S, NEW T, IsFiniteSet(T), NEW f \in [S -> T],
         \A a, b \in S : f[a] = f[b] => a = b
  PROVE  IsFiniteSet(S) /\ Cardinality(S) <= Cardinality(T)
<1>1. f \in Injection(S, T)
  BY Fun_IsInj
<1> QED BY <1>1, FS_Injection

LEMMA SmallestIsNext ==
  ASSUME TypeOK, PlaceInverts, pc # "sort", sorted \in SortedOrders, NEW k \in Indices
  PROVE  Smallest(k) = cids[sorted[k]]
<1> DEFINE c == cids[sorted[k]]
           Below(h) == {x \in Indices : cids[x] < h}
           UpTo(h) == {x \in Indices : cids[x] <= h}
<1>1. /\ count \in Nat \ {0} /\ k \in 0 .. count - 1 /\ k \in Nat /\ IsFiniteSet(Indices)
      /\ sorted \in [Indices -> Indices] /\ place \in [Indices -> Indices]
      /\ \A x \in Indices : cids[x] \in Hashes /\ cids[x] \in Nat
      /\ \A j, l \in Indices : j < l => cids[sorted[j]] <= cids[sorted[l]]
      /\ \A j, l \in Indices : sorted[j] = sorted[l] => j = l
      /\ \A x \in Indices : sorted[place[x]] = x
  <2>1. count \in Nat \ {0}
    BY TreeConstants DEF TypeOK
  <2>2. IsFiniteSet(Indices)
    BY <2>1, FS_Interval DEF Indices
  <2>3. k \in 0 .. count - 1 /\ k \in Nat
    BY <2>1 DEF Indices
  <2>4. \A x \in Indices : cids[x] \in Hashes /\ cids[x] \in Nat
    BY TreeConstants DEF TypeOK
  <2>5. /\ sorted \in [Indices -> Indices] /\ place \in [Indices -> Indices]
        /\ \A x \in Indices : sorted[place[x]] = x
    BY DEF TypeOK, PlaceInverts
  <2>6. /\ \A j, l \in Indices : j < l => cids[sorted[j]] <= cids[sorted[l]]
        /\ \A j, l \in Indices : sorted[j] = sorted[l] => j = l
    BY DEF SortedOrders
  <2> QED BY <2>1, <2>2, <2>3, <2>4, <2>5, <2>6
<1>2. c \in Hashes /\ c \in Nat
  BY <1>1
<1>3. Cardinality(Below(c)) <= k
  <2> DEFINE f == [x \in Below(c) |-> place[x]]
  <2>1. ASSUME NEW x \in Below(c)
        PROVE  place[x] \in 0 .. k - 1
    <3>1. x \in Indices /\ place[x] \in Indices /\ cids[sorted[place[x]]] < c
      BY <1>1
    <3>2. k # place[x]
      BY <1>2, <3>1
    <3>3. cids[sorted[place[x]]] \in Nat
      BY <1>1, <3>1
    <3>4. ~ (c <= cids[sorted[place[x]]])
      BY <1>2, <3>1, <3>3
    <3>5. ~ (k < place[x])
      BY <1>1, <3>1, <3>4
    <3> QED BY <1>1, <3>1, <3>2, <3>5 DEF Indices
  <2>2. f \in [Below(c) -> 0 .. k - 1]
    BY <2>1
  <2>3. \A a, b \in Below(c) : f[a] = f[b] => a = b
    BY <1>1
  <2>4. IsFiniteSet(0 .. k - 1) /\ Cardinality(0 .. k - 1) = k
    BY <1>1, FS_Interval
  <2> HIDE DEF f
  <2>5. Cardinality(Below(c)) <= Cardinality(0 .. k - 1)
    BY <2>2, <2>3, <2>4, InjectionBounds
  <2> QED BY <2>4, <2>5
<1>4. k < Cardinality(UpTo(c))
  <2> DEFINE f == [j \in 0 .. k |-> sorted[j]]
  <2>1. ASSUME NEW j \in 0 .. k
        PROVE  sorted[j] \in UpTo(c)
    <3>0. j \in 0 .. count - 1 /\ (j = k \/ j < k)
      BY <1>1
    <3>1. j \in Indices /\ (j = k \/ j < k)
      BY <3>0 DEF Indices
    <3>2. cids[sorted[j]] <= c
      BY <1>1, <1>2, <3>1
    <3> QED BY <1>1, <3>1, <3>2
  <2>2. f \in [0 .. k -> UpTo(c)]
    BY <2>1
  <2>3. \A a, b \in 0 .. k : f[a] = f[b] => a = b
    <3>1. \A a \in 0 .. k : a \in 0 .. count - 1
      BY <1>1
    <3>2. \A a \in 0 .. k : a \in Indices
      BY <3>1 DEF Indices
    <3> QED BY <1>1, <3>2
  <2>4. IsFiniteSet(UpTo(c)) /\ Cardinality(UpTo(c)) \in Nat
    BY <1>1, FS_Subset, FS_CardinalityType
  <2>5. Cardinality(0 .. k) = k + 1
    BY <1>1, FS_Interval
  <2> HIDE DEF f, UpTo
  <2>6. Cardinality(0 .. k) <= Cardinality(UpTo(c))
    BY <2>2, <2>3, <2>4, InjectionBounds
  <2> QED BY <1>1, <2>4, <2>5, <2>6
<1>5. ASSUME NEW h \in Hashes, NEW g \in Hashes, g < h,
             Cardinality(Below(h)) <= k, k < Cardinality(UpTo(g))
      PROVE  FALSE
  <2>1. g \in Nat /\ h \in Nat
    BY TreeConstants
  <2>2. UpTo(g) \in SUBSET Below(h)
    <3>1. ASSUME NEW x \in Indices, cids[x] <= g
          PROVE  cids[x] < h
      <4>1. cids[x] \in Nat
        BY <1>1
      <4> QED BY <1>5, <2>1, <3>1, <4>1
    <3> QED BY <3>1
  <2>3. /\ IsFiniteSet(Below(h)) /\ Cardinality(Below(h)) \in Nat
        /\ Cardinality(UpTo(g)) \in Nat
    BY <1>1, FS_Subset, FS_CardinalityType
  <2>4. Cardinality(UpTo(g)) <= Cardinality(Below(h))
    BY <2>2, <2>3, FS_Subset
  <2> QED BY <1>1, <1>5, <2>3, <2>4
<1> DEFINE IsNext(h) == Cardinality(Below(h)) <= k /\ k < Cardinality(UpTo(h))
<1>6. ASSUME NEW h \in Hashes, IsNext(h)
      PROVE  h = c
  <2>1. h \in Nat /\ ~ (c < h) /\ ~ (h < c)
    BY <1>2, <1>3, <1>4, <1>5, <1>6, TreeConstants
  <2> QED BY <1>2, <2>1
<1>7. Smallest(k) = CHOOSE h \in Hashes : IsNext(h)
  BY DEF Smallest
<1>8. IsNext(c)
  BY <1>3, <1>4
<1> HIDE DEF IsNext, c
<1>9. Smallest(k) = c
  BY <1>2, <1>6, <1>7, <1>8
<1> QED BY <1>9 DEF c

SortedInv == pc # "sort" => sorted \in SortedOrders

LEMMA SortedKept ==
  ASSUME TypeOK, SortedInv, [Next]_vars
  PROVE  SortedInv'
<1>1. UNCHANGED <<count, cids>> => SortedOrders' = SortedOrders
  BY DEF SortedOrders, Indices
<1>2. CASE SortPairs
  BY <1>1, <1>2 DEF SortPairs, SortedInv
<1>3. ASSUME UNCHANGED <<count, cids, sorted>>, pc' # "sort" => pc # "sort"
      PROVE  SortedInv'
  BY <1>1, <1>3 DEF SortedInv
<1> QED BY <1>2, <1>3 DEF Next, DoubleLimit, LimitFound, PlaceLeaf, LeavesPlaced, Combine, Climb,
           PathDone, vars

-----------------------------------------------------------------------------
(* The root.  Rows is defined by recursion, as FoldPath is; that it is     *)
(* defined and agrees with the heap is, again, an invariant of the steps,  *)
(* which reach the nodes from the last to the first.                       *)

IsRows(f) ==
  f = [w \in Widths |->
         [k \in 0 .. w - 1 |->
            IF w < Width THEN HashNode(f[2 * w][2 * k], f[2 * w][2 * k + 1])
            ELSE IF k < count THEN HashLeaf(Smallest(k)) ELSE ZeroLeaf]]

(* A heap has the rows in its nodes past q.                                *)
RowsIn(heap, q) ==
  \A f : IsRows(f) =>
    \A w \in Widths : \A k \in 0 .. w - 1 : w - 1 + k > q => f[w][k] = heap[w - 1 + k]

RowsInv ==
  /\ pc = "combine" => RowsIn(nodes, p)
  /\ pc \in {"walk", "done"} => RowsIn(nodes, -1)

Placed == pc \in {"combine", "walk", "done"}

(* The widths of the tree in the heap, and where a row is.                 *)
LEMMA RowPlaces ==
  ASSUME IndInv, LimitInv, pc \notin {"sort", "limit"}
  PROVE  /\ Width = limit /\ limit \in Nat \ {0} /\ count \in Nat \ {0}
         /\ limit \in Widths /\ 1 \in Widths
         /\ \A w \in Widths :
              /\ w \in 1..limit
              /\ w < limit => 2 * w \in Widths /\ 2 * w <= limit
<1>1. Width = limit /\ limit \in Nat \ {0} /\ count \in Nat \ {0}
  BY LimitIsWidth, TreeConstants DEF IndInv, TypeOK
<1>2. Widths = {w \in 1..limit : PowerOfTwo(w)}
  BY <1>1 DEF Widths
<1>3. limit \in 1..limit /\ 1 \in 1..limit
  BY <1>1
<1>4. limit \in Widths /\ 1 \in Widths
  BY <1>2, <1>3, PowerOne DEF LimitInv
<1>5. ASSUME NEW w \in Widths, w < limit
      PROVE  2 * w \in Widths /\ 2 * w <= limit
  <2>1. w \in 1 .. limit - 1 /\ w \in Nat \ {0} /\ PowerOfTwo(w)
    BY <1>1, <1>2, <1>5
  <2>2. 2 * w <= limit
    BY <2>1 DEF LimitInv
  <2>3. PowerOfTwo(2 * w)
    BY <2>1, PowerDoubles
  <2>4. 2 * w \in 1..limit
    BY <1>1, <2>1, <2>2
  <2> QED BY <1>2, <2>2, <2>3, <2>4
<1> QED BY <1>1, <1>2, <1>4, <1>5

LEMMA LeafInOrder ==
  ASSUME IndInv, SortedInv, Placed, NEW k \in Nat
  PROVE  LeafAt(k) = IF k < count THEN HashLeaf(Smallest(k)) ELSE ZeroLeaf
<1>1. CASE k < count
  <2>1. k \in Indices
    BY <1>1, TreeConstants DEF Indices, IndInv, TypeOK
  <2>2. Smallest(k) = cids[sorted[k]]
    BY <2>1, SmallestIsNext DEF SortedInv, Placed, IndInv
  <2> QED BY <1>1, <2>2 DEF LeafAt
<1>2. CASE ~ (k < count)
  BY <1>2 DEF LeafAt
<1> QED BY <1>1, <1>2

(* With the leaves in place the heap has the tree's last row.              *)
LeavesAreRow == Placed => RowsIn(nodes, limit - 2)

LEMMA LastRow ==
  ASSUME IndInv, LimitInv, SortedInv
  PROVE  LeavesAreRow
<1> SUFFICES ASSUME Placed, NEW f, IsRows(f), NEW w \in Widths, NEW k \in 0 .. w - 1,
                    w - 1 + k > limit - 2
             PROVE  f[w][k] = nodes[w - 1 + k]
  BY DEF LeavesAreRow, RowsIn
<1>1. Width = limit /\ limit \in Nat \ {0} /\ w \in 1..limit /\ (w < limit => 2 * w <= limit)
  BY RowPlaces DEF Placed
<1>2. w = limit
  BY <1>1
<1>3. k \in 0 .. limit - 1 /\ k \in Nat
  BY <1>1, <1>2
<1>4. f[w][k] = IF k < count THEN HashLeaf(Smallest(k)) ELSE ZeroLeaf
  BY <1>1, <1>2 DEF IsRows
<1>5. f[w][k] = LeafAt(k)
  BY <1>3, <1>4, LeafInOrder
<1>6. nodes[limit - 1 + k] = LeafAt(k)
  BY <1>3 DEF IndInv, HeapFilled, LeavesUpTo, Placed
<1> QED BY <1>2, <1>5, <1>6

(* The rows speak of what was submitted, not of the heap.                  *)
LEMMA RowsSame ==
  ASSUME UNCHANGED <<count, cids>>
  PROVE  Widths' = Widths /\ Width' = Width /\ \A f : IsRows(f)' <=> IsRows(f)
<1>1. Width' = Width
  BY DEF Width
<1>2. Widths' = Widths
  BY <1>1 DEF Widths
<1>3. \A k : Smallest(k)' = Smallest(k)
  BY DEF Smallest, Indices
<1> QED BY <1>1, <1>2, <1>3 DEF IsRows

LEMMA CombineRows ==
  ASSUME IndInv, LimitInv, RowsInv, Combine
  PROVE  RowsIn(nodes', p - 1)
<1> USE DEF Combine
<1>1. /\ Width = limit /\ limit \in Nat \ {0} /\ p \in 0 .. limit - 2
      /\ DOMAIN nodes = 0 .. 2 * limit - 2
      /\ \A w \in Widths : w \in 1..limit /\ (w < limit => 2 * w \in Widths /\ 2 * w <= limit)
  BY RowPlaces DEF Placed, IndInv, TypeOK, HeapFilled
<1>2. nodes' = [nodes EXCEPT ![p] = HashNode(nodes[2 * p + 1], nodes[2 * p + 2])]
  BY DEF Children
<1>3. UNCHANGED <<count, cids>> /\ RowsIn(nodes, p)
  BY DEF RowsInv
<1>5. ASSUME NEW f, IsRows(f), NEW w \in Widths, NEW k \in 0 .. w - 1, w - 1 + k > p - 1
      PROVE  f[w][k] = nodes'[w - 1 + k]
  <2>1. w \in 1..limit /\ (w < limit => 2 * w \in Widths /\ 2 * w <= limit)
    BY <1>1
  <2>2. w - 1 + k \in 0 .. 2 * limit - 2
    BY <1>1, <2>1
  <2>3. CASE w - 1 + k > p
    <3>1. f[w][k] = nodes[w - 1 + k]
      BY <1>3, <1>5, <2>3 DEF RowsIn
    <3>2. nodes'[w - 1 + k] = nodes[w - 1 + k]
      BY <1>1, <1>2, <2>2, <2>3
    <3> QED BY <3>1, <3>2
  <2>4. CASE w - 1 + k = p
    <3>1. w < limit /\ 2 * w \in Widths
      BY <1>1, <2>1, <2>4
    <3>2. f[w][k] = HashNode(f[2 * w][2 * k], f[2 * w][2 * k + 1])
      <4>1. w < Width
        BY <1>1, <3>1
      <4> QED BY <1>5, <4>1 DEF IsRows
    <3>3. /\ 2 * k \in 0 .. 2 * w - 1 /\ 2 * w - 1 + 2 * k = 2 * p + 1
          /\ 2 * k + 1 \in 0 .. 2 * w - 1 /\ 2 * w - 1 + (2 * k + 1) = 2 * p + 2
          /\ 2 * p + 1 > p /\ 2 * p + 2 > p
      BY <1>1, <2>1, <2>4
    <3>4. f[2 * w][2 * k] = nodes[2 * p + 1] /\ f[2 * w][2 * k + 1] = nodes[2 * p + 2]
      BY <1>3, <1>5, <3>1, <3>3 DEF RowsIn
    <3>5. nodes'[p] = HashNode(nodes[2 * p + 1], nodes[2 * p + 2])
      BY <1>1, <1>2
    <3> QED BY <2>4, <3>2, <3>4, <3>5
  <2>5. w - 1 + k > p \/ w - 1 + k = p
    BY <1>1, <1>5, <2>2
  <2> QED BY <2>3, <2>4, <2>5
<1> QED BY <1>5 DEF RowsIn

LEMMA RowsKept ==
  ASSUME IndInv, IndInv', LimitInv, RowsInv, LeavesAreRow', [Next]_vars
  PROVE  RowsInv'
<1>1. UNCHANGED <<count, cids>>
  BY DEF Next, SortPairs, DoubleLimit, LimitFound, PlaceLeaf, LeavesPlaced, Combine, Climb,
         PathDone, vars
<1>2. \A heap, q : RowsIn(heap, q)' <=> RowsIn(heap, q)
  BY <1>1, RowsSame DEF RowsIn
<1>3. CASE LeavesPlaced
  <2>1. /\ Placed' /\ limit' \in Nat \ {0}
        /\ pc' = "combine" => p' = limit' - 2
        /\ pc' = "walk" => limit' = 1
        /\ pc' # "done"
    BY <1>3 DEF LeavesPlaced, Placed, IndInv, TypeOK
  <2>2. RowsIn(nodes, limit - 2)'
    BY <2>1 DEF LeavesAreRow
  <2> QED BY <2>1, <2>2 DEF RowsInv, RowsIn
<1>4. CASE Combine
  <2>1. RowsIn(nodes', p - 1)
    BY <1>4, CombineRows
  <2>2. /\ pc' \in {"combine", "walk"} /\ p \in Nat
        /\ pc' = "combine" => p' = p - 1
        /\ pc' = "walk" => p = 0
    BY <1>4 DEF Combine, IsRoot, IndInv, TypeOK, StartWalk
  <2>3. pc' = "combine" => RowsIn(nodes, p)'
    BY <1>2, <2>1, <2>2
  <2>4. pc' = "walk" => RowsIn(nodes, -1)'
    BY <1>2, <2>1, <2>2
  <2> QED BY <2>2, <2>3, <2>4 DEF RowsInv
<1>5. ASSUME Climb \/ PathDone \/ UNCHANGED vars
      PROVE  RowsInv'
  <2>1. /\ nodes' = nodes /\ (pc' = "combine" => pc = "combine" /\ p' = p)
        /\ pc' \in {"walk", "done"} => pc \in {"walk", "done"}
    BY <1>5 DEF Climb, PathDone, vars, tree
  <2> QED BY <1>2, <2>1 DEF RowsInv
<1>6. ASSUME SortPairs \/ DoubleLimit \/ LimitFound \/ PlaceLeaf
      PROVE  RowsInv'
  <2>1. pc' \notin {"combine", "walk", "done"}
    BY <1>6 DEF SortPairs, DoubleLimit, LimitFound, PlaceLeaf
  <2> QED BY <2>1 DEF RowsInv
<1> QED BY <1>3, <1>4, <1>5, <1>6 DEF Next

(* The rows exist, since the heap has them.                                *)
LEMMA RowsExist ==
  ASSUME IndInv, LimitInv, SortedInv, pc \in {"walk", "done"}
  PROVE  IsRows(Rows)
<1> DEFINE g == [w \in Widths |-> [k \in 0 .. w - 1 |-> nodes[w - 1 + k]]]
<1>1. /\ Placed /\ Width = limit /\ limit \in Nat \ {0}
      /\ \A w \in Widths : w \in 1..limit /\ (w < limit => 2 * w \in Widths /\ 2 * w <= limit)
  BY RowPlaces DEF Placed
<1>2. LeavesUpTo(limit) /\ NodesAbove(-1)
  BY DEF IndInv, HeapFilled
<1>3. ASSUME NEW w \in Widths, NEW k \in 0 .. w - 1
      PROVE  g[w][k] = IF w < Width THEN HashNode(g[2 * w][2 * k], g[2 * w][2 * k + 1])
                       ELSE IF k < count THEN HashLeaf(Smallest(k)) ELSE ZeroLeaf
  <2>1. g[w][k] = nodes[w - 1 + k] /\ w \in 1..limit
    BY <1>1
  <2>2. CASE w < limit
    <3>1. /\ 2 * w \in Widths /\ 2 * w <= limit
          /\ 2 * k \in 0 .. 2 * w - 1 /\ 2 * k + 1 \in 0 .. 2 * w - 1
          /\ w - 1 + k \in 0 .. limit - 2 /\ w - 1 + k > -1
          /\ 2 * (w - 1 + k) + 1 = 2 * w - 1 + 2 * k
          /\ 2 * (w - 1 + k) + 2 = 2 * w - 1 + (2 * k + 1)
      BY <1>1, <2>1, <2>2
    <3>2. nodes[w - 1 + k] = HashNode(nodes[2 * w - 1 + 2 * k], nodes[2 * w - 1 + (2 * k + 1)])
      BY <1>2, <3>1 DEF NodesAbove
    <3>3. /\ g[2 * w][2 * k] = nodes[2 * w - 1 + 2 * k]
          /\ g[2 * w][2 * k + 1] = nodes[2 * w - 1 + (2 * k + 1)]
      BY <3>1
    <3> HIDE DEF g
    <3> QED BY <1>1, <2>1, <2>2, <3>2, <3>3
  <2>3. CASE w = limit
    <3>1. k \in 0 .. limit - 1 /\ k \in Nat
      BY <1>1, <2>3
    <3>2. nodes[limit - 1 + k] = LeafAt(k)
      BY <1>2, <3>1 DEF LeavesUpTo
    <3>3. LeafAt(k) = IF k < count THEN HashLeaf(Smallest(k)) ELSE ZeroLeaf
      BY <1>1, <3>1, LeafInOrder
    <3>4. ~ (w < Width)
      BY <1>1, <2>3
    <3> HIDE DEF g
    <3> QED BY <2>1, <2>3, <3>2, <3>3, <3>4
  <2> QED BY <1>1, <2>1, <2>2, <2>3
<1>4. IsRows(g)
  <2> DEFINE G(w) == [k \in 0 .. w - 1 |->
                        IF w < Width THEN HashNode(g[2 * w][2 * k], g[2 * w][2 * k + 1])
                        ELSE IF k < count THEN HashLeaf(Smallest(k)) ELSE ZeroLeaf]
  <2>1. ASSUME NEW w \in Widths
        PROVE  g[w] = G(w)
    <3>1. g[w] = [k \in 0 .. w - 1 |-> nodes[w - 1 + k]]
      OBVIOUS
    <3>2. g[w] = [k \in 0 .. w - 1 |-> g[w][k]]
      BY <3>1
    <3> HIDE DEF g
    <3> QED BY <1>3, <3>2
  <2>2. g = [w \in Widths |-> g[w]]
    OBVIOUS
  <2> HIDE DEF g
  <2> QED BY <2>1, <2>2 DEF IsRows
<1> HIDE DEF g
<1>5. Rows = CHOOSE f : IsRows(f)
  BY DEF Rows, IsRows
<1> QED BY <1>4, <1>5

(* The signed root is that of the padded tree over the sorted hashes, for  *)
(* any hash functions and batch: it depends on which hashes were submitted *)
(* and how often, and on nothing else (nextPowerOfTwo, the sort and        *)
(* buildMerkleHeap).                                                       *)
THEOREM RootSafety == Spec => []RootOfSortedTree
<1>1. Init => LimitInv /\ SortedInv /\ RowsInv
  BY LimitInitially DEF Init, SortedInv, RowsInv
<1>2. IndInv /\ LimitInv /\ SortedInv /\ [Next]_vars => LimitInv' /\ SortedInv'
  BY LimitKept, SortedKept DEF IndInv
<1>3. IndInv /\ LimitInv /\ SortedInv => LeavesAreRow
  BY LastRow
<1>4. IndInv /\ IndInv' /\ LimitInv /\ RowsInv /\ LeavesAreRow' /\ [Next]_vars => RowsInv'
  BY RowsKept
<1>5. IndInv /\ LimitInv /\ SortedInv /\ RowsInv => RootOfSortedTree
  <2> SUFFICES ASSUME IndInv, LimitInv, SortedInv, RowsInv, pc \in {"walk", "done"}
               PROVE  nodes[0] = Rows[1][0]
    BY DEF RootOfSortedTree
  <2>1. IsRows(Rows) /\ RowsIn(nodes, -1)
    BY RowsExist DEF RowsInv
  <2>2. 1 \in Widths
    BY RowPlaces DEF Placed
  <2>3. 0 \in 0 .. 1 - 1 /\ 1 - 1 + 0 > -1 /\ 1 - 1 + 0 = 0
    OBVIOUS
  <2> QED BY <2>1, <2>2, <2>3 DEF RowsIn
<1> QED BY <1>1, <1>2, <1>3, <1>4, <1>5, TreeInvariant, PTL DEF Spec

-----------------------------------------------------------------------------
(* The length of a path. *)

(* The rows above the node q, by their widths.                             *)
Above(q) == {v \in Widths : 2 * v <= q + 1}

(* Each entry of a path takes the walk one row up.                         *)
HeightInv ==
  /\ pc = "walk" => Len(path) + Cardinality(Above(p)) = Height
  /\ pc \in {"walk", "done"} => \A x \in 0 .. leaf - 1 : Len(proofs[x + 1]) = Height

LEMMA AboveFinite ==
  ASSUME IndInv, LimitInv, pc \notin {"sort", "limit"}, NEW q
  PROVE  IsFiniteSet(Above(q)) /\ Cardinality(Above(q)) \in Nat
<1>1. limit \in Nat \ {0} /\ Widths \in SUBSET (1..limit)
  BY RowPlaces
<1>2. IsFiniteSet(1..limit)
  BY <1>1, FS_Interval
<1>3. Above(q) \in SUBSET (1..limit)
  BY <1>1 DEF Above
<1> QED BY <1>2, <1>3, FS_Subset, FS_CardinalityType

LEMMA AboveLeaf ==
  ASSUME IndInv, LimitInv, pc \notin {"sort", "limit"}, NEW q \in limit - 1 .. 2 * limit - 2
  PROVE  Above(q) = Widths \ {Width}
<1>1. /\ Width = limit /\ limit \in Nat \ {0}
      /\ \A w \in Widths : w \in 1..limit /\ (w < limit => 2 * w <= limit)
  BY RowPlaces
<1>2. ASSUME NEW v \in Widths
      PROVE  2 * v <= q + 1 <=> v # limit
  <2>1. v \in 1..limit /\ (v < limit => 2 * v <= limit)
    BY <1>1
  <2> QED BY <1>1, <2>1
<1> QED BY <1>1, <1>2 DEF Above

LEMMA AboveRoot ==
  ASSUME IndInv, LimitInv, pc \notin {"sort", "limit"}
  PROVE  Cardinality(Above(0)) = 0
<1>1. \A w \in Widths : w \in 1..limit /\ limit \in Nat \ {0}
  BY RowPlaces
<1>2. Above(0) = {}
  BY <1>1 DEF Above
<1> QED BY <1>2, FS_EmptySet

(* Doubling maps the rows above a node's parent to those above the node,   *)
(* except for the root's.                                                  *)
LEMMA AboveParent ==
  ASSUME IndInv, LimitInv, pc \notin {"sort", "limit"}, NEW q \in 1 .. 2 * limit - 2
  PROVE  Cardinality(Above(q)) = Cardinality(Above(Parent(q))) + 1
<1>1. /\ Width = limit /\ limit \in Nat \ {0} /\ 1 \in Widths
      /\ Widths = {w \in 1..limit : PowerOfTwo(w)}
      /\ \A w \in Widths : /\ w \in 1..limit
                           /\ w < limit => 2 * w \in Widths /\ 2 * w <= limit
  BY RowPlaces DEF Widths
<1>2. Parent(q) \in Nat /\ (q = 2 * Parent(q) + 1 \/ q = 2 * Parent(q) + 2)
  <2>1. q \in Nat \ {0}
    BY <1>1
  <2>2. CASE q % 2 = 1
    BY <2>1, <2>2, OddNode
  <2>3. CASE q % 2 # 1
    BY <2>1, <2>3, EvenNode
  <2> QED BY <2>2, <2>3
<1> DEFINE S == Above(Parent(q))
           T == Above(q) \ {1}
           f == [v \in S |-> 2 * v]
<1>3. ASSUME NEW v \in S
      PROVE  2 * v \in T
  <2>1. v \in Widths /\ v \in 1..limit /\ 2 * v <= Parent(q) + 1
    BY <1>1 DEF Above
  <2>2. 2 * (2 * v) <= q + 1 /\ v < limit /\ 2 * v # 1
    BY <1>1, <1>2, <2>1
  <2>3. 2 * v \in Widths
    BY <1>1, <2>1, <2>2
  <2> QED BY <2>2, <2>3 DEF Above
<1>4. ASSUME NEW u \in T
      PROVE  \E v \in S : f[v] = u
  <2>1. u \in Widths /\ u \in 1..limit /\ u # 1 /\ 2 * u <= q + 1 /\ PowerOfTwo(u)
    BY <1>1 DEF Above
  <2>2. PICK v \in Nat \ {0} : u = 2 * v /\ PowerOfTwo(v)
    BY <1>1, <2>1, PowerHalves
  <2>3. v \in 1..limit /\ 2 * v <= Parent(q) + 1
    BY <1>1, <1>2, <2>1, <2>2
  <2>4. v \in S
    BY <1>1, <2>2, <2>3 DEF Above
  <2> QED BY <2>2, <2>4
<1>5. f \in [S -> T]
  BY <1>3
<1>6. \A a, b \in S : f[a] = f[b] => a = b
  <2>1. \A a \in S : a \in Nat
    BY <1>1 DEF Above
  <2> QED BY <2>1
<1> HIDE DEF f, S, T
<1>7. f \in Bijection(S, T)
  BY <1>4, <1>5, <1>6, Fun_IsBij
<1>8. IsFiniteSet(S) /\ Cardinality(S) \in Nat
  BY AboveFinite DEF S
<1>9. Cardinality(T) = Cardinality(S)
  BY <1>7, <1>8, FS_Bijection DEF ExistsBijection
<1>10. 1 \in Above(q) /\ IsFiniteSet(Above(q)) /\ Cardinality(Above(q)) \in Nat
  <2>1. 2 * 1 <= q + 1
    BY <1>1
  <2>2. 1 \in Above(q)
    BY <1>1, <2>1 DEF Above
  <2> QED BY <2>2, AboveFinite
<1>11. Cardinality(T) = Cardinality(Above(q)) - 1
  BY <1>10, FS_RemoveElement DEF T
<1>12. Cardinality(Above(q)) = Cardinality(S) + 1
  BY <1>8, <1>9, <1>10, <1>11
<1> QED BY <1>12 DEF S

LEMMA HeightsSame ==
  ASSUME UNCHANGED <<count, cids>>
  PROVE  Height' = Height /\ \A q : Above(q)' = Above(q)
BY RowsSame DEF Height, Above

(* A walk starts at a leaf, with its whole path to go.                     *)
LEMMA StartHeight ==
  ASSUME IndInv, LimitInv, pc \notin {"sort", "limit"}, NEW x \in Indices, StartWalk(x),
         UNCHANGED <<count, cids>>
  PROVE  Len(path') + Cardinality(Above(p)') = Height'
<1>1. path' = <<>> /\ p' = limit - 1 + place[x]
  BY DEF StartWalk
<1>2. limit \in Nat \ {0} /\ count \in Nat \ {0} /\ count <= limit /\ place[x] \in 0 .. count - 1
  BY TreeConstants DEF IndInv, TypeOK, EnoughLeaves, Indices
<1>3. p' \in limit - 1 .. 2 * limit - 2
  BY <1>1, <1>2
<1>4. Above(p') = Widths \ {Width}
  BY <1>3, AboveLeaf
<1>5. Above(p)' = Above(p')
  BY HeightsSame, RowsSame DEF Above
<1>6. Height' = Cardinality(Above(p)')
  BY <1>4, <1>5, HeightsSame DEF Height
<1>7. Len(path') = 0
  BY <1>1
<1>8. Cardinality(Above(p')) \in Nat
  BY AboveFinite
<1> QED BY <1>5, <1>6, <1>7, <1>8

LEMMA HeightKept ==
  ASSUME IndInv, LimitInv, FoldInv, HeightInv, [Next]_vars
  PROVE  HeightInv'
<1>0. UNCHANGED <<count, cids>>
  BY DEF Next, SortPairs, DoubleLimit, LimitFound, PlaceLeaf, LeavesPlaced, Combine, Climb,
         PathDone, vars
<1>1. Height' = Height /\ \A q : Above(q)' = Above(q)
  BY <1>0, HeightsSame
<1>2. ASSUME pc \in {"pad", "combine"}, pc' = "walk", StartWalk(0)
      PROVE  HeightInv'
  <2>1. 0 \in Indices /\ leaf' = 0
    BY <1>2, TreeConstants DEF IndInv, TypeOK, Indices, StartWalk
  <2>2. Len(path') + Cardinality(Above(p)') = Height'
    BY <1>0, <1>2, <2>1, StartHeight
  <2> QED BY <2>1, <2>2 DEF HeightInv
<1>3. CASE LeavesPlaced
  BY <1>2, <1>3 DEF LeavesPlaced, HeightInv
<1>4. CASE Combine
  <2>1. pc' = "combine" \/ (pc' = "walk" /\ StartWalk(0))
    BY <1>4 DEF Combine
  <2>2. pc = "combine"
    BY <1>4 DEF Combine
  <2> QED BY <1>2, <2>1, <2>2 DEF HeightInv
<1>5. CASE Climb
  <2>1. /\ pc = "walk" /\ pc' = "walk" /\ p \in 1 .. 2 * limit - 2 /\ p' = Parent(p)
        /\ path' = Append(path, Entry) /\ UNCHANGED <<leaf, proofs>>
    BY <1>5 DEF Climb, IndInv, TypeOK
  <2>2. IsSeq(path) /\ Len(path) + Cardinality(Above(p)) = Height
    BY <2>1 DEF FoldInv, Folded, HeightInv
  <2>3. Len(path) \in Nat /\ Len(path') = Len(path) + 1
    BY <2>1, <2>2, AppendIsSeq
  <2>4. Cardinality(Above(p)) = Cardinality(Above(Parent(p))) + 1
    BY <2>1, AboveParent
  <2>5. Cardinality(Above(Parent(p))) \in Nat
    BY <2>1, AboveFinite
  <2>6. Above(p)' = Above(Parent(p))
    BY <1>0, <2>1, RowsSame DEF Above
  <2>7. Len(path') + Cardinality(Above(p)') = Height'
    BY <1>1, <2>2, <2>3, <2>4, <2>5, <2>6
  <2>8. \A x \in 0 .. leaf - 1 : Len(proofs[x + 1]) = Height
    BY <2>1 DEF HeightInv
  <2> QED BY <1>1, <2>1, <2>7, <2>8 DEF HeightInv
<1>6. CASE PathDone
  <2>1. /\ pc = "walk" /\ p = 0 /\ leaf \in Nat /\ leaf' = leaf + 1
        /\ proofs' = Append(proofs, path) /\ pc' \in {"walk", "done"}
        /\ pc' = "walk" => StartWalk(leaf + 1) /\ leaf + 1 \in Indices
    <3>1. pc = "walk" /\ p = 0 /\ proofs' = Append(proofs, path)
      BY <1>6 DEF PathDone
    <3>2. leaf \in Nat /\ count \in Nat
      BY TreeConstants DEF IndInv, TypeOK
    <3>3. \/ leaf + 1 < count /\ StartWalk(leaf + 1) /\ pc' = pc
          \/ leaf + 1 = count /\ pc' = "done" /\ leaf' = count
      BY <1>6 DEF PathDone
    <3>4. leaf + 1 < count => leaf + 1 \in Indices
      BY <3>2 DEF Indices
    <3>5. StartWalk(leaf + 1) => leaf' = leaf + 1
      BY DEF StartWalk
    <3> QED BY <3>1, <3>2, <3>3, <3>4, <3>5
  <2>2. IsSeq(proofs) /\ Len(proofs) = leaf /\ IsSeq(path)
    BY <2>1 DEF FoldInv, Emitted, Folded
  <2>3. proofs'[leaf + 1] = path /\ \A k \in 1 .. leaf : proofs'[k] = proofs[k]
    BY <2>1, <2>2, AppendIsSeq
  <2>4. Len(path) = Height
    <3>1. Len(path) + Cardinality(Above(0)) = Height /\ Cardinality(Above(0)) = 0
      BY <2>1, AboveRoot DEF HeightInv
    <3>2. Len(path) \in Nat
      BY <2>2, AppendIsSeq
    <3> QED BY <3>1, <3>2
  <2>5. ASSUME NEW x \in 0 .. leaf
        PROVE  Len(proofs'[x + 1]) = Height
    <3>1. CASE x = leaf
      BY <2>3, <2>4, <3>1
    <3>2. CASE x \in 0 .. leaf - 1
      <4>1. x + 1 \in 1 .. leaf
        BY <2>1, <3>2
      <4>2. proofs'[x + 1] = proofs[x + 1]
        BY <2>3, <4>1
      <4>3. Len(proofs[x + 1]) = Height
        BY <2>1, <3>2 DEF HeightInv
      <4> QED BY <4>2, <4>3
    <3>3. x = leaf \/ x \in 0 .. leaf - 1
      BY <2>1
    <3> QED BY <3>1, <3>2, <3>3
  <2>6. \A x \in 0 .. leaf' - 1 : Len(proofs'[x + 1]) = Height'
    <3>1. leaf' - 1 = leaf
      BY <2>1
    <3> QED BY <1>1, <2>5, <3>1
  <2>7. pc' = "walk" => Len(path') + Cardinality(Above(p)') = Height'
    BY <1>0, <2>1, StartHeight
  <2> QED BY <2>1, <2>6, <2>7 DEF HeightInv
<1>7. CASE UNCHANGED vars
  BY <1>0, <1>1, <1>7, RowsSame DEF vars, walk, HeightInv, Above
<1>8. ASSUME SortPairs \/ DoubleLimit \/ LimitFound \/ PlaceLeaf
      PROVE  HeightInv'
  <2>1. pc' \notin {"walk", "done"}
    BY <1>8 DEF SortPairs, DoubleLimit, LimitFound, PlaceLeaf
  <2> QED BY <2>1 DEF HeightInv
<1> QED BY <1>3, <1>4, <1>5, <1>6, <1>7, <1>8 DEF Next

(* What the caller gets verifies, and is as long as the tree is high: for  *)
(* any hash functions and batch, the path at each place of leaves folds    *)
(* the hash submitted at that place to the signed root (Step G of          *)
(* batchAttestHolding).                                                    *)
THEOREM ProofsSafety == Spec => []ProofsVerify
<1>1. Init => LimitInv /\ FoldInv /\ HeightInv
  BY LimitInitially DEF Init, FoldInv, HeightInv
<1>2. IndInv /\ LimitInv /\ FoldInv /\ HeightInv /\ [Next]_vars
      => LimitInv' /\ FoldInv' /\ HeightInv'
  BY LimitKept, FoldKept, HeightKept
<1>3. IndInv /\ FoldInv /\ HeightInv => ProofsVerify
  <2> SUFFICES ASSUME IndInv, FoldInv, HeightInv, pc = "done"
               PROVE  /\ Len(proofs) = count
                      /\ \A x \in Indices :
                           /\ FoldPath(HashLeaf(cids[x]), proofs[x + 1]) = nodes[0]
                           /\ Len(proofs[x + 1]) = Height
    BY DEF ProofsVerify
  <2>1. leaf = count /\ Len(proofs) = count
    BY DEF FoldInv, Emitted
  <2>2. ASSUME NEW x \in Indices
        PROVE  /\ FoldPath(HashLeaf(cids[x]), proofs[x + 1]) = nodes[0]
               /\ Len(proofs[x + 1]) = Height
    <3>1. x \in 0 .. leaf - 1
      BY <2>1 DEF Indices
    <3>2. FoldsTo(HashLeaf(cids[x]), proofs[x + 1], nodes[0])
      BY <3>1 DEF FoldInv, Emitted
    <3>3. FoldPath(HashLeaf(cids[x]), proofs[x + 1]) = nodes[0]
      BY <3>2, FoldsToIsFoldPath
    <3> QED BY <3>1, <3>3 DEF HeightInv
  <2> QED BY <2>1, <2>2
<1> QED BY <1>1, <1>2, <1>3, TreeInvariant, PTL DEF Spec

=============================================================================
