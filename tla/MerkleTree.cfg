SPECIFICATION FairSpec
CONSTANTS
  Hashes = {1, 2, 3}
  MaxCids = 5
  HashLeaf <- MCHashLeaf
  HashNode <- MCHashNode
  ZeroLeaf <- MCZeroLeaf
  Unset <- MCUnset
INVARIANTS TypeOK WalkFollowsTree ReadsComputedNodes RootOfSortedTree ProofsVerify
PROPERTY Terminates
CHECK_DEADLOCK FALSE
