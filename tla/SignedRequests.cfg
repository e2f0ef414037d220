SPECIFICATION Spec
CONSTANTS
  s1 = s1  s2 = s2  main = main  test = test  ag = ag
  acc = acc  accMixed = accMixed  other = other  dom = dom  domMixed = domMixed
  junk = junk  corpus = corpus  badToken = badToken  x1 = x1  x2 = x2
  Sessions = {s1, s2}
  Plans <- MCPlans
  Canisters = {main, test}
  Agents = {ag}
  Addresses = {acc, other, dom}
  Spellings = {acc, accMixed, other, dom, domMixed}
  LowerHex <- MCLowerHex
  BadGates = {badToken}
  Width = 4
  MaxCids = 2
  MaxCalls = 2
  MaxEpoch = 1
  NoPlan = NoPlan  NoSignature = NoSignature
SYMMETRY SessionSymmetry
INVARIANTS TypeOK BuiltIsAccepted SignedOnce EarlyKeepsNonce KeysForTheSession
CHECK_DEADLOCK FALSE
