SPECIFICATION FairSpec
CONSTANTS
  r1 = r1  r2 = r2  tok = tok  w1 = w1  w2 = w2  w3 = w3
  Tokens = {tok}
  LowerHex <- MCLowerHex
  Thresholds = {1}
  Epochs = {0}
  Wallets = {w1, w2, w3}
  ApprovalTTL = 1
  NoRow = NoRow
  Runs = {r1, r2}
  Batches = {0, 2}
  MaxIterations = 2
  Holders <- MCHolders
  MaxTime = 2
INVARIANTS TypeOK SteadyStateDrained WorkBounded TotalsHonest
PROPERTY RunsEnd
CHECK_DEADLOCK FALSE
