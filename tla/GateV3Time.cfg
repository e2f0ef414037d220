SPECIFICATION FairSpec
CONSTANTS
  w1 = w1  w2 = w2  tok = tok  tokMixed = tokMixed  dom = dom  c1 = c1  c2 = c2
  t1 = t1  t2 = t2  kA = kA  kB = kB
  Wallets = {w1, w2}
  Tokens = {tok}
  LowerHex <- MCLowerHex
  Thresholds = {1}
  Epochs = {0}
  ApprovalTTL = 2
  NoRow = NoRow
  Calls = {c1, c2}
  Requests <- MCTwoRows
  Domains = {dom}
  Width = 4
  Transports = {t1, t2}
  KeyNames = {kA, kB}
  Balances = {1}
  EpochLength = 2
  MaxTime = 2
  MaxCids = 1
  EvictBatches = {0, 1}
  NoRequest = NoRequest
  NoBasis = NoBasis
  NoKey = NoKey
PROPERTIES MemoFollowsRotation ApprovalsKeepPromise EveryCallAnswered
CHECK_DEADLOCK FALSE
