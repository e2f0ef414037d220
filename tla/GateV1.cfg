SPECIFICATION FairSpec
CONSTANTS
  c1 = c1  c2 = c2  w1 = w1  w2 = w2  tok = tok  dom = dom
  t1 = t1  t2 = t2  x1 = x1  x2 = x2  X2 = X2  kA = kA  kB = kB
  Wallets = {w1, w2}
  Tokens = {tok}
  LowerHex <- MCLowerHex
  Transports = {t1, t2}
  Cids = {x1, x2, X2}
  Canon <- MCCanon
  Calls = {c1, c2}
  Requests <- MCRequests
  Balances = {1, 2}
  MaxTime = 1
  KeyNames = {kA}
  Thresholds = {0, 2}
  Domains = {dom}
  Width = 4
  MaxCids = 2
  MaxSpent = 2
  NoRequest = NoRequest
  NoPayload = NoPayload
  NoKey = NoKey
INVARIANTS TypeOK NonceSpentOnce AskedForEachRequest KeysAsAsked AttestationsTrue
PROPERTY EveryCallAnswered
CONSTRAINT OneKind
CHECK_DEADLOCK FALSE
