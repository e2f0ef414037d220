SPECIFICATION FairSpec
CONSTANTS
  c1 = c1  c2 = c2  wal = wal  tok = tok  tokMixed = tokMixed  weth = weth  wethB = weth  eth = eth  bondA = bondA
  bondB = bondB  notBond = notBond  dom = dom  t1 = t1  t2 = t2  kA = kA  kB = kB
  Wallets = {wal}
  Tokens = {tok, tokMixed, weth}
  LowerHex <- MCLowerHex
  Transports = {t1, t2}
  Chains = {eth}
  ChainOf <- MCChainOf
  Contracts = {bondA, bondB, notBond}
  DefaultConfig <- MCDefaultConfig
  ReserveOf <- MCReserveOf
  UnitOf <- MCUnitOf
  Calls = {c1, c2}
  GateRequests <- MCRequests
  CapRequests = {}
  Overrides = {}
  Supplies = {150}
  Prices = {7}
  Balances = {0, 1}
  EpochLength = 2
  MaxTime = 2
  Batches = {1}
  KeyNames = {kA}
  CapTTL = 1
  ApprovalTTL = 2
  Thresholds = {0, 1}
  Epochs = {0, 1}
  Targets = {1, 2}
  Domains = {dom}
  Width = 4
  NoRow = NoRow
  NoSnapshot = NoSnapshot
  NoRequest = NoRequest
  NoBasis = NoBasis
  NoQuote = NoQuote
  NoWork = NoWork
  NoConfig = NoConfig
  NoUnit = NoUnit
  NoKey = NoKey
INVARIANTS TypeOK NonceSpentOnce ChunkKeysEarned
PROPERTIES SnapshotsKeepPromise EveryCallAnswered
CHECK_DEADLOCK FALSE
CONSTRAINT TwoNonces
