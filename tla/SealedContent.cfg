SPECIFICATION Spec
CONSTANTS
  tok = tok  tokMixed = tokMixed  cidA = cidA  cidB = cidB
  Gates <- MCGates
  Requests <- MCRequests
  LowerHex <- MCLowerHex
  SafeMax = 3
  Balances = {0, 1}
  Caps = {0, 4}
  Times = {0, 1}
  KeyNames = {kA, kB}
  NoRecord = NoRecord  NoReading = NoReading  NoKey = NoKey
INVARIANTS TypeOK RecordsReadable OpensOnlyEarned
PROPERTY GrantedOpens
