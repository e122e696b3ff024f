SPECIFICATION Spec
CONSTANTS
  k1 = k1
  k2 = k2
  k3 = k3
  k4 = k4
  v1 = v1
  v2 = v2
  NoKey = NoKey
  NoEntry = NoEntry
  NoValue = NoValue
  Keys <- MCKeys
  Values <- MCValues
  ShortKeys <- MCShortKeys
  ShortValues <- MCShortValues
  Hash <- MCHash
  H2 <- MCH2
  ExtFp <- MCExtFp
  Ttls <- MCFewTtls
  Modulus = 16
  MaxEpoch = 3
  NumBuckets = 2
  SlotsPerBucket = 2
  MaxFreq = 1
  MaxRecency = 1
VIEW View
INVARIANTS TypeOK SlabOwned CountExact KeysUnique
