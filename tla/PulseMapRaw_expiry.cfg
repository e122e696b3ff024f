SPECIFICATION Spec
CONSTANTS
  k1 = k1
  k2 = k2
  k3 = k3
  k4 = k4
  v1 = v1
  v2 = v2
  NoKey = NoKey
  NoEntry = NoEntry
  NoValue = NoValue
  Keys <- MCTwoBuckets
  Values <- MCOneValue
  ShortKeys <- MCShortKeys
  ShortValues <- MCShortValues
  Hash <- MCHash
  H2 <- MCH2
  ExtFp <- MCExtFp
  Ttls <- MCTtls
  Modulus = 16
  MaxEpoch = 5
  NumBuckets = 2
  SlotsPerBucket = 1
  MaxFreq = 1
  MaxRecency = 1
VIEW View
PROPERTIES ImplementsLossyMap
