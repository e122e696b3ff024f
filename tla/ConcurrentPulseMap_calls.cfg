SPECIFICATION FairSpec
CONSTANTS
  t1 = t1
  t2 = t2
  Threads = {t1, t2}
  NoThread = NoThread
  k1 = k1
  k2 = k2
  k3 = k3
  v1 = v1
  v2 = v2
  v3 = v3
  NoKey = NoKey
  NoEntry = NoEntry
  NoValue = NoValue
  Keys <- MCKeys
  Values <- MCValues
  ShortKeys <- MCShortKeys
  ShortValues <- MCShortValues
  Undecodable <- MCUndecodable
  Hash <- MCHash
  H2 <- MCH2
  ExtFp <- MCExtFp
  Calls <- LockCalls
  StartBuckets = 2
  AutoResize = FALSE
  Modulus = 16
  BufferCap = 2
  DrainBatch = 1
  MaxDoublings = 2
  MaxCalls = 4
  SlotsPerBucket = 2
  MaxFreq = 1
  MaxRecency = 1
PROPERTIES CallsReturn
