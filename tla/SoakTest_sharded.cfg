SPECIFICATION SoakSpec
CONSTANTS
  main = main
  w1 = w1
  w2 = w2
  sen = sen
  k1 = k1
  k2 = k2
  Threads <- MCPair
  Main = main
  Keys <- MCKeys
  Hash <- MCHash
  Calls <- AllCalls
  Sentinel = sen
  SentinelTtl = 5
  TtlEpochs = 1
  MaxTick = 2
  LowSize = 2
  NumShards = 2
  FpSize = 2
  HiSize = 1
  H2Size = 2
  Ways = 1
  Size0 = 1
  AutoResize = TRUE
  Never = 15
  MaxEpoch <- MCMaxEpoch
  MaxSize = 2
  NoEntry = NoEntry
  NoValue = NoValue
VIEW View
INVARIANTS BucketsReachable StatisticsSound
PROPERTIES LenBracketed TtlAgreed
