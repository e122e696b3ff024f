SPECIFICATION Spec
CONSTANTS
  Threads = {t1, t2}
  Types <- MCTypes
  Samples <- MCSamples
  Hash <- MCHash
  SlotsPerBucket = 2
  H2Bits = 1
  FreqBits = 1
  RecencyBits = 2
  MaxFreq = 1
  MaxRecency = 3
  Lanes = 4
  ByteBits = 6
  LenBits = 2
  FpBytes = 1
  U32Size = 9
  MaxHits = 2
SYMMETRY Symmetry
INVARIANTS WordIsRecord SearchesAgree ReadsBack LookupExact
