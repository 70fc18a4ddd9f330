CONSTANTS
  kBlockM = 2
  kBlockN = 2
  MaxQueries = 4
  MaxKeys = 20
  MaxSplitCount = 4
  AutoSplitKeys = 2
  PageQuantum = 2
  ShortQuery = 2
  ChunkTokens = 3
  QueryTokens = 4
  CausalSplits = 4
  WindowSplits = 2
  Batches <- MCBatches
SPECIFICATION FairSpec
INVARIANTS
  OutputIsAttention
  CallsWithinEnvelope
  RefusedOnlyLongSpecial
PROPERTIES
  CallEnds
