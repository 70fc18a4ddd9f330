CONSTANTS
  kBlockM = 2
  kBlockN = 2
  MaxQueries = 4
  MaxKeys = 8
  MaxSplitCount = 4
  AutoSplitKeys = 2
  PageQuantum = 2
  Calls <- EmptyTileCalls
  Metadata <- MCMetadata
  Rounds <- MCRounds
  HeadDim = 256
  IntLimit = 4096
  Builds <- NarrowBuild
SPECIFICATION Spec
INVARIANTS
  LseComplete
