CONSTANTS
  kBlockM = 2
  kBlockN = 2
  MaxQueries = 4
  MaxKeys = 8
  MaxSplitCount = 4
  AutoSplitKeys = 2
  PageQuantum = 2
  Calls <- ScratchCalls
  Metadata <- FullSequences
  Rounds <- MCRounds
  HeadDim = 256
  IntLimit = 2048
  Builds <- AnyBuild
SPECIFICATION Spec
INVARIANTS
  OutputsComplete
