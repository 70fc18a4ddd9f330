CONSTANTS
  kBlockM = 4
  kBlockN = 2
  MaxQ = 5
  MaxK = 9
  MaxSplits = 3
  Windows = {0, 1, 3}
  GroupSizes = {1, 2}
  Tiles <- MCTiles
SPECIFICATION FairSpec
INVARIANTS
  TypeOK
  FoldedAreVisible
  NoNaN
  SplitsDisjoint
  ResultIsAttention
PROPERTIES
  Termination
