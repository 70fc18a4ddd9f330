CONSTANTS
  kNWarps = 2
  LaneRows = 4
  QuadSize = 2
  kBlockM = 16
  kBlockN = 16
  CombineRows = 2
  kMaxSplits = 16
  Padding = {0, 3}
  Tiles <- MCTiles
SPECIFICATION Spec
INVARIANTS
  NoSharedRace
  QuadAgrees
  ResultIsAttention
PROPERTIES
  ImplementsSplitTile
