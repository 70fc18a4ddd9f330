CONSTANTS
  w1 = w1
  w2 = w2
  Warps = {w1, w2}
  MaxBlocks = 4
SPECIFICATION FairSpec
INVARIANTS
  TypeOK
  ProductReadsItsTile
  BarriersMatch
  OutputStaged
  QuietAtTheEnd
PROPERTIES
  ImplementsTileStream
