CONSTANTS
  kBlockN = 8
  kGmemRowsPerThread = 2
  PageSizes = {2, 4, 6, 8, 10, 16}
  MaxKeys = 26
SPECIFICATION Spec
INVARIANTS
  TypeOK
  RowsFromTheirPage
  NoStaleV
  LookupNearSequence
