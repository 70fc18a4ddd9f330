CONSTANTS
  e1 = e1
  e2 = e2
  f1 = f1
  f2 = f2
  Exporters = {e1, e2}
  Files = {f1, f2}
  MaxKills = 1
  MaxBadCopies = 2
SPECIFICATION FairExportSpec
INVARIANTS
  TypeOK
  PublishedIsComplete
  SuccessMeansPublished
  NoLitter
PROPERTIES
  PublishedOnce
  AllExit
