CONSTANTS
  r1 = r1
  r2 = r2
  Requests = {r1, r2}
  NumPages = 3
  MaxSteps = 3
  MaxNew = 2
  ShortQuery = 4
  LargestPage = 2
  PageSizes = {2}
  Window = 2048
  Services <- MCServices
SPECIFICATION Spec
INVARIANTS
  ReadsWhatWasWritten
  CallFitsBatch
  DocumentedIsServed
