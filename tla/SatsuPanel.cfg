SPECIFICATION FairSpec
CONSTANTS
  MaxLine = 2
  NLines = 3
  ProgChars = {"a"}
  InputLines <- MCLines
  Patient = TRUE
  MaxRuns = 2
  MaxPuts = 3
  MaxReads = 2
  MaxSends = 2
INVARIANTS
  NoOverflow
  OutputComplete
PROPERTIES
  MutexFreed
  LineArrives
