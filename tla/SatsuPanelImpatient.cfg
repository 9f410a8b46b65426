SPECIFICATION Spec
CONSTANTS
  MaxLine = 2
  NLines = 2
  ProgChars = {"a"}
  InputLines <- MCTwoLines
  Patient = FALSE
  MaxRuns = 1
  MaxPuts = 1
  MaxReads = 1
  MaxSends = 2
INVARIANTS
  MutexHeld
PROPERTIES
  MailboxSpec
