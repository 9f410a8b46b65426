SPECIFICATION Spec
CONSTANTS
  MaxLine = 2
  NLines = 3
  ProgChars = {"a"}
  InputLines <- MCShortLines
  Patient = FALSE
  MaxRuns = 1
  MaxPuts = 1
  MaxReads = 1
  MaxSends = 1
INVARIANTS
  PromptVisible
