SPECIFICATION CheckedSpec
CONSTANTS
  Programs <- MCCallVariable
  Entry = "start"
  Blocks = {b1, b2, b3, b4, b5}
  MaxDepth = 3
  MaxSyms = 5
INVARIANTS
  CalledIsFunction
