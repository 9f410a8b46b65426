SPECIFICATION CheckedSpec
CONSTANTS
  Programs <- MCRealSum
  Entry = "start"
  Blocks = {b1, b2, b3, b4, b5}
  MaxDepth = 3
  MaxSyms = 5
INVARIANTS
  RealsAreReal
