SPECIFICATION Spec
CONSTANTS
  Programs <- MCBareForBody
  Entry = "start"
  Blocks = {b1, b2, b3, b4, b5, b6, b7, b8}
  MaxDepth = 4
  MaxSyms = 6
INVARIANTS
  NoFault
