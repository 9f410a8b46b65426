SPECIFICATION Spec
CONSTANTS
  Texts <- MCOperators
INVARIANTS
  OperatorsAsListed
