SPECIFICATION FairSpec
CONSTANTS
  Texts <- MCTexts
INVARIANTS
  NodesOk
  TreeOfText
  AcceptedNests
  ChildrenFit
  OverreadRejected
  GroupedAsListed
PROPERTIES
  Terminates
