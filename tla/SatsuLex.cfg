SPECIFICATION FairSpec
CONSTANTS
  Texts <- MCTexts
  Letters <- MCLetters
  Digits <- MCDigits
  Behind <- MCBehind
  Keyword <- MCKeyword
  MaxIdent = 3
  MaxString = 2
INVARIANTS
  TokensOrdered
  TokensAreLongest
  NothingSkipped
  RejectedForNothing
  StringsReadWhole
PROPERTIES
  Ends
