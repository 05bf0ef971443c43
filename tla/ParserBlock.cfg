SPECIFICATION FairSpec
CONSTANTS
  Supply <- BlockSupply
  MaxTokens = 21
  MAX_FUNC_PARAMS = 2
CONSTRAINT OneKind
INVARIANTS
  StopsAtBraceOrEnd
  ListsBounded
  SourceOrder
PROPERTY
  Terminates
