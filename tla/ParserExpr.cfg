SPECIFICATION Spec
CONSTANTS
  Supply <- ExprSupply
  MaxTokens = 7
  MAX_FUNC_PARAMS = 2
INVARIANTS
  TypeOK
  Precedence
  AstComplete
  DieHasMessage
  OverreadReported
  ListsBounded
  DepthBounded
  SourceOrder
