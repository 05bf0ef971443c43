SPECIFICATION Spec
CONSTANTS
  Supply <- DefSupply
  MaxTokens = 14
  MAX_FUNC_PARAMS = 2
INVARIANT
  TooManyParamsRejected
