SPECIFICATION Spec
CONSTANTS
  Supply <- DefSupply
  MaxTokens = 8
  MAX_FUNC_PARAMS = 2
INVARIANT
  ErrorsAreFatal
