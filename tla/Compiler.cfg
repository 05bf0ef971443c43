SPECIFICATION Spec
CONSTANTS
  Supply <- ProgramSupply
  MaxTokens = 24
  MAX_FUNC_PARAMS = 1
  Num <- Bit
  Literals = {0, 1}
  Arith <- BitArith
  FuncNames = {"main"}
  ParamNames = {"x"}
  ParamLists <- OneOrNone
CONSTRAINT Bounds
INVARIANTS
  TextMeaning SwallowedErrorsStop CrashesExplained
