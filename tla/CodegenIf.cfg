SPECIFICATION Spec
CONSTANTS
  Modes = {"eval"}
  Num <- Bit
  Literals = {0, 1}
  Arith <- BitArith
  Ops = {"CMPLT"}
  FuncNames = {"main"}
  ParamNames = {"x"}
  ParamLists <- OneList
  MaxArgs = 1
  Supply <- IfSupply
  MaxMore = 0
INVARIANTS
  VerifierAgrees MeaningPreserved
