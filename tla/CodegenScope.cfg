SPECIFICATION Spec
CONSTANTS
  Modes = {"eval", "emit"}
  Num <- Bit
  Literals = {1}
  Arith <- BitArith
  Ops = {"CMPLT"}
  FuncNames = {"main", "f"}
  ParamNames = {"x"}
  ParamLists <- ShortLists
  MaxArgs = 1
  Supply <- ScopeSupply
  MaxMore = 2
INVARIANTS
  TypeOK ScopeIsBuilder VerifierAgrees StaysValid AcceptsWellScoped DanglingFails
