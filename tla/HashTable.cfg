SPECIFICATION Spec
CONSTANTS
  key1 = key1
  KEY1 = KEY1
  key2 = key2
  Keys = {key1, KEY1, key2}
  Lower <- LowerCase
  Data = {d1, d2, d3}
  NULL = NULL
  Hashes <- TwoHashes
  Default <- Spread
  Sizes = {1}
  Options <- FewOptions
  Toggled = {"FROZEN_UNTIL_GROWS"}
  Thresholds <- FewThresholds
  MaxEntries = 3
  MaxOther = 1
CONSTRAINT Apart
SYMMETRY Sym
INVARIANTS
  TypeOK Placed Owned
PROPERTIES
  CopyExact LoadKept IterationExact ImplementsMap
