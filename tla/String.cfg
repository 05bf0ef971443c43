SPECIFICATION Spec
CONSTANTS
  Texts <- TwoTexts
  InitialSizes = {0, 1, 5}
  Counts = {0, 1, 2}
  SepLists <- TwoSepLists
  Limits = {0, 1, 2}
  Char = {"a", "b", ",", "7", "percent", "d", "s", "blank", "other", "null"}
  FormatChar = {"percent", "d", "s", "blank", "other"}
  Numbers <- TwoNumbers
  Scratch = 3
  NULL = NULL
  NUL = NUL
  Garbage = Garbage
  MaxText = 5
  MaxFormat = 6
CONSTRAINT
  Bounds
INVARIANT
  TypeOK
PROPERTIES
  ImplementsText FormatRight
