SPECIFICATION FairSpec
CONSTANTS
  Alphabet = {"d", "e", "f", "i", "7", "1", "_", "newline", "+"}
  MaxSource = 6
  MAX_IDENT = 5
INVARIANTS
  TypeOK
  InBounds
  TokensTile
  LongestMatch
  NumbersRead
PROPERTIES
  ImplementsStream
  Terminates
