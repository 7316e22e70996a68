\* Texts of each alphabet grow piece by piece, or documents of two variables
\* and three values are built, copied, written and read.
SPECIFICATION MCSpec
CONSTANTS
  Pieces <- MCPieces
  MaxPieces <- MCMaxPieces
  x1 = x1
  x2 = x2
  c1 = c1
  c2 = c2
  c3 = c3
  Var = {x1, x2}
  Cell = {c1, c2, c3}
  Names <- MCNames
  Scalars <- MCScalars
  MaxIndex = 2
  Parsed <- MCParsed
  Handed <- MCHanded
  Unicode <- MCUnicode
  IntDigits = 4
  MaxExponent = 9
  MaxInt = 10
  Narrow = 4
SYMMETRY MCSymmetry
INVARIANTS
  StandardRead
  Reread
  NothingLost
  JsonTypeOK
  RoundTrip
  CutRefused
PROPERTIES
  OneDocument
\* a text does not grow for ever
CHECK_DEADLOCK FALSE
