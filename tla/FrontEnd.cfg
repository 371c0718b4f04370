\* Four pieces: code around comments that hold brackets of the other kind or
\* quotes or span lines, two string constants in a line included; up to eight
\* tokens in an array that starts with two places, grows once and wraps when
\* it grows again; and up to three routines on copies.
CONSTANTS
  MaxPieces = 4
  Width = 3
  InitialSize = 2
  MaxDepth = 3
SPECIFICATION MCSpec
\* A source without tokens, a write outside the array, a look behind the list.
CHECK_DEADLOCK FALSE
INVARIANTS
  TokensAreTheCode
  LinesAreTheSources
  EachTokenOnce
  WritesInside
PROPERTY Ends
