CONSTANTS
  Piece <- mc_pieces
  MaxPieces = 4
  REGEX_HELPER_PATTERN <- mc_line_break
SPECIFICATION Spec
INVARIANTS TextPreserved SpansBalanced TokensInPlace RosterIsExact NoSpanInFlatTemplate
PROPERTY InjectionAdvances
