CONSTANTS
  Piece <- mc_nested
  MaxPieces = 5
  REGEX_HELPER_PATTERN <- mc_line_break
SPECIFICATION Spec
INVARIANT NoSpanInTemplate
CHECK_DEADLOCK FALSE
