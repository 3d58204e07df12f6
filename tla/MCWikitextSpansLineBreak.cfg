CONSTANTS
  Piece <- mc_lines
  MaxPieces = 4
  REGEX_HELPER_PATTERN <- mc_line_break
SPECIFICATION Spec
INVARIANT TokensInPlace
CHECK_DEADLOCK FALSE
