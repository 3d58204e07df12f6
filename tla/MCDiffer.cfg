CONSTANTS
  Token <- mc_similar
  MaxLen = 3
  AutojunkFrom = 3
  AutojunkShare = 100
SPECIFICATION Spec
INVARIANTS TranscriptIsAnEdit CruncherIsFresh ClosestPair LongestMatch
CHECK_DEADLOCK FALSE
