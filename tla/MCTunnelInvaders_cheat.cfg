SPECIFICATION MCSpec
CONSTANTS
  Players <- Anyone
  Inputs <- DownOrNot
  Clocks <- NoOverflow
  MaxScore = 30
INVARIANT CheatRemovesHits
