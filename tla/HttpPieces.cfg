SPECIFICATION RequestSpec
CONSTANTS
  Heads <- MCHeads
INVARIANTS
  PiecesDoNotMatter
CHECK_DEADLOCK FALSE
