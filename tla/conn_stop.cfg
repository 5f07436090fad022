CONSTANTS
  MaxConns = 1
  Backlog = 1
  Kinds = {"hosted"}
SPECIFICATION FairSpec
CHECK_DEADLOCK FALSE
PROPERTY HandlerEnds
