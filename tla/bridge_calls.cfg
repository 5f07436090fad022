CONSTANTS
  Prog = {"p1", "p2"}
  Server = {"s1", "s2", "s3"}
  Entry = {"s1", "s2", "s3", "?"}
  Listed = {"s1", "s2"}
  Key = {"k"}
  Value <- MCValue
  Bad <- MCBad
  Asks <- MCAsks
  MaxServers = 2
  MaxPuts = 2
SPECIFICATION FairSpec
CHECK_DEADLOCK FALSE
INVARIANT TypeOK
PROPERTY PutsOnce
PROPERTY FailsForCause
PROPERTY ShutdownStops
PROPERTY OwnCallsFail
PROPERTY CallsEnd
