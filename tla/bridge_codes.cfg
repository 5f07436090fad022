CONSTANTS
  Prog = {"p1", "p2"}
  Server = {"s1", "s2", "s3"}
  Entry = {"s1", "s2", "s3", "?"}
  Listed = {"s1", "s2"}
  Key = {"k"}
  Value <- MCValue
  Bad <- MCBad
  Asks <- MCAsks
  MaxServers = 1
  MaxPuts = 2
SPECIFICATION Spec
CHECK_DEADLOCK FALSE
PROPERTY GetAsDocumented
