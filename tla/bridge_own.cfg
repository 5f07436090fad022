CONSTANTS
  Prog = {}
  Server = {"s1", "s2"}
  Entry = {"s1", "s2", "?"}
  Listed = {"s1", "s2"}
  Key = {"k"}
  Value <- MCValue
  Bad <- MCBad
  Asks <- MCOwnAsks
  MaxServers = 2
  MaxPuts = 2
SPECIFICATION Spec
CHECK_DEADLOCK FALSE
PROPERTY OwnCallsWork
