CONSTANTS
  NServers = 3
  Client = {c1, c2}
  Key = {k1}
  Value = {v1}
  NoValue = NoValue
  MaxReqs = 2
  MaxOutages = 1
  Outages = {"shutdown", "cut"}
SPECIFICATION FairSpec
CHECK_DEADLOCK FALSE
PROPERTY EveryCallEnds
PROPERTY EveryPutEnds
