CONSTANTS
  NServers = 2
  Client = {c1}
  Key = {k1}
  Value = {v1}
  NoValue = NoValue
  MaxReqs = 1
  MaxOutages = 1
  Outages = {"kill"}
SPECIFICATION Spec
CHECK_DEADLOCK FALSE
INVARIANT NoneRaised
