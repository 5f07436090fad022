CONSTANTS
  NServers = 2
  Client = {c1}
  Key = {k1, k2}
  Value = {v1}
  NoValue = NoValue
  MaxReqs = 4
  MaxOutages = 2
  Outages = {"idle"}
SPECIFICATION Spec
CHECK_DEADLOCK FALSE
PROPERTY NeverOlder
