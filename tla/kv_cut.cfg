CONSTANTS
  NServers = 3
  Client = {c1}
  Key = {k1}
  Value = {v1}
  NoValue = NoValue
  MaxReqs = 3
  MaxOutages = 2
  Outages = {"cut", "kill"}
SPECIFICATION Spec
CHECK_DEADLOCK FALSE
INVARIANT OneAlive
PROPERTY GivenUpForGood
SYMMETRY Symmetry
