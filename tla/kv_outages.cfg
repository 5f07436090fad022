CONSTANTS
  NServers = 3
  Client = {c1}
  Key = {k1, k2}
  Value = {v1, v2}
  NoValue = NoValue
  MaxReqs = 3
  MaxOutages = 1
  Outages = {"kill", "idle", "shutdown"}
SPECIFICATION Spec
CHECK_DEADLOCK FALSE
INVARIANT PeersKeepUp
INVARIANT TimeIdentifiesPut
INVARIANT OneBusy
INVARIANT NoneStuck
INVARIANT OutageInv
SYMMETRY Symmetry
