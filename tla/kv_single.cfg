CONSTANTS
  NServers = 3
  Client = {c1}
  Key = {k1, k2}
  Value = {v1, v2}
  NoValue = NoValue
  MaxReqs = 4
  MaxOutages = 0
  Outages = {}
SPECIFICATION Spec
CHECK_DEADLOCK FALSE
SYMMETRY Symmetry
INVARIANT TypeOK
INVARIANT IInv
INVARIANT Converged
INVARIANT ClocksCover
INVARIANT NoneRaised
PROPERTY NeverOlder
PROPERTY ImplementsMap
