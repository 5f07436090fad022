CONSTANTS
  MaxConns = 3
  Backlog = 1
  Kinds = {"rpc", "daemon", "hosted"}
SPECIFICATION FairSpec
CHECK_DEADLOCK FALSE
INVARIANT TypeOK
INVARIANT NoLostWakeup
INVARIANT NeverThrown
INVARIANT OnItsWay
PROPERTY InOrder
PROPERTY Answered
PROPERTY ListenerEnds
PROPERTY CallsEnd
