CONSTANTS
  MaxIncoming = 2
  HandlerMayFail = TRUE
  MaxConnections = 2
  MaxFaults = 3
  MaxMessages = 4
SPECIFICATION FairSpec
CHECK_DEADLOCK FALSE
INVARIANT TypeOK
INVARIANT NeverStranded
INVARIANT NoSocketLeaks
INVARIANT HeartbeatKept
INVARIANT ConnectedIsTrue
INVARIANT NeverOvercounted
PROPERTY ComesBack
