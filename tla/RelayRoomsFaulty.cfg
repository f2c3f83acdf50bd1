CONSTANTS
  c1 = c1
  c2 = c2
  c3 = c3
  r1 = r1
  r2 = r2
  Health = Health
  Nobody = Nobody
  Conns = {c1, c2}
  Rooms = {r1}
  MaxRooms = 1
  MaxPeersPerRoom = 2
  Unreachable = {c1}
  StartLinks = {"backoff"}
  RedisMayFail = TRUE
  OthersFillRooms = TRUE
  RequestsMayAbort = TRUE
SPECIFICATION FairSpec
CHECK_DEADLOCK FALSE
INVARIANT TypeOK
INVARIANT RegistryHoldsLiving
INVARIANT GateExact
PROPERTY NobodyStuck
