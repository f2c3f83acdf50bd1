CONSTANTS
  c1 = c1
  c2 = c2
  c3 = c3
  r1 = r1
  r2 = r2
  Health = Health
  Nobody = Nobody
  Conns = {c1, c2}
  Rooms = {r1, r2}
  MaxRooms = 2
  MaxPeersPerRoom = 2
  Unreachable = {c1, c2}
  StartLinks = {"backoff", "up"}
  RedisMayFail = FALSE
  OthersFillRooms = FALSE
  RequestsMayAbort = FALSE
SPECIFICATION Spec
SYMMETRY Symmetry
CHECK_DEADLOCK FALSE
INVARIANT ServedRoomsSubscribed
INVARIANT SubscriptionsInUse
INVARIANT RecoveryCatchesUp
INVARIANT NoGhostMember
