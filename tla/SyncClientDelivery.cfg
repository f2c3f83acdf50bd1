CONSTANTS
  a = a
  b = b
  c = c
  d = d
  r1 = r1
  r2 = r2
  t3 = t3
  t1 = t1
  t2 = t2
  Paths = {a, b}
  Rooms = {r1}
  NoRoom = NoRoom
  Tasks = {t1, t2}
  MaxQueued = 2
  MaxInFlight = 1
  MaxMessages = 2
  ManifestMayFail = FALSE
SPECIFICATION FairSpec
PROPERTY DeliveredWhenStable
INVARIANT RepairRequestedSinceAbsence
PROPERTY RepairedWhenStable
