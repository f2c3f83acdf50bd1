CONSTANTS
  a = a
  b = b
  c = c
  d = d
  r1 = r1
  r2 = r2
  t3 = t3
  t1 = t1
  t2 = t2
  NoRoom = NoRoom
  Paths = {a}
  Rooms = {r1}
  Tasks = {t1, t2}
  MaxQueued = 1
  MaxInFlight = 1
  MaxMessages = 1
  ManifestMayFail = TRUE
SPECIFICATION Spec
INVARIANT RepairRequestedSinceAbsence
