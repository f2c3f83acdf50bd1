CONSTANTS
  a = a
  b = b
  c = c
  d = d
  r1 = r1
  r2 = r2
  t1 = t1
  t2 = t2
  t3 = t3
  NoRoom = NoRoom
  Paths = {a, b, c}
  Rooms = {r1, r2}
  Tasks = {t1, t2}
  MaxQueued = 2
  MaxInFlight = 1
  MaxMessages = 3
  ManifestMayFail = TRUE
SPECIFICATION Spec
SYMMETRY Symmetry
INVARIANT TypeOK
INVARIANT QueueConsistent
INVARIANT InFlightTracked
INVARIANT WindowRespected
INVARIANT SentToOwnRoom
PROPERTY NothingLostSilently
