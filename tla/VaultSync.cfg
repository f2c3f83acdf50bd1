CONSTANTS
  a = a
  b = b
  Replicas = {a, b}
  Absent = Absent
  Null = Null
  Nothing = Nothing
  MaxEvents = 3
  MaxWire = 1
SPECIFICATION Spec
SYMMETRY Symmetry
CHECK_DEADLOCK FALSE
INVARIANT AgreeAtRest
INVARIANT RepairKeeps
PROPERTY NeverOlder
