CONSTANTS
  Ids = {a, b}
  Dirs = {d}
  Paths = {p}
  Texts = {x}
  Tasks = {s, t, u}
  None = None
  Missing = Missing
  Empty = Empty
  HasPicker = TRUE
  StorageMayFail = TRUE
  ChangesApart = FALSE
  MaxCalls = 3
SPECIFICATION Spec
CHECK_DEADLOCK FALSE
INVARIANT TypeOK
INVARIANT ChangesAgree
INVARIANT ActiveRestorable
PROPERTY NeverEmptied
PROPERTY ImplementsVaultFiles
SYMMETRY Symmetry
