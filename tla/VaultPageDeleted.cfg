CONSTANTS
  Vaults = {a, b}
  Codes = {k, l}
  NoCode = NoCode
  Absent = Absent
  None = None
  StoreMayFail = FALSE
SPECIFICATION Spec
INVARIANT DisconnectedWithoutCode
