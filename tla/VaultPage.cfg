CONSTANTS
  Vaults = {a, b, c}
  Codes = {k, l}
  NoCode = NoCode
  Absent = Absent
  None = None
  StoreMayFail = TRUE
SPECIFICATION Spec
INVARIANT TypeOK
INVARIANT PageAgrees
INVARIANT StaysHome
INVARIANT ListMatchesStore
SYMMETRY Symmetry
