SPECIFICATION Spec
CONSTANTS
  Entries = {e1, e2, e3, e4}
  Lists = {playlist, other}
  NULL = NULL
  MaxPos = 5
SYMMETRY MCSymmetry
INVARIANTS
  TypeOK
  WellFormed
PROPERTIES
  KeepsOrder
  InsertLands
