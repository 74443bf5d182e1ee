SPECIFICATION Spec
CONSTANTS
  Keys = {"pen", "cap"}
  Opening <- MCOpening
  s1 = s1
  s2 = s2
  m1 = m1
  m2 = m2
  Sessions = {s1, s2}
  Counters = {1}
  Managers = {m1, m2}
  Quantities = {0, 1}
  Schemas = {"migrated", "queried"}
  MaxMoves = 1
  MaxEntries = 1
SYMMETRY Symmetry
INVARIANTS CountsTypeOK
PROPERTIES  ApprovedStays
CHECK_DEADLOCK FALSE
