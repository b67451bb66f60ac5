CONSTANTS
  i1 = i1
  i2 = i2
  i3 = i3
  m1 = m1
  m2 = m2
  k1 = k1
  k2 = k2
  Tables <- AllTables
  Ids = {i1, i2, i3}
  Merchants = {m1, m2}
  Keys = {k1, k2}
  Limit = 2
  MaxCalls = 4
SPECIFICATION Spec
CHECK_DEADLOCK FALSE
SYMMETRY Symmetry
INVARIANTS
  SameRows
  SameAnswers
