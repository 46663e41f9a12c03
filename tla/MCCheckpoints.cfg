CONSTANTS
  a = a
  c1 = c1
  c2 = c2
  c3 = c3
  v1 = v1
  v2 = v2
  Columns = {a}
  Seeded = {a}
  Values = {v1, v2}
  Labels = {c1, c2, c3}
  NoParent = NoParent
  KeyError = KeyError
  FullInterval = 3
  AutoMax = 1
  MaxOps = 1
  MaxLsn = 3
  MaxCalls = 4
SPECIFICATION Spec
SYMMETRY Symmetry
INVARIANTS
  TypeOK
  
PROPERTY
  PruneKeepsSuffix
