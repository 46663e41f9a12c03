CONSTANTS
  a = a
  b = b
  Structure = Structure
  Writers = {"t1", "t2"}
  Workers = {"w1", "w2"}
  Cells = {a, b}
  Deltas <- SmallDeltas
  BatchSize = 3
  Loads = TRUE
  MaxVersion = 3
SPECIFICATION FairSpec
INVARIANTS
  TypeOK
  NothingStranded
  
  
PROPERTIES
  EveryDeltaLands
