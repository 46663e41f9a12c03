SPECIFICATION Spec
CONSTANTS
  Nodes = {"a", "b", "c"}
  Chief = "a"
  ResyncThreshold = 1
  MaxPromotions = 1
  MaxRestarts = 0
  MaxRecords = 1
  NoUpdate = NoUpdate
INVARIANT
  OpIdsAreUnique
\* Nothing happens any more when no node is left that leads or announces.
CHECK_DEADLOCK FALSE
