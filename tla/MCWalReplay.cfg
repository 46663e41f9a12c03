CONSTANTS
  n1 = n1
  n2 = n2
  Nodes = {n1, n2}
  First = n1
  Cells = {c}
  Structure = structure
  Values = {0, 1}
  Blank = 0
  NoEntry = NoEntry
  MaxLsn = 3
  MaxChanges = 2
  MaxRestarts = 1
SPECIFICATION FairSpec
INVARIANTS
  TypeOK
  
PROPERTIES
  CellsNeverGoBack
  CursorNeverRegresses
  PlainEntriesAreReplayed
