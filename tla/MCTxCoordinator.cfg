CONSTANTS
  col1 = col1
  col2 = col2
  t1 = t1
  t2 = t2
  Callers = {t1, t2}
  Columns = {col1, col2}
  Rows = {0}
  Values = {0, 1}
  Blank = 0
  NoTx = NoTx
  Requests <- SmallRequests
  AppendFaults = TRUE
  Unlogged = TRUE
  MaxLsn = 3
SPECIFICATION FairSpec
INVARIANTS
  TypeOK
  LockTablesAgree
  Isolation
  WriteNodeMatchesLog
  LogChains
  ScheduledAreCommitted
PROPERTIES
  ImplementsStore
  TransactionsEnd
