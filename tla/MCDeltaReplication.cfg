CONSTANTS
  Readers = {r1}
  r1 = r1
  Window = 1
  Keep = 1
  MaxLsn = 3
  MaxSyncs = 2
SPECIFICATION FairSpec
INVARIANTS
  TypeOK
  PointerCoversReceived
  RecentAppliedOnce
  
PROPERTY
  PointerCatchesUp
