CONSTANTS
  Readers = {r1}
  r1 = r1
  Window = 1
  Keep = 1
  MaxLsn = 3
  MaxSyncs = 0
SPECIFICATION Spec
INVARIANT
  NoSilentLoss
