SPECIFICATION Spec
CONSTANTS
  Followers = {"f", "g"}
  Leader = "leader"
  Keys = {"routes"}
  Values = {a, b}
  PushThreshold = 1
  ResyncThreshold = 2
  MaxSeq = 3
  MaxOps = 2
  Gated = {"f"}
  NoAnswer = NoAnswer
INVARIANTS
  TypeOK
  AckedIsLeaders
  
PROPERTIES
  LeaderLogIsStable
  LeaderWins
SYMMETRY ValueSymmetry
