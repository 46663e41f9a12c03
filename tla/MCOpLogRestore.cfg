SPECIFICATION Spec
CONSTANTS
  Followers = {"f"}
  Leader = "leader"
  Keys = {"routes"}
  Values = {a, b}
  PushThreshold = 1
  ResyncThreshold = 2
  MaxSeq = 4
  MaxOps = 3
  Gated = {"f"}
  NoAnswer = NoAnswer
PROPERTIES PendingSurvivesRestore
