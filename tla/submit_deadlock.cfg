SPECIFICATION FairSpec
CONSTANTS
  Calls = {c1}
  Other = Other
  Nil = Nil
  MaxTerm = 1
  MaxIndex = 1
  MaxRaftState <- NoSnapshot
  Timeouts = TRUE
  Kills = FALSE
PROPERTY EverySubmitReturns
CHECK_DEADLOCK FALSE
