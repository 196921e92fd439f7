SPECIFICATION FairSpec
CONSTANTS
  Calls = {c1, c2}
  Other = Other
  Nil = Nil
  MaxTerm = 3
  MaxIndex = 2
  MaxRaftState = 2
  Timeouts = FALSE
  Kills = TRUE
INVARIANT WaitingIsPending
PROPERTY ReaderProgress
PROPERTY CommittedIsApplied
 
CHECK_DEADLOCK FALSE
