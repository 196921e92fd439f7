SPECIFICATION Spec
CONSTANTS
  Calls = {c1, c2, c3}
  Other = Other
  Nil = Nil
  MaxTerm = 3
  MaxIndex = 2
  MaxRaftState = 2
  Timeouts = TRUE
  Kills = FALSE
SYMMETRY Symmetry
INVARIANT TypeOK
INVARIANT OwnResult
INVARIANT AppliedIsCommitted
INVARIANT NoStalePending
INVARIANT AppliedIsAnswered
CHECK_DEADLOCK FALSE
