SPECIFICATION SpecDiverged
CONSTANTS
  n1 = n1
  n2 = n2
  n3 = n3
  Node = {n1, n2, n3}
  Nil = Nil
  MaxTerm = 4
  MaxIndex = 2
  MaxRestarts = 0
  MaxRaftState <- NoSnapshot
  TornSave = FALSE
  MaxElections = 2
  MaxRequests = 3
CONSTRAINT ElectionsOrEntries
ACTION_CONSTRAINT NoApply
INVARIANT EntriesInPlace
INVARIANT LogMatching
INVARIANT MatchIndexSound
INVARIANT CommitSafety
INVARIANT NoPanic
INVARIANT LeaderCompleteness
CHECK_DEADLOCK FALSE
