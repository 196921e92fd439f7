SPECIFICATION FairSpecConflict
CONSTANTS
  n1 = n1
  n2 = n2
  n3 = n3
  Node = {n1, n2, n3}
  Nil = Nil
  MaxTerm = 3
  MaxIndex = 2
  MaxRestarts = 0
  MaxRaftState = 3
  TornSave = FALSE
  MaxElections = 1
  MaxRequests = 1
PROPERTY AllCatchUp
CHECK_DEADLOCK FALSE
