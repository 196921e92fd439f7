SPECIFICATION SpecLagging
CONSTANTS
  n1 = n1
  n2 = n2
  n3 = n3
  Node = {n1, n2, n3}
  Nil = Nil
  MaxTerm = 2
  MaxIndex = 2
  MaxRestarts = 1
  MaxRaftState = 2
  TornSave = TRUE
  MaxElections = 0
  MaxRequests = 1
CONSTRAINT Bounded
INVARIANT AppliedInOrder
CHECK_DEADLOCK FALSE
