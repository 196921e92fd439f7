SPECIFICATION SpecElected
CONSTANTS
  n1 = n1
  n2 = n2
  n3 = n3
  Node = {n1, n2, n3}
  Nil = Nil
  MaxTerm = 2
  MaxIndex = 1
  MaxRestarts = 1
  MaxRaftState = 2
  TornSave = FALSE
  MaxElections = 1
  MaxRequests = 2
CONSTRAINT CrashesOrSnapshots
INVARIANT CommittedDurable
INVARIANT AppliedInOrder
PROPERTY ImplementsService
CHECK_DEADLOCK FALSE
