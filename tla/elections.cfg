SPECIFICATION Spec
CONSTANTS
  n1 = n1
  n2 = n2
  n3 = n3
  Node = {n1, n2, n3}
  Nil = Nil
  MaxTerm = 2
  MaxIndex = 1
  MaxRestarts = 1
  MaxRaftState = 2
  TornSave = TRUE
  MaxElections = 2
  MaxRequests = 2
CONSTRAINT ElectionsFirst
SYMMETRY Symmetry
INVARIANT ElectionSafety
INVARIANT ElectionInv
INVARIANT EntriesInPlace
INVARIANT TypeOK
PROPERTY VoteOnce
CHECK_DEADLOCK FALSE
