SPECIFICATION Spec
CONSTANTS
  Replica = {r1, r2}
  Keys = {k1, k2}
  Values = {v1, v2}
  Versions = {0, 1, 2}
  MaxChosen = 3
SYMMETRY Symmetry
INVARIANT ReplicasAgree
INVARIANT Agreement
PROPERTY VersionsGrow
