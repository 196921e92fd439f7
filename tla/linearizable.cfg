SPECIFICATION FairSpec
CONSTANTS
  GoClients = {g1}
  JavaClients = {j1}
  Java = java
  Nil = Nil
  N = 3
  Keys = {k1}
  MaxEvents = 3
  MaxFaults = 2
INVARIANT TypeOK
PROPERTY LinearizableUnlessMisled
 
CHECK_DEADLOCK FALSE
