SPECIFICATION FairSpec
CONSTANTS
  GoClients = {g1}
  JavaClients = {}
  Java = java
  Nil = Nil
  N = 3
  Keys = {k1}
  MaxEvents = 2
  MaxFaults = 1
PROPERTY Linearizable
CHECK_DEADLOCK FALSE
