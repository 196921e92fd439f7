-------------------------------- MODULE MCRSM --------------------------------
(* Instances of RSM for TLC.                                               *)
EXTENDS RSM, TLC

\* MaxRaftState of a server that never takes a snapshot
NoSnapshot == -1

Symmetry == Permutations(Calls)

=============================================================================
