----------------------------- MODULE MCReplicas -----------------------------
(* An instance of Replicas for TLC. *)
EXTENDS Replicas, TLC

Symmetry ==
  Permutations(Replica) \cup Permutations(Keys) \cup Permutations(Values)

=============================================================================
