-------------------------- MODULE RaftSafetyProofs --------------------------
(***************************************************************************)
(* The theorems about Raft, for every cluster and every value of the       *)
(* bounds, put together from the lemmas about its steps.                   *)
(***************************************************************************)
EXTENDS RaftStepProofs, RaftElectionProofs, FiniteSetTheorems, WellFoundedInduction

-----------------------------------------------------------------------------
(* What the lemmas assume of numbers and of sets of nodes                  *)

\* The natural numbers are well ordered.
LEMMA LeastExists == Least
<1> SUFFICES ASSUME NEW S \in SUBSET Nat, S # {}
             PROVE  \E x \in S : \A y \in S : x <= y
  BY DEF Least
<1> DEFINE R == {ss \in Nat \X Nat : ss[1] < ss[2]}
<1>1. IsWellFoundedOn(R, Nat)
  BY NatLessThanWellFounded DEF OpToRel
<1>2. PICK x \in S : \A y \in S : <<y, x>> \notin R
  <2> HIDE DEF R
  <2> QED  BY <1>1, WFMin, Zenon
<1>3. ASSUME NEW y \in S  PROVE x <= y
  <2>1. <<y, x>> \in Nat \X Nat /\ <<y, x>>[1] = y /\ <<y, x>>[2] = x
    OBVIOUS
  <2>2. ~ (y < x)  BY <1>2, <2>1
  <2> QED  BY <2>2
<1> QED  BY <1>3

\* Two majorities share a node, a set with a majority in it is one, and a
\* cluster has more than one node.
LEMMA MajoritiesMeet == Majorities
<1>1. IsFiniteSet(Node) /\ Cardinality(Node) \in Nat /\ Majority \in Nat
  BY NodeAssumption, FS_CardinalityType DEF Majority
<1>2. ASSUME NEW i \in Node  PROVE Node \ {i} # {}
  <2> SUFFICES ASSUME Node \ {i} = {}  PROVE FALSE
    OBVIOUS
  <2>1. Node = {i}  OBVIOUS
  <2>2. Cardinality(Node) = 1  BY <2>1, FS_Singleton
  <2> QED  BY <2>2, NodeAssumption
<1>3. ASSUME NEW S \in SUBSET Node
      PROVE  IsFiniteSet(S) /\ Cardinality(S) \in Nat
  BY <1>1, FS_Subset, FS_CardinalityType
<1>4. ASSUME NEW S \in SUBSET Node, NEW T \in SUBSET Node,
             Cardinality(S) >= Majority, Cardinality(T) >= Majority
      PROVE  \E v \in Node : v \in S /\ v \in T
  <2>1. Cardinality(S) + Cardinality(T) > Cardinality(Node)
    BY <1>1, <1>3, <1>4 DEF Majority
  <2>2. S \cap T # {}
    BY <1>1, <2>1, FS_MajoritiesIntersect
  <2> QED  BY <2>2
<1>5. ASSUME NEW S \in SUBSET Node, NEW T \in SUBSET Node,
             S \subseteq T, Cardinality(S) >= Majority
      PROVE  Cardinality(T) >= Majority
  <2>1. Cardinality(S) <= Cardinality(T)  BY <1>3, <1>5, FS_Subset
  <2> QED  BY <1>1, <1>3, <1>5, <2>1
<1> QED  BY <1>1, <1>2, <1>4, <1>5, Zenon DEF Majorities

-----------------------------------------------------------------------------
(* Types and elections                                                     *)

\* The initial state is well-formed, and nobody has voted or leads.
LEMMA InitIInv == Init => IInv
BY InitType, InitElection DEF IInv

\* Every step keeps it so, and takes back no vote.
LEMMA NextIInv ==
  ASSUME IInv, [Next]_vars
  PROVE  IInv' /\ \A i \in Node : VoteStep(i)
<1>1. TypeInv'  BY LeastExists, NextType, Zenon DEF IInv
<1> QED  BY <1>1, MajoritiesMeet, NextElection, Zenon

\* Every variable keeps its type, and no log is ever empty.
THEOREM TypeCorrect == Spec => []TypeOK
<1>1. IInv /\ [Next]_vars => IInv'  BY NextIInv
<1>2. IInv => TypeOK  BY DEF IInv, TypeInv
<1> QED  BY InitIInv, <1>1, <1>2, PTL DEF Spec

\* The Index of an entry is its position in every log, file and request, and
\* raft-state always is what the node has in memory.
THEOREM EntriesStayInPlace == Spec => []EntriesInPlace
<1>1. IInv /\ [Next]_vars => IInv'  BY NextIInv
<1>2. IInv => EntriesInPlace  BY DEF IInv, TypeInv
<1> QED  BY InitIInv, <1>1, <1>2, PTL DEF Spec

\* The inductive invariant: every vote is kept, and whoever leads or has led a
\* term was given the votes of a majority in it.
THEOREM ElectionInvariant == Spec => []ElectionInv
<1>1. IInv /\ [Next]_vars => IInv'  BY NextIInv
<1>2. IInv => ElectionInv  BY DEF IInv
<1> QED  BY InitIInv, <1>1, <1>2, PTL DEF Spec

\* A term has at most one leader, in a cluster of any size, whatever is lost,
\* late, answered twice or restarted, and wherever in a handler a crash falls.
THEOREM OneLeaderPerTerm == Spec => []ElectionSafety
<1>1. IInv /\ [Next]_vars => IInv'  BY NextIInv
<1>2. IInv => ElectionSafety  BY MajoritiesMeet, OneLeader
<1> QED  BY InitIInv, <1>1, <1>2, PTL DEF Spec

\* No node forgets a term or a vote: what RequestVote answers survives crashes.
THEOREM VotesAreFinal == Spec => VoteOnce
<1>1. IInv /\ [Next]_vars => IInv'  BY NextIInv
<1>2. IInv /\ [Next]_vars => [\A i \in Node : VoteStep(i)]_vars  BY NextIInv
<1> QED  BY InitIInv, <1>1, <1>2, PTL DEF Spec, VoteOnce

=============================================================================
