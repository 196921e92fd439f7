------------------------- MODULE RaftElectionProofs -------------------------
(***************************************************************************)
(* No node votes twice in a term, and a term has at most one leader.       *)
(***************************************************************************)
EXTENDS RaftElection, TLAPS

IInv == TypeInv /\ ElectionInv

-----------------------------------------------------------------------------
(* Votes and majorities                                                    *)

\* Facts about the size of sets of nodes, which the lemmas below take as a
\* hypothesis; they are proved where the theorems are put together.
Majorities ==
  /\ Majority \in Nat
  /\ \A i \in Node : Node \ {i} # {}
  /\ \A S, T \in SUBSET Node :
       Cardinality(S) >= Majority /\ Cardinality(T) >= Majority
         => \E v \in Node : v \in S /\ v \in T
  /\ \A S, T \in SUBSET Node :
       S \subseteq T /\ Cardinality(S) >= Majority => Cardinality(T) >= Majority

\* A message is of the kind its type says.
LEMMA KindOf ==
  ASSUME TypeInv, NEW m \in msgs
  PROVE  /\ m.type = "RequestVote" => m \in RequestVoteArgs
         /\ m.type = "RequestVoteReply" => m \in RequestVoteReplies
         /\ m.type = "AppendEntries" => m \in AppendEntriesArgs
         /\ m.type = "AppendEntriesReply" => m \in AppendEntriesReplies
         /\ m.type = "InstallSnapshot" => m \in InstallSnapshotArgs
         /\ m.type = "InstallSnapshotReply" => m \in InstallSnapshotReplies
BY DEF TypeInv, TypeOK, EnvTypes, Message, RequestVoteArgs, RequestVoteReplies,
       AppendEntriesArgs, AppendEntriesReplies, InstallSnapshotArgs,
       InstallSnapshotReplies

\* A vote that is in a message has a term.
LEMMA GrantedTerm ==
  ASSUME NEW v, NEW t, NEW c, granted(v, t, c)
  PROVE  t \in terms
BY DEF granted, terms

\* Votes are never unsaid,
LEMMA GrantedStays ==
  ASSUME msgs \subseteq msgs', NEW v, NEW t, NEW c, granted(v, t, c)
  PROVE  granted(v, t, c)'
BY DEF granted

\* and neither are elections.
LEMMA ElectedStays ==
  ASSUME Majorities, msgs \subseteq msgs', NEW t, NEW c, elected(t, c)
  PROVE  elected(t, c)'
<1> DEFINE S == {v \in Node : granted(v, t, c)}
           T == {v \in Node : granted(v, t, c)'}
<1>1. S \subseteq T /\ S \in SUBSET Node /\ T \in SUBSET Node
  BY GrantedStays
<1>2. Cardinality(S) >= Majority  BY DEF elected
<1>3. Cardinality(T) >= Majority
  <2> HIDE DEF S, T
  <2> QED  BY <1>1, <1>2, Zenon DEF Majorities
<1> QED  BY <1>3 DEF elected, Majority

-----------------------------------------------------------------------------
(* Steps that cast no vote, count none and start no election               *)

Quiet ==
  /\ \A v \in Node : VoteStep(v)
  /\ \A v \in Node : state'[v] = "Candidate" =>
       /\ state[v] = "Candidate" /\ currentTerm'[v] = currentTerm[v]
       /\ grantedVotes'[v] = grantedVotes[v]
  /\ \A v \in Node : state'[v] = "Leader" =>
       state[v] = "Leader" /\ currentTerm'[v] = currentTerm[v]
  /\ msgs \subseteq msgs'
  /\ \A m \in msgs' \ msgs :
       /\ m.type # "RequestVote"
       /\ m.type = "RequestVoteReply" => ~ m.voteGranted
       /\ m.type \in {"AppendEntries", "InstallSnapshot"} =>
            m.from \in Node /\ state[m.from] = "Leader" /\ m.term = currentTerm[m.from]

\* Every leadership after a step was one before it, or is new in this one.
LEMMA LeadershipsAfter ==
  ASSUME Majorities, ElectionInv, msgs \subseteq msgs',
         \A m \in msgs' \ msgs : m.type \in {"AppendEntries", "InstallSnapshot"} =>
           m.from \in Node /\ state[m.from] = "Leader" /\ m.term = currentTerm[m.from],
         \A v \in Node : state'[v] = "Leader" =>
           \/ state[v] = "Leader" /\ currentTerm'[v] = currentTerm[v]
           \/ \E t : t = currentTerm'[v] /\ elected(t, v)'
  PROVE  \A x \in leaderships' : elected(x[1], x[2])'
<1>1. ASSUME NEW v \in Node, state[v] = "Leader", NEW t, t = currentTerm[v]
      PROVE  elected(t, v)'
  <2>1. <<currentTerm[v], v>> \in leaderships  BY <1>1 DEF leaderships
  <2>2. elected(t, v)  BY <1>1, <2>1 DEF ElectionInv
  <2> QED  BY <2>2, ElectedStays
<1>2. ASSUME NEW v \in Node, state'[v] = "Leader", NEW t, t = currentTerm'[v]
      PROVE  elected(t, v)'
  BY <1>1, <1>2
<1>3. ASSUME NEW m \in msgs', m.type \in {"AppendEntries", "InstallSnapshot"}
      PROVE  elected(m.term, m.from)'
  <2>1. CASE m \in msgs
    <3>1. <<m.term, m.from>> \in leaderships  BY <1>3, <2>1 DEF leaderships
    <3>2. elected(m.term, m.from)  BY <3>1 DEF ElectionInv
    <3> QED  BY <3>2, ElectedStays
  <2>2. CASE m \notin msgs
    BY <1>1, <1>3, <2>2
  <2> QED  BY <2>1, <2>2
<1> SUFFICES ASSUME NEW x \in leaderships'  PROVE elected(x[1], x[2])'
  OBVIOUS
<1>4. CASE \E v \in Node : state'[v] = "Leader" /\ x = <<currentTerm'[v], v>>
  BY <1>2, <1>4
<1>5. CASE \E m \in msgs' : /\ m.type \in {"AppendEntries", "InstallSnapshot"}
                            /\ x = <<m.term, m.from>>
  BY <1>3, <1>5
<1> QED  BY <1>4, <1>5 DEF leaderships

\* A quiet step preserves the invariant.
LEMMA QuietStep ==
  ASSUME Majorities, IInv, TypeInv', Quiet
  PROVE  ElectionInv'
<1>1. \A v, t, c : granted(v, t, c)' => granted(v, t, c)
  BY DEF Quiet, granted
<1>2. msgs \subseteq msgs'  BY DEF Quiet
<1>3. VotesKept'
  <2> SUFFICES ASSUME NEW t \in terms', NEW v \in Node, NEW c \in Node,
                      granted(v, t, c)'
               PROVE  /\ t <= currentTerm'[v]
                      /\ t = currentTerm'[v] => votedFor'[v] = c
                      /\ \A d \in Node : granted(v, t, d)' => c = d
    BY DEF VotesKept
  <2>1. granted(v, t, c) /\ t \in terms  BY <1>1, GrantedTerm
  <2>2. /\ t <= currentTerm[v]
        /\ t = currentTerm[v] => votedFor[v] = c
        /\ \A d \in Node : granted(v, t, d) => c = d
    BY <2>1 DEF IInv, ElectionInv, VotesKept
  <2>3. t \in Nat /\ currentTerm[v] \in Nat /\ currentTerm'[v] \in Nat
        /\ currentTerm'[v] >= currentTerm[v]
    <3>1. t \in Nat
      <4>1. PICK m \in msgs : t = m.term  BY <2>1 DEF terms
      <4>2. m \in Message  BY DEF IInv, TypeInv, TypeOK, EnvTypes
      <4> QED  BY <4>1, <4>2 DEF Message, RequestVoteArgs, RequestVoteReplies,
             AppendEntriesArgs, AppendEntriesReplies, InstallSnapshotArgs,
             InstallSnapshotReplies
    <3>2. currentTerm \in [Node -> Nat] /\ currentTerm' \in [Node -> Nat]
      BY DEF IInv, TypeInv, TypeOK, TermTypes
    <3> QED  BY <3>1, <3>2 DEF Quiet, VoteStep
  <2>4. c # Nil  BY NodeAssumption
  <2>5. t = currentTerm'[v] => votedFor'[v] = c
    BY <2>2, <2>3, <2>4 DEF Quiet, VoteStep
  <2> QED  BY <1>1, <2>2, <2>3, <2>5
<1>4. VotesCounted'
  BY <1>2, GrantedStays DEF IInv, ElectionInv, VotesCounted, Quiet
<1>5. \A x \in leaderships' : elected(x[1], x[2])'
  BY <1>2, LeadershipsAfter DEF Quiet, IInv
<1> QED  BY <1>3, <1>4, <1>5 DEF ElectionInv

\* What a step has to do for the invariant and for its votes.
ElectionStep == ElectionInv' /\ \A v \in Node : VoteStep(v)

\* Nodes that a step leaves alone.
LEMMA OtherNodes ==
  ASSUME TypeInv, NEW v \in Node,
         currentTerm'[v] = currentTerm[v], votedFor'[v] = votedFor[v]
  PROVE  VoteStep(v)
<1>1. currentTerm[v] \in Nat  BY DEF TypeInv, TypeOK, TermTypes
<1> QED  BY <1>1 DEF VoteStep

\* Steps of a leader, of the applier and of the service, and refusals.
LEMMA NoElection ==
  ASSUME Majorities, IInv, TypeInv', UNCHANGED <<termVars, state, grantedVotes>>,
         msgs \subseteq msgs',
         \A m \in msgs' \ msgs :
           /\ m.type # "RequestVote"
           /\ m.type = "RequestVoteReply" => ~ m.voteGranted
           /\ m.type \in {"AppendEntries", "InstallSnapshot"} =>
                m.from \in Node /\ state[m.from] = "Leader" /\ m.term = currentTerm[m.from]
  PROVE  ElectionStep
<1>1. \A v \in Node : VoteStep(v)
  BY OtherNodes DEF IInv, termVars
<1>2. Quiet  BY <1>1 DEF Quiet, termVars
<1> QED  BY <1>1, <1>2, QuietStep DEF ElectionStep

\* A node becomes a follower, in its term with its vote or in a later one.
LEMMA StepDown ==
  ASSUME Majorities, IInv, TypeInv', NEW i \in Node, NEW t \in Nat, NEW v,
         currentTerm' = [currentTerm EXCEPT ![i] = t],
         votedFor' = [votedFor EXCEPT ![i] = v],
         state' = [state EXCEPT ![i] = "Follower"],
         \A j \in Node \ {i} : grantedVotes'[j] = grantedVotes[j],
         \/ t > currentTerm[i]
         \/ t = currentTerm[i] /\ v = votedFor[i],
         msgs \subseteq msgs',
         \A m \in msgs' \ msgs : m.type \in {"AppendEntriesReply", "InstallSnapshotReply"}
  PROVE  ElectionStep
<1>1. /\ currentTerm \in [Node -> Nat] /\ votedFor \in [Node -> Node \cup {Nil}]
      /\ state \in [Node -> {"Follower", "Candidate", "Leader"}]
  BY DEF IInv, TypeInv, TypeOK, TermTypes, RoleTypes
<1>2. VoteStep(i)  BY <1>1 DEF VoteStep
<1>3. \A j \in Node \ {i} : /\ currentTerm'[j] = currentTerm[j]
                            /\ votedFor'[j] = votedFor[j] /\ state'[j] = state[j]
  BY <1>1
<1>4. \A j \in Node : VoteStep(j)
  BY <1>2, <1>3, OtherNodes DEF IInv
<1>5. state'[i] = "Follower"  BY <1>1
<1>6. Quiet  BY <1>3, <1>4, <1>5 DEF Quiet
<1> QED  BY <1>4, <1>6, QuietStep DEF ElectionStep

\* Stepping down on a reply of a later term is such a step.
LEMMA HigherTermElection ==
  ASSUME Majorities, IInv, TypeInv', NEW i \in Node, NEW t \in Nat, t > currentTerm[i],
         handleHigherTerm(i, t), msgs' = msgs
  PROVE  ElectionStep
BY StepDown, Zenon DEF handleHigherTerm

\* So is accepting a request of a leader.
LEMMA FollowLeaderElection ==
  ASSUME Majorities, IInv, TypeInv', NEW m, m.to \in Node, m.term \in Nat, followLeader(m),
         msgs \subseteq msgs',
         \A x \in msgs' \ msgs : x.type \in {"AppendEntriesReply", "InstallSnapshotReply"}
  PROVE  ElectionStep
<1>1. currentTerm[m.to] \in Nat  BY DEF IInv, TypeInv, TypeOK, TermTypes
<1>2. \/ m.term > currentTerm[m.to]
      \/ m.term = currentTerm[m.to] /\ voteBefore(m.to, m.term) = votedFor[m.to]
  BY <1>1 DEF followLeader, voteBefore
<1>3. PICK v : v = voteBefore(m.to, m.term)  OBVIOUS
<1> QED  BY <1>2, <1>3, StepDown, Zenon DEF followLeader

\* So is a start from a file that has the term and the vote.
LEMMA BootElection ==
  ASSUME Majorities, IInv, TypeInv', NEW i \in Node, NEW rs, NEW data, Boot(i, rs, data),
         rs.currentTerm \in Nat,
         \/ rs.currentTerm > currentTerm[i]
         \/ rs.currentTerm = currentTerm[i] /\ rs.votedFor = votedFor[i]
  PROVE  ElectionStep
<1>1. \A j \in Node \ {i} : grantedVotes'[j] = grantedVotes[j]
  BY DEF Boot, IInv, TypeInv, TypeOK, RoleTypes
<1> QED  BY <1>1, StepDown, Zenon DEF Boot

\* Restarts, wherever in a handler the crash falls.
LEMMA CrashElection ==
  ASSUME Majorities, IInv, TypeInv'
  PROVE  /\ \A i \in Node : Restart(i) \/ CrashInElection(i) \/ CrashInSave(i)
                              => ElectionStep
         /\ \A m \in msgs : CrashInInstallSnapshot(m) \/ CrashInInstallSave(m)
                              => ElectionStep
<1>1. ASSUME NEW i \in Node
      PROVE  /\ raftState[i] = encodeState(i) /\ currentTerm[i] \in Nat
             /\ encodeState(i).currentTerm = currentTerm[i]
             /\ encodeState(i).votedFor = votedFor[i]
  BY Zenon DEF IInv, TypeInv, TypeOK, TermTypes, LogTypes, DiskTypes, EntriesInPlace, encodeState
<1>2. ASSUME NEW i \in Node, Restart(i)  PROVE ElectionStep
  <2>1. raftState[i].currentTerm = currentTerm[i] /\ raftState[i].votedFor = votedFor[i]
        /\ raftState[i].currentTerm \in Nat
    BY <1>1
  <2> QED  BY <1>2, <2>1, BootElection DEF Restart
<1>3. ASSUME NEW i \in Node, CrashInElection(i)  PROVE ElectionStep
  <2> DEFINE rs == [encodeState(i) EXCEPT !.currentTerm = @ + 1]
  <2>1. rs.currentTerm = currentTerm[i] + 1  BY <1>1 DEF encodeState
  <2>2. Boot(i, rs, snapshot[i])  BY <1>3 DEF CrashInElection
  <2> HIDE DEF rs
  <2>3. rs.currentTerm \in Nat /\ rs.currentTerm > currentTerm[i]  BY <1>1, <2>1
  <2> QED  BY <2>2, <2>3, BootElection
<1>4. ASSUME NEW i \in Node, CrashInSave(i)  PROVE ElectionStep
  <2>1. PICK l, x, t : Boot(i, [encodeState(i) EXCEPT !.logs = l,
                                  !.lastIncludedIndex = x, !.lastIncludedTerm = t],
                            snapshot[i])
    BY <1>4, Zenon DEF CrashInSave
  <2> DEFINE rs == [encodeState(i) EXCEPT !.logs = l,
                      !.lastIncludedIndex = x, !.lastIncludedTerm = t]
  <2>2. rs.currentTerm = currentTerm[i] /\ rs.votedFor = votedFor[i]
    BY <1>1 DEF encodeState
  <2>3. Boot(i, rs, snapshot[i])  BY <2>1
  <2> HIDE DEF rs
  <2> QED  BY <1>1, <2>2, <2>3, BootElection
<1>5. ASSUME NEW m \in msgs, CrashInInstallSnapshot(m)  PROVE ElectionStep
  <2> DEFINE rs == [encodeState(m.to) EXCEPT !.currentTerm = m.term, !.votedFor = Nil]
  <2>1. m.to \in Node /\ m.term \in Nat
    BY <1>5, KindOf DEF CrashInInstallSnapshot, InstallSnapshotArgs, IInv
  <2>2. rs.currentTerm = m.term  BY DEF encodeState
  <2>3. Boot(m.to, rs, snapshot[m.to]) /\ m.term > currentTerm[m.to]
    BY <1>5 DEF CrashInInstallSnapshot
  <2> HIDE DEF rs
  <2> QED  BY <2>1, <2>2, <2>3, BootElection
<1>6. ASSUME NEW m \in msgs, CrashInInstallSave(m)  PROVE ElectionStep
  <2> DEFINE i == m.to
             rs == [currentTerm |-> m.term, votedFor |-> voteBefore(i, m.term),
                    logs |-> truncateLogWithSnapshot(i, m.lastIncludedIndex,
                                                     m.lastIncludedTerm),
                    lastIncludedIndex |-> m.lastIncludedIndex,
                    lastIncludedTerm |-> m.lastIncludedTerm]
  <2>1. i \in Node /\ m.term \in Nat
    BY <1>6, KindOf DEF CrashInInstallSave, InstallSnapshotArgs, IInv
  <2>2. rs.currentTerm = m.term /\ rs.votedFor = voteBefore(i, m.term)  BY Zenon
  <2>3. Boot(i, rs, snapshot[i]) /\ m.term >= currentTerm[i]
    BY <1>6, Zenon DEF CrashInInstallSave
  <2>4. \/ m.term > currentTerm[i]
        \/ m.term = currentTerm[i] /\ voteBefore(i, m.term) = votedFor[i]
    BY <1>1, <2>1, <2>3 DEF voteBefore
  <2> HIDE DEF rs
  <2> QED  BY <2>1, <2>2, <2>3, <2>4, BootElection
<1> QED  BY <1>2, <1>3, <1>4, <1>5, <1>6, Zenon

-----------------------------------------------------------------------------
(* Steps that vote and count                                               *)

\* Node i casts the vote <<t, c>>, which its term and its earlier vote allow.
LEMMA NewVote ==
  ASSUME Majorities, IInv, TypeInv', NEW i \in Node, NEW c \in Node, NEW t \in Nat,
         currentTerm' = [currentTerm EXCEPT ![i] = t],
         votedFor' = [votedFor EXCEPT ![i] = c],
         t >= currentTerm[i],
         t = currentTerm[i] => votedFor[i] \in {Nil, c},
         \A v, u, d : granted(v, u, d)' =>
           granted(v, u, d) \/ (v = i /\ u = t /\ d = c)
  PROVE  VotesKept' /\ \A v \in Node : VoteStep(v)
<1>1. /\ currentTerm \in [Node -> Nat] /\ votedFor \in [Node -> Node \cup {Nil}]
  BY DEF IInv, TypeInv, TypeOK, TermTypes
<1>2. /\ currentTerm'[i] = t /\ votedFor'[i] = c
      /\ \A j \in Node \ {i} : currentTerm'[j] = currentTerm[j] /\ votedFor'[j] = votedFor[j]
  BY <1>1
<1>3. \A v \in Node : VoteStep(v)
  <2>1. VoteStep(i)  BY <1>1, <1>2 DEF VoteStep
  <2> QED  BY <1>2, <2>1, OtherNodes DEF IInv
<1>4. ASSUME NEW v \in Node, NEW u, NEW d \in Node, granted(v, u, d)
      PROVE  /\ u \in Nat
             /\ u <= currentTerm[v]
             /\ u = currentTerm[v] => votedFor[v] = d
             /\ \A e \in Node : granted(v, u, e) => d = e
  <2>1. u \in terms  BY <1>4, GrantedTerm
  <2>2. PICK m \in msgs : u = m.term  BY <2>1 DEF terms
  <2>3. m \in Message  BY Zenon DEF IInv, TypeInv, TypeOK, EnvTypes
  <2>4. u \in Nat
    BY <2>2, <2>3 DEF Message, RequestVoteArgs, RequestVoteReplies, AppendEntriesArgs,
         AppendEntriesReplies, InstallSnapshotArgs, InstallSnapshotReplies
  <2> QED  BY <1>4, <2>1, <2>4 DEF IInv, ElectionInv, VotesKept
<1>5. ASSUME NEW d \in Node, granted(i, t, d)  PROVE d = c
  <2>1. t = currentTerm[i] /\ votedFor[i] = d  BY <1>1, <1>4, <1>5
  <2> QED  BY <2>1, NodeAssumption
<1>6. VotesKept'
  <2> SUFFICES ASSUME NEW u \in terms', NEW v \in Node, NEW d \in Node,
                      granted(v, u, d)'
               PROVE  /\ u <= currentTerm'[v]
                      /\ u = currentTerm'[v] => votedFor'[v] = d
                      /\ \A e \in Node : granted(v, u, e)' => d = e
    BY DEF VotesKept
  <2>1. CASE v = i /\ u = t /\ d = c
    BY <1>2, <1>5, <2>1
  <2>2. CASE granted(v, u, d) /\ ~ (v = i /\ u = t)
    <3>1. \A e \in Node : granted(v, u, e)' => granted(v, u, e)  BY <2>2
    <3>2. \A e \in Node : granted(v, u, e)' => d = e  BY <1>4, <2>2, <3>1, Zenon
    <3>3. CASE v # i
      BY <1>2, <1>4, <2>2, <3>2, <3>3
    <3>4. CASE v = i
      <4>1. u \in Nat /\ u <= currentTerm[i] /\ u # t /\ currentTerm[i] \in Nat
        BY <1>1, <1>4, <2>2, <3>4, Zenon
      <4> QED  BY <1>2, <3>2, <3>4, <4>1
    <3> QED  BY <3>3, <3>4
  <2>3. CASE granted(v, u, d) /\ v = i /\ u = t
    BY <1>2, <1>5, <2>1, <2>3
  <2> QED  BY <2>1, <2>2, <2>3
<1> QED  BY <1>3, <1>6

\* A candidate votes for itself in a term it was not in before.
LEMMA ElectionTimeoutElection ==
  ASSUME Majorities, IInv, TypeInv', NEW i \in Node, ElectionTimeout(i)
  PROVE  ElectionStep
<1> USE DEF ElectionTimeout, becomeCandidate, startElection
<1>1. /\ currentTerm \in [Node -> Nat]
      /\ state \in [Node -> {"Follower", "Candidate", "Leader"}]
      /\ grantedVotes \in [Node -> SUBSET Node]
  BY DEF IInv, TypeInv, TypeOK, TermTypes, RoleTypes
<1>2. PICK t \in Nat : t = currentTerm[i] + 1  BY <1>1
<1>3. /\ currentTerm' = [currentTerm EXCEPT ![i] = t] /\ currentTerm'[i] = t
      /\ t > currentTerm[i] /\ t # currentTerm[i] /\ t >= currentTerm[i]
  BY <1>1, <1>2
<1>4. msgs \subseteq msgs'  BY Zenon
<1>5. \A m \in msgs' \ msgs : m.type = "RequestVote" /\ m.from = i /\ m.term = t
  BY <1>3 DEF genRequestVoteArgs
<1>6. \E m \in msgs' : m.type = "RequestVote" /\ m.from = i /\ m.term = t
  <2>1. PICK peer \in Node \ {i} : TRUE  BY Zenon DEF Majorities
  <2>2. genRequestVoteArgs(i, peer) \in msgs'  BY <2>1
  <2> QED  BY <1>3, <2>2 DEF genRequestVoteArgs
<1>7. ASSUME NEW v, NEW u, NEW d, granted(v, u, d)'
      PROVE  granted(v, u, d) \/ (v = i /\ u = t /\ d = i)
  BY <1>5, <1>7 DEF granted
<1>8. VotesKept' /\ \A v \in Node : VoteStep(v)
  BY <1>3, <1>7, NewVote, Zenon
<1>9. granted(i, t, i)'  BY <1>6 DEF granted
<1>10. VotesCounted'
  <2> SUFFICES ASSUME NEW j \in Node, state'[j] = "Candidate",
                      NEW v \in grantedVotes'[j], NEW u, u = currentTerm'[j]
               PROVE  granted(v, u, j)'
    BY DEF VotesCounted
  <2>1. CASE j = i
    <3>1. v = i /\ u = t  BY <1>1, <1>3, <2>1, Zenon
    <3> QED  BY <1>9, <2>1, <3>1, Zenon
  <2>2. CASE j # i
    <3>1. state[j] = "Candidate" /\ v \in grantedVotes[j] /\ u = currentTerm[j]
      BY <1>1, <1>3, <2>2, Zenon
    <3>2. granted(v, u, j)  BY <3>1 DEF IInv, ElectionInv, VotesCounted
    <3> QED  BY <1>4, <3>2, GrantedStays, Zenon
  <2> QED  BY <2>1, <2>2
<1>11. \A v \in Node : state'[v] = "Leader" =>
         state[v] = "Leader" /\ currentTerm'[v] = currentTerm[v]
  BY <1>1, <1>3, Zenon
<1>12. \A x \in leaderships' : elected(x[1], x[2])'
  BY <1>4, <1>5, <1>11, LeadershipsAfter DEF IInv
<1> QED  BY <1>8, <1>10, <1>12, Zenon DEF ElectionStep, ElectionInv

\* A vote is given only by a node that has given none to another in the term.
LEMMA RequestVoteElection ==
  ASSUME Majorities, IInv, TypeInv', NEW m \in msgs, RequestVote(m)
  PROVE  ElectionStep
<1> DEFINE i == m.to
<1>1. i \in Node /\ m.from \in Node /\ m.term \in Nat
  BY KindOf DEF RequestVote, RequestVoteArgs, IInv
<1>2. /\ currentTerm \in [Node -> Nat] /\ votedFor \in [Node -> Node \cup {Nil}]
      /\ state \in [Node -> {"Follower", "Candidate", "Leader"}]
  BY DEF IInv, TypeInv, TypeOK, TermTypes, RoleTypes
<1>3. PICK g \in BOOLEAN :
        /\ g = (/\ m.term >= currentTerm[i]
                /\ canVote(i, m.term, m.from)
                /\ isLogUpToDate(i, m.lastLogTerm, m.lastLogIndex))
        /\ msgs' = msgs \cup
             {[type |-> "RequestVoteReply", from |-> i, to |-> m.from,
               term |-> m.term, replyTerm |-> currentTerm[i], voteGranted |-> g]}
        /\ \/ /\ m.term < currentTerm[i]
              /\ UNCHANGED <<termVars, roleVars, logVars, diskVars>>
           \/ /\ m.term >= currentTerm[i]
              /\ currentTerm' = [currentTerm EXCEPT ![i] = m.term]
              /\ votedFor' = [votedFor EXCEPT
                   ![i] = IF g THEN m.from ELSE voteBefore(i, m.term)]
              /\ state' = [state EXCEPT
                   ![i] = IF m.term > currentTerm[i] THEN "Follower" ELSE @]
              /\ UNCHANGED <<currentLeader, grantedVotes, logVars>>
              /\ persist(i)
  BY Zenon DEF RequestVote
<1>4. msgs \subseteq msgs'  BY <1>3, Zenon
<1>5. \A x \in msgs' \ msgs : /\ x.type = "RequestVoteReply" /\ x.voteGranted = g
                              /\ x.from = i /\ x.to = m.from /\ x.term = m.term
  <2> DEFINE reply == [type |-> "RequestVoteReply", from |-> i, to |-> m.from,
                       term |-> m.term, replyTerm |-> currentTerm[i], voteGranted |-> g]
  <2>1. /\ reply.type = "RequestVoteReply" /\ reply.from = i /\ reply.to = m.from
        /\ reply.term = m.term
    OBVIOUS
  <2>2. reply.voteGranted = g  BY Zenon
  <2>3. msgs' = msgs \cup {reply}  BY <1>3
  <2> HIDE DEF reply
  <2> QED  BY <2>1, <2>2, <2>3, Zenon
<1>6. CASE m.term < currentTerm[i]
  <2>1. UNCHANGED <<termVars, state, grantedVotes>> /\ g = FALSE
    BY <1>1, <1>2, <1>3, <1>6 DEF roleVars
  <2> QED  BY <1>4, <1>5, <2>1, NoElection, Zenon
<1>7. CASE m.term >= currentTerm[i]
  <2>1. /\ currentTerm' = [currentTerm EXCEPT ![i] = m.term]
        /\ votedFor' = [votedFor EXCEPT ![i] = IF g THEN m.from ELSE voteBefore(i, m.term)]
        /\ state' = [state EXCEPT
             ![i] = IF m.term > currentTerm[i] THEN "Follower" ELSE @]
        /\ grantedVotes' = grantedVotes
    BY <1>1, <1>2, <1>3, <1>7
  <2>2. \A v \in Node : \/ state'[v] = state[v] /\ currentTerm'[v] = currentTerm[v]
                        \/ state'[v] = "Follower"
    BY <1>1, <1>2, <1>7, <2>1
  <2>3. CASE ~ g
    <3>1. votedFor' = [votedFor EXCEPT ![i] = voteBefore(i, m.term)]
      BY <2>1, <2>3, Zenon
    <3>2. VoteStep(i)
      BY <1>1, <1>2, <1>7, <2>1, <3>1 DEF VoteStep, voteBefore
    <3>3. \A v \in Node : VoteStep(v)
      BY <1>1, <1>2, <2>1, <3>1, <3>2, OtherNodes, Zenon DEF IInv
    <3>4. Quiet  BY <1>4, <1>5, <2>1, <2>2, <2>3, <3>3 DEF Quiet
    <3> QED  BY <3>3, <3>4, QuietStep DEF ElectionStep
  <2>4. CASE g
    <3>1. votedFor' = [votedFor EXCEPT ![i] = m.from]
      BY <2>1, <2>4, Zenon
    <3>2. m.term = currentTerm[i] => votedFor[i] \in {Nil, m.from}
      <4>1. canVote(i, m.term, m.from)  BY <1>3, <2>4, Zenon
      <4> QED  BY <1>1, <1>2, <4>1 DEF canVote, voteBefore
    <3>3. ASSUME NEW v, NEW u, NEW d, granted(v, u, d)'
          PROVE  granted(v, u, d) \/ (v = i /\ u = m.term /\ d = m.from)
      BY <1>5, <3>3 DEF granted
    <3>4. VotesKept' /\ \A v \in Node : VoteStep(v)
      BY <1>1, <1>7, <2>1, <3>1, <3>2, <3>3, NewVote, Zenon
    <3>5. VotesCounted'
      <4> SUFFICES ASSUME NEW j \in Node, state'[j] = "Candidate",
                          NEW v \in grantedVotes'[j], NEW u, u = currentTerm'[j]
                   PROVE  granted(v, u, j)'
        BY Zenon DEF VotesCounted
      <4>1. state[j] = "Candidate" /\ v \in grantedVotes[j] /\ u = currentTerm[j]
        BY <2>1, <2>2
      <4>2. granted(v, u, j)  BY <4>1, Zenon DEF IInv, ElectionInv, VotesCounted
      <4> QED  BY <1>4, <4>2, GrantedStays
    <3>6. \A x \in leaderships' : elected(x[1], x[2])'
      BY <1>4, <1>5, <2>2, LeadershipsAfter, Zenon DEF IInv
    <3> QED  BY <3>4, <3>5, <3>6 DEF ElectionStep, ElectionInv
  <2> QED  BY <2>3, <2>4, Zenon
<1> QED  BY <1>1, <1>2, <1>6, <1>7

\* A candidate that becomes leader has counted the votes of a majority, each
\* of which it was given.
LEMMA RequestVoteReplyElection ==
  ASSUME Majorities, IInv, TypeInv', NEW m \in msgs, RequestVoteReply(m)
  PROVE  ElectionStep
<1> DEFINE i == m.to
           votes == grantedVotes[i] \cup {m.from}
<1>1. /\ i \in Node /\ m.from \in Node /\ m.term \in Nat /\ m.replyTerm \in Nat
      /\ m.type = "RequestVoteReply" /\ msgs' = msgs
      /\ state[i] = "Candidate" /\ currentTerm[i] = m.term
  BY KindOf DEF RequestVoteReply, RequestVoteReplies, IInv, isStillValidCandidate
<1>2. /\ state \in [Node -> {"Follower", "Candidate", "Leader"}]
      /\ grantedVotes \in [Node -> SUBSET Node]
  BY DEF IInv, TypeInv, TypeOK, RoleTypes
<1>3. CASE m.replyTerm > currentTerm[i] /\ handleHigherTerm(i, m.replyTerm)
  BY <1>1, <1>3, HigherTermElection
<1>4. CASE /\ m.voteGranted
           /\ grantedVotes' = [grantedVotes EXCEPT ![i] = votes]
           /\ IF Cardinality(votes) = Majority
              THEN becomeLeader(i)
              ELSE UNCHANGED <<state, currentLeader, peerVars, termLog>>
           /\ UNCHANGED <<termVars, logVars, diskVars>>
  <2>1. UNCHANGED <<currentTerm, votedFor, msgs>>  BY <1>1, <1>4 DEF termVars
  <2>2. \A v, u, d : granted(v, u, d)' = granted(v, u, d)
    BY <2>1, Zenon DEF granted
  <2>3. VotesKept'
    BY <2>1, <2>2 DEF IInv, ElectionInv, VotesKept, terms
  <2>4. \A v \in Node : VoteStep(v)  BY <2>1, OtherNodes DEF IInv
  <2>5. \A v \in votes : granted(v, m.term, i)
    <3>1. granted(m.from, m.term, i)  BY <1>1, <1>4, Zenon DEF granted
    <3>2. \A v \in grantedVotes[i] : granted(v, m.term, i)
      BY <1>1, Zenon DEF IInv, ElectionInv, VotesCounted
    <3> QED  BY <3>1, <3>2, Zenon
  <2>6. /\ grantedVotes'[i] = votes
        /\ \A j \in Node \ {i} : grantedVotes'[j] = grantedVotes[j] /\ state'[j] = state[j]
    BY <1>1, <1>2, <1>4, Zenon DEF becomeLeader
  <2>7. VotesCounted'
    <3> SUFFICES ASSUME NEW j \in Node, state'[j] = "Candidate",
                        NEW v \in grantedVotes'[j], NEW u, u = currentTerm'[j]
                 PROVE  granted(v, u, j)'
      BY Zenon DEF VotesCounted
    <3>1. CASE j = i
      BY <1>1, <2>1, <2>2, <2>5, <2>6, <3>1, Zenon
    <3>2. CASE j # i
      <4>1. state[j] = "Candidate" /\ v \in grantedVotes[j] /\ u = currentTerm[j]
        BY <2>1, <2>6, <3>2, Zenon
      <4> QED  BY <2>2, <4>1, Zenon DEF IInv, ElectionInv, VotesCounted
    <3> QED  BY <3>1, <3>2
  <2>8. Cardinality(votes) = Majority => elected(m.term, i)'
    <3> SUFFICES ASSUME Cardinality(votes) = Majority  PROVE elected(m.term, i)'
      BY Zenon
    <3> DEFINE S == {v \in Node : granted(v, m.term, i)}
    <3>1. votes \subseteq S /\ S \subseteq Node  BY <1>1, <1>2, <2>5
    <3>2. Cardinality(S) >= Majority
      <4>1. Cardinality(votes) >= Majority  BY DEF Majorities
      <4>2. votes \in SUBSET Node /\ S \in SUBSET Node  BY <3>1, Zenon
      <4> HIDE DEF S, votes
      <4> QED  BY <3>1, <4>1, <4>2, Zenon DEF Majorities
    <3>3. elected(m.term, i)  BY <3>2, Zenon DEF elected
    <3> QED  BY <2>1, <3>3, ElectedStays
  <2>9. \A v \in Node : state'[v] = "Leader" =>
          \/ state[v] = "Leader" /\ currentTerm'[v] = currentTerm[v]
          \/ \E t : t = currentTerm'[v] /\ elected(t, v)'
    <3> SUFFICES ASSUME NEW v \in Node, state'[v] = "Leader"
                 PROVE  \/ state[v] = "Leader" /\ currentTerm'[v] = currentTerm[v]
                        \/ \E t : t = currentTerm'[v] /\ elected(t, v)'
      BY Zenon
    <3>1. CASE v # i  BY <2>1, <2>6, <3>1, Zenon
    <3>2. CASE v = i
      <4>1. Cardinality(votes) = Majority  BY <1>1, <1>4, <3>2, Zenon
      <4>2. m.term = currentTerm'[v]  BY <1>1, <2>1, <3>2, Zenon
      <4> QED  BY <2>8, <3>2, <4>1, <4>2, Zenon
    <3> QED  BY <3>1, <3>2, Zenon
  <2>10. \A x \in leaderships' : elected(x[1], x[2])'
    BY <2>1, <2>9, LeadershipsAfter, Zenon DEF IInv
  <2> QED  BY <2>3, <2>4, <2>7, <2>10, Zenon DEF ElectionStep, ElectionInv
<1> QED  BY <1>3, <1>4, Zenon DEF RequestVoteReply

\* A request of a leader is evidence of a leadership that exists already.
LEMMA LeaderRequestElection ==
  ASSUME Majorities, IInv, TypeInv', NEW i \in Node, NEW peer \in Node, replicateToPeer(i, peer)
  PROVE  ElectionStep
<1>1. UNCHANGED <<termVars, state, grantedVotes>> /\ msgs \subseteq msgs'
  <2>1. UNCHANGED <<termVars, state, grantedVotes>>  BY Zenon DEF replicateToPeer, roleVars
  <2>2. msgs \subseteq msgs'  BY DEF replicateToPeer
  <2> QED  BY <2>1, <2>2, Zenon
<1>2. \A m \in msgs' \ msgs :
        /\ m.type \in {"AppendEntries", "InstallSnapshot"}
        /\ m.from = i /\ m.term = currentTerm[i]
  <2>1. CASE msgs' = msgs \cup {genInstallSnapshotArgs(i, peer)}
    BY <2>1 DEF genInstallSnapshotArgs
  <2>2. CASE msgs' = msgs \cup {genAppendEntriesArgs(i, peer, nextIndex[i][peer] - 1)}
    <3> DEFINE args == genAppendEntriesArgs(i, peer, nextIndex[i][peer] - 1)
    <3>1. args.type = "AppendEntries" /\ args.from = i /\ args.term = currentTerm[i]
      BY Zenon DEF genAppendEntriesArgs
    <3> HIDE DEF args
    <3> QED  BY <2>2, <3>1 DEF args
  <2> QED  BY <2>1, <2>2, Zenon DEF replicateToPeer
<1>3. state[i] = "Leader"  BY DEF replicateToPeer
<1> QED  BY <1>1, <1>2, <1>3, NoElection

\* AppendEntries gives no vote and makes no leader.
LEMMA AppendEntriesElection ==
  ASSUME Majorities, IInv, TypeInv', NEW m \in msgs, AppendEntries(m)
  PROVE  ElectionStep
<1>1. m.to \in Node /\ m.term \in Nat
  BY KindOf DEF AppendEntries, AppendEntriesArgs, IInv
<1>2. PICK ok, ci, ct : msgs' = msgs \cup {appendReply(m, currentTerm[m.to], ok, ci, ct)}
  BY Zenon DEF AppendEntries
<1>3. /\ msgs \subseteq msgs'
      /\ \A x \in msgs' \ msgs : x.type = "AppendEntriesReply"
  BY <1>2 DEF appendReply
<1>4. CASE UNCHANGED <<termVars, roleVars>>
  BY <1>3, <1>4, NoElection DEF roleVars
<1>5. CASE followLeader(m)
  BY <1>1, <1>3, <1>5, FollowLeaderElection, Zenon
<1> QED  BY <1>4, <1>5, Zenon DEF AppendEntries

\* Nor does InstallSnapshot.
LEMMA InstallSnapshotElection ==
  ASSUME Majorities, IInv, TypeInv', NEW m \in msgs, InstallSnapshot(m)
  PROVE  ElectionStep
<1>1. m.to \in Node /\ m.term \in Nat
  BY KindOf, Zenon DEF InstallSnapshot, InstallSnapshotArgs, IInv
<1>2. /\ msgs \subseteq msgs'
      /\ \A x \in msgs' \ msgs : x.type = "InstallSnapshotReply"
  BY DEF InstallSnapshot
<1>3. CASE UNCHANGED <<termVars, roleVars>>
  BY <1>2, <1>3, NoElection DEF roleVars
<1>4. CASE followLeader(m)
  BY <1>1, <1>2, <1>4, FollowLeaderElection, Zenon
<1> QED  BY <1>3, <1>4, Zenon DEF InstallSnapshot

\* Replies to a leader: a later term makes it step down.
LEMMA LeaderReplyElection ==
  ASSUME Majorities, IInv, TypeInv', NEW m \in msgs, AppendEntriesReply(m) \/ InstallSnapshotReply(m)
  PROVE  ElectionStep
<1>1. m.to \in Node /\ m.replyTerm \in Nat
  BY KindOf, Zenon DEF AppendEntriesReply, AppendEntriesReplies, InstallSnapshotReply,
                      InstallSnapshotReplies, IInv
<1>2. msgs' = msgs  BY DEF AppendEntriesReply, InstallSnapshotReply
<1>3. CASE m.replyTerm > currentTerm[m.to] /\ handleHigherTerm(m.to, m.replyTerm)
  BY <1>1, <1>2, <1>3, HigherTermElection, Zenon
<1>4. CASE UNCHANGED <<termVars, roleVars>>
  BY <1>2, <1>4, NoElection DEF roleVars
<1> QED  BY <1>3, <1>4, Zenon DEF AppendEntriesReply, InstallSnapshotReply

-----------------------------------------------------------------------------
(* Theorems                                                                *)

\* Nobody has voted or leads initially.
LEMMA InitElection ==
  ASSUME Init
  PROVE  ElectionInv
<1>1. msgs = {} /\ \A i \in Node : state[i] = "Follower"
  BY DEF Init
<1>2. leaderships = {}  BY <1>1, Zenon DEF leaderships
<1>3. VotesKept /\ VotesCounted
  BY <1>1 DEF VotesKept, VotesCounted, terms
<1> QED  BY <1>2, <1>3, Zenon DEF ElectionInv

\* Every step preserves the inductive invariant and takes back no vote.
LEMMA NextElection ==
  ASSUME Majorities, IInv, TypeInv', [Next]_vars
  PROVE  IInv' /\ \A i \in Node : VoteStep(i)
<1>1. ASSUME NEW i \in Node, NodeStep(i)  PROVE ElectionStep
  <2>1. CASE ElectionTimeout(i)
    BY <2>1, ElectionTimeoutElection
  <2>2. CASE Start(i) \/ applier(i) \/ Deliver(i) \/ checkSnapshot(i)
    <3>1. UNCHANGED <<termVars, roleVars, msgs>>
      BY <2>2, Zenon DEF Start, applier, Deliver, checkSnapshot, Snapshot
    <3> QED  BY <3>1, NoElection, Zenon DEF roleVars
  <2>3. CASE Restart(i) \/ CrashInElection(i) \/ CrashInSave(i)
    BY <2>3, CrashElection, Zenon
  <2> QED  BY <1>1, <2>1, <2>2, <2>3 DEF NodeStep
<1>2. ASSUME NEW i \in Node, NEW peer \in Node \ {i}, SendStep(i, peer)
      PROVE  ElectionStep
  BY <1>2, LeaderRequestElection, Zenon DEF SendStep, replicator, Heartbeat
<1>3. ASSUME NEW m \in msgs, Receive(m)  PROVE ElectionStep
  BY <1>3, Zenon, RequestVoteElection, RequestVoteReplyElection, AppendEntriesElection,
     InstallSnapshotElection, LeaderReplyElection, CrashElection DEF Receive
<1>4. CASE UNCHANGED vars
  <2>1. UNCHANGED <<termVars, roleVars, msgs>>  BY <1>4 DEF vars
  <2> QED  BY <2>1, NoElection DEF roleVars, ElectionStep, IInv
<1>5. ElectionStep => IInv' /\ \A i \in Node : VoteStep(i)
  BY Zenon DEF ElectionStep, IInv
<1> QED  BY <1>1, <1>2, <1>3, <1>4, <1>5 DEF Next

\* The majorities that elected two leaders of a term share a node, which voted
\* for one of them only.
LEMMA OneLeader ==
  ASSUME Majorities, IInv
  PROVE  ElectionSafety
<1> SUFFICES ASSUME NEW x \in leaderships, NEW y \in leaderships, x[1] = y[1]
             PROVE  x[2] = y[2]
  BY DEF ElectionSafety
<1> DEFINE t == x[1]
           S == {v \in Node : granted(v, t, x[2])}
           T == {v \in Node : granted(v, t, y[2])}
<1>1. x[2] \in Node /\ y[2] \in Node
  <2>1. ASSUME NEW z \in leaderships  PROVE z[2] \in Node
    <3>1. CASE \E m \in msgs : /\ m.type \in {"AppendEntries", "InstallSnapshot"}
                               /\ z = <<m.term, m.from>>
      BY <3>1, KindOf DEF IInv, AppendEntriesArgs, InstallSnapshotArgs
    <3>2. CASE \E i \in Node : z = <<currentTerm[i], i>>
      BY <3>2
    <3> QED  BY <3>1, <3>2 DEF leaderships
  <2> QED  BY <2>1, Zenon
<1>2. Cardinality(S) >= Majority /\ Cardinality(T) >= Majority
  <2>1. elected(x[1], x[2]) /\ elected(y[1], y[2])  BY DEF IInv, ElectionInv
  <2> QED  BY <2>1 DEF elected
<1>3. PICK v \in Node : v \in S /\ v \in T
  <2>1. S \in SUBSET Node /\ T \in SUBSET Node  OBVIOUS
  <2> HIDE DEF S, T
  <2> QED  BY <1>2, <2>1, Zenon DEF Majorities
<1>4. granted(v, t, x[2]) /\ granted(v, t, y[2])  BY <1>3
<1>5. t \in terms  BY <1>4, GrantedTerm
<1> QED  BY <1>1, <1>4, <1>5 DEF IInv, ElectionInv, VotesKept

=============================================================================
