------------------------------- MODULE MCRaft -------------------------------
(***************************************************************************)
(* Instances of Raft for TLC: initial states past the first election, and  *)
(* bounds on the traffic of a behaviour.                                   *)
(***************************************************************************)
EXTENDS RaftProperties, TLC

CONSTANTS
  n1, n2, n3,      \* the nodes
  MaxElections,    \* bound: elections started after the initial state
  MaxRequests      \* bound: distinct requests a behaviour's leaders send

\* MaxRaftState of a node that never takes a snapshot
NoSnapshot == -1

Symmetry == Permutations(Node)

Elections ==
  {<<m.from, m.term>> : m \in {x \in msgs : x.type = "RequestVote"}}
Requests == {m \in msgs : m.type \in {"AppendEntries", "InstallSnapshot"}}

Bounded ==
  /\ Cardinality(Elections) <= MaxElections
  /\ Cardinality(Requests) <= MaxRequests

\* No log is longer than n entries.
LogsWithin(n) == \A i \in Node : getLastLog(i).index <= n

\* Once there is an entry, one election and one crash
ElectionsFirst ==
  /\ Bounded
  /\ \/ LogsWithin(0)
     \/ /\ Cardinality(Elections) <= 1
        /\ Cardinality({i \in Node : restarts[i] > 0}) <= 1

\* A second election only among logs of one entry, with a request less
ElectionsOrEntries ==
  /\ Bounded
  /\ \/ Cardinality(Elections) <= 1
     \/ Cardinality(Requests) < MaxRequests /\ LogsWithin(1)

\* Once a log is compacted, at most one node has crashed.
CrashesOrSnapshots ==
  /\ Bounded
  /\ \/ \A i \in Node : lastIncludedIndex[i] = 0
     \/ Cardinality({i \in Node : restarts[i] > 0}) <= 1

\* The service is as slow as it likes.
NoApply == UNCHANGED lastApplied

(***************************************************************************)
(* States some steps past Init with nothing in flight.  cluster gives a    *)
(* record per node: term, vote, log (after the placeholder), whether it    *)
(* leads, and what it knows to be committed; a leader has matched its      *)
(* peers up to match, and goes on from next.  leaderLogs[t] is the log     *)
(* the leader of term t came to have.                                      *)
(***************************************************************************)
op(index, term, me) == [index |-> index, term |-> term, cmd |-> me]

node(term, vote, leads, log, commit, match) ==
  [term |-> term, vote |-> vote, leads |-> leads, log |-> <<Dummy>> \o log,
   commit |-> commit, match |-> match,
   next |-> [j \in Node |-> match[j] + 1]]

nobody == [j \in Node |-> 0]

InitWith(cluster, leaderLogs) ==
  /\ currentTerm = [i \in Node |-> cluster[i].term]
  /\ votedFor = [i \in Node |-> cluster[i].vote]
  /\ logs = [i \in Node |-> cluster[i].log]
  /\ lastIncludedIndex = [i \in Node |-> 0]
  /\ lastIncludedTerm = [i \in Node |-> 0]
  /\ state = [i \in Node |-> IF cluster[i].leads THEN "Leader" ELSE "Follower"]
  /\ currentLeader = [i \in Node |-> IF cluster[i].leads THEN i ELSE Nil]
  /\ grantedVotes = [i \in Node |->
       IF cluster[i].leads THEN {j \in Node : cluster[j].vote = i} ELSE {}]
  /\ nextIndex = [i \in Node |-> [j \in Node |->
       IF cluster[i].leads THEN cluster[i].next[j] ELSE 0]]
  /\ matchIndex = [i \in Node |-> cluster[i].match]
  /\ commitIndex = [i \in Node |-> cluster[i].commit]
  /\ lastApplied = [i \in Node |-> 0]
  /\ applyCh = [i \in Node |-> <<>>]
  /\ applied = [i \in Node |-> <<>>]
  /\ rsmLastApplied = [i \in Node |-> 0]
  /\ checking = [i \in Node |-> FALSE]
  /\ raftState = [i \in Node |->
       [currentTerm |-> cluster[i].term, votedFor |-> cluster[i].vote,
        logs |-> cluster[i].log, lastIncludedIndex |-> 0,
        lastIncludedTerm |-> 0]]
  /\ snapshot = [i \in Node |-> <<>>]
  /\ msgs = {}
  /\ restarts = [i \in Node |-> 0]
  /\ committed = UNION {upTo(logEntries(cluster[i].log), cluster[i].commit) :
                          i \in Node}
  /\ termLog = leaderLogs

\* n1 leads term 1 with the vote of n2; n3 has heard nothing yet.
InitElected ==
  InitWith((n1 :> node(1, n1, TRUE, <<>>, 0, nobody))
        @@ (n2 :> node(1, n1, FALSE, <<>>, 0, nobody))
        @@ (n3 :> node(0, Nil, FALSE, <<>>, 0, nobody)),
           1 :> <<>>)
SpecElected == InitElected /\ [][Next]_vars

\* n1, the leader of term 1, and n2, the leader of term 2, each have an entry
\* at index 1 that nobody else has; n1 has been restarted since, in term 2.
InitDiverged ==
  InitWith((n1 :> node(2, Nil, FALSE, <<op(1, 1, n1)>>, 0, nobody))
        @@ (n2 :> node(2, n2, TRUE, <<op(1, 2, n2)>>, 0, nobody))
        @@ (n3 :> node(2, n2, FALSE, <<>>, 0, nobody)),
           <<<<op(1, 1, n1)>>, <<op(1, 2, n2)>>>>)
SpecDiverged == InitDiverged /\ [][Next]_vars

\* n1 leads term 2 and has committed two entries with n2; n3, the leader of
\* term 1, has an entry of its own at index 1.  n2 and n3 have been restarted
\* since; restarts counts from here.
InitLagging ==
  LET log == <<op(1, 2, n1), op(2, 2, n1)>> IN
  InitWith((n1 :> node(2, n1, TRUE, log, 2, (n1 :> 0) @@ (n2 :> 2) @@ (n3 :> 0)))
        @@ (n2 :> node(2, n1, FALSE, log, 0, nobody))
        @@ (n3 :> node(1, n3, FALSE, <<op(1, 1, n3)>>, 0, nobody)),
           <<<<op(1, 1, n3)>>, log>>)
SpecLagging == InitLagging /\ [][Next]_vars

\* n1, elected a second time, in term 3, with one entry in its log, has
\* committed another with n2; n3 has voted for it and still has an entry of
\* term 1, when it led.
InitConflict ==
  LET log == <<op(1, 2, n1), op(2, 3, n1)>>
      match == (n1 :> 1) @@ (n2 :> 2) @@ (n3 :> 0)
      leader == [node(3, n1, TRUE, log, 2, match) EXCEPT !.next[n3] = 2]
  IN
  InitWith((n1 :> leader)
        @@ (n2 :> node(3, n1, FALSE, log, 0, nobody))
        @@ (n3 :> node(3, n1, FALSE, <<op(1, 1, n3)>>, 0, nobody)),
           <<<<op(1, 1, n3)>>, <<op(1, 2, n1)>>, log>>)
FairSpecConflict ==
  InitConflict /\ [][Next]_vars /\ FairService /\ FairLeader(n1)

(***************************************************************************)
(* Refinement: what the service of a node sees of it                       *)
(***************************************************************************)
Service(i) ==
  INSTANCE RaftService WITH
    term <- currentTerm[i], role <- state[i],
    log <- wholeLog(i), commitIndex <- commitIndex[i],
    lastIncludedIndex <- lastIncludedIndex[i],
    lastApplied <- lastApplied[i], applyCh <- applyCh[i]

\* What Service(i)!vars are made of: most steps change it for one node only.
serviceState(i) ==
  <<currentTerm[i], state[i], snapshot[i], logs[i], commitIndex[i],
    lastIncludedIndex[i], lastApplied[i], applyCh[i]>>

\* Every node gives its service what the module RaftService promises, on which
\* RSM is built: the committed part of its log is never rewritten, whoever
\* leads and whatever is compacted, a leader keeps its log and commits by
\* counting only in its own term, the applier hands over every committed entry
\* once and in order, and a restart falls back to the last snapshot.
ImplementsService ==
  /\ \A i \in Node : Service(i)!Init
  /\ [][\A i \in Node : UNCHANGED serviceState(i) \/ UNCHANGED (Service(i)!vars)
                         \/ Service(i)!Next]_vars

\* While n1 leads for good, and has an entry of its own term, the services of
\* all nodes catch up with its log again and again: heartbeats alone bring a
\* node that has a conflicting log, or that is behind the leader's snapshot,
\* up to date, whatever stale replies do to nextIndex on the way.
AllCatchUp ==
  <>[](state[n1] = "Leader" /\ getLastLog(n1).term = currentTerm[n1])
    => \A j \in Node : []<>(applied[j] = wholeLog(n1))

=============================================================================
