--------------------------- MODULE RaftProperties ---------------------------
(***************************************************************************)
(* What Raft promises of logs, commitment and the service behind it, and   *)
(* the fairness under which it keeps its followers up to date.             *)
(***************************************************************************)
EXTENDS RaftElection

(***************************************************************************)
(* Logs                                                                    *)
(***************************************************************************)
upTo(S, n) == {x \in S : x.index <= n}
onDisk(i) == Range(snapshot[i]) \cup logEntries(raftState[i].logs)

\* If two nodes have an entry with the same index and term, they have the same
\* entries up to it: the check of prevLogIndex in AppendEntries, the cut of
\* appendNewEntries and both ways of compacting a log preserve it.
LogMatching ==
  \A i \in Node : \A j \in Node \ {i} :
    LET a == entriesOf(i)
        b == entriesOf(j)
    IN  \A x \in a, y \in b : x.index = y.index /\ x.term = y.term
          => upTo(a, x.index) = upTo(b, x.index)

\* A leader that a majority has not left for a later term has every committed
\* entry (README: "ensuring committed entries are never overwritten"): whoever
\* has voted for it compared their logs.
LeaderCompleteness ==
  \A i \in Node :
    /\ state[i] = "Leader"
    /\ Cardinality({j \in Node : currentTerm[j] <= currentTerm[i]}) >= Majority
    => committed \subseteq entriesOf(i)

\* While a node leads a term it only appends to its log; compacting it loses
\* nothing of it.
LeaderAppendOnly ==
  [][\A i \in Node :
       /\ state[i] = "Leader" /\ state'[i] = "Leader"
       /\ currentTerm'[i] = currentTerm[i]
       => entriesOf(i) \subseteq entriesOf(i)']_vars

(***************************************************************************)
(* Commitment                                                              *)
(***************************************************************************)

\* What any node believes committed is committed: a follower's
\* min(leaderCommit, last index) never covers an entry the leader has not
\* committed, although it looks at the end of the log instead of the last
\* entry received; and no two entries are committed at the same index.
CommitSafety ==
  /\ \A i \in Node : upTo(entriesOf(i), commitIndex[i]) \subseteq committed
  /\ \A x, y \in committed : x.index = y.index => x = y

\* A committed entry is in the files of a majority, so that any minority of
\* nodes may crash (AppendEntries persists before it answers).
CommittedDurable ==
  \A x \in committed :
    Cardinality({i \in Node : x \in onDisk(i)}) >= Majority

\* What a leader counts when it commits: matchIndex of a peer never exceeds what
\* the peer shares with the leader, unless the peer has moved on to a later term,
\* however late the reply and whatever the leader appended or compacted since.
\* Up to lastIncludedIndex nothing is claimed: becomeLeader sets matchIndex of
\* every peer to it without asking.
MatchIndexSound ==
  \A i, j \in Node :
    /\ state[i] = "Leader" /\ currentTerm[j] = currentTerm[i]
    /\ matchIndex[i][j] > lastIncludedIndex[i]
    => upTo(entriesOf(i), matchIndex[i][j]) \subseteq entriesOf(j)

(***************************************************************************)
(* Indexing                                                                *)
(***************************************************************************)

\* No handler indexes a slice out of bounds: the next entry a leader sends
\* follows one it has (genAppendEntriesArgs, findLastIndexOfTerm), the applier
\* and Snapshot find the committed entries in the log.  A follower's
\* ConflictIndex that pointed beyond the leader's log would crash the leader.
NoPanic ==
  \A i \in Node :
    /\ lastIncludedIndex[i] <= commitIndex[i]
    /\ InBounds(i, commitIndex[i])
    /\ state[i] = "Leader" =>
         \A j \in Node \ {i} : nextIndex[i][j] \in 1 .. getLen(i)

(***************************************************************************)
(* The service                                                             *)
(***************************************************************************)

\* Every service has applied a prefix of the same sequence of commands, with
\* no command skipped, repeated or reordered by a batch, a snapshot or a
\* restart (README: "Every replica applies committed log entries to its
\* database in the exact same order").
AppliedInOrder ==
  \A i \in Node : \A k \in DOMAIN applied[i] :
    applied[i][k].index = k /\ applied[i][k] \in committed

\* The snapshot file holds exactly the commands that raft-state says have been
\* compacted away, on disk at every moment.
SnapshotComplete ==
  \A i \in Node :
    /\ Len(snapshot[i]) = raftState[i].lastIncludedIndex
    /\ \A k \in DOMAIN snapshot[i] : snapshot[i][k].index = k

(***************************************************************************)
(* Fairness.  The goroutines that apply and compact are never blocked for  *)
(* good; the heartbeat timer of a leader fires again and again; and of a   *)
(* request sent again and again one arrives, and so does its reply.  This  *)
(* is strong fairness: a reply is handled once per request, so that stale  *)
(* ones, which may move nextIndex back and forth meanwhile, run out.  The  *)
(* replicators, asleep on their condition variables, promise nothing.      *)
(***************************************************************************)
request(i, peer) ==
  IF nextIndex[i][peer] <= lastIncludedIndex[i]
  THEN genInstallSnapshotArgs(i, peer)
  ELSE genAppendEntriesArgs(i, peer, nextIndex[i][peer] - 1)

\* What leader i sends to peer now, and has sent before, is received.
RequestArrives(i, peer) ==
  \E m \in msgs :
    /\ state[i] = "Leader" /\ m = request(i, peer)
    /\ AppendEntries(m) \/ InstallSnapshot(m)

\* A reply to what leader i sends to peer now is received.
ReplyArrives(i, peer) ==
  \E m \in msgs :
    /\ state[i] = "Leader" /\ m.from = peer /\ m.to = i
    /\ \/ /\ AppendEntriesReply(m)
          /\ m.prevLogIndex = nextIndex[i][peer] - 1
       \/ InstallSnapshotReply(m)

FairService ==
  \A i \in Node : WF_vars(applier(i)) /\ WF_vars(Deliver(i))
                  /\ WF_vars(checkSnapshot(i))

FairLeader(i) ==
  \A peer \in Node \ {i} : /\ SF_vars(Heartbeat(i, peer))
                            /\ SF_vars(RequestArrives(i, peer))
                            /\ WF_vars(ReplyArrives(i, peer))

=============================================================================
