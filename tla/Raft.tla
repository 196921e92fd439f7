-------------------------------- MODULE Raft --------------------------------
(***************************************************************************)
(* The consensus layer of kvraft (internal/raft): leader election, log     *)
(* replication with the conflict-index optimisation, log compaction by     *)
(* snapshots, persistence, and the applier that feeds the service.         *)
(*                                                                         *)
(* One variable per field of the struct Raft, indexed by node.  Every      *)
(* handler of the code runs under rf.mu, so it is one action; what happens *)
(* between two critical sections of the same goroutine (an RPC in flight,  *)
(* the applier sending on applyCh) is kept in msgs and applyCh.            *)
(*                                                                         *)
(* Network.  A call is a goroutine that sends one request and handles at   *)
(* most one reply; either may be lost or arbitrarily late.  A candidate    *)
(* calls each peer once per term, so a vote request is handled at most     *)
(* once and a granted vote is counted at most once.  AppendEntries and     *)
(* InstallSnapshot are sent again by every heartbeat and by the            *)
(* replicator, so the same request may be in flight any number of times:   *)
(* msgs never shrinks, and a message in it may be handled never, once or   *)
(* many times.                                                             *)
(*                                                                         *)
(* Timers fire at any time; signals on condition variables are implied by  *)
(* the guard of the goroutine they wake.                                   *)
(***************************************************************************)
EXTENDS Integers, Sequences, FiniteSets, FiniteSetsExt

CONSTANTS
  Node,          \* the cluster; a node is its position in config.Nodes
  Nil,           \* -1 in votedFor and currentLeader, nil as a Command
  MaxTerm,       \* bound: no election is started beyond this term
  MaxIndex,      \* bound: Start accepts no command beyond this index
  MaxRestarts,   \* bound: restarts of one node
  MaxRaftState,  \* rsm.maxRaftState, with log entries for bytes; -1: never snapshot
  TornSave       \* may a crash fall between the two renames of FilePersister.Save?

ASSUME NodeAssumption ==
  /\ IsFiniteSet(Node)
  /\ Cardinality(Node) >= 3
  /\ Nil \notin Node

ASSUME BoundAssumption ==
  /\ MaxTerm \in Nat
  /\ MaxIndex \in Nat
  /\ MaxRestarts \in Nat
  /\ MaxRaftState \in Int
  /\ TornSave \in BOOLEAN

VARIABLES
  \* volatile copy of the persistent fields
  currentTerm, votedFor, logs, lastIncludedIndex, lastIncludedTerm,
  \* role
  state, currentLeader, grantedVotes,
  \* leader's view of its peers
  nextIndex, matchIndex,
  \* commit and apply
  commitIndex, lastApplied, applyCh,
  \* the service behind applyCh (internal/rsm): its state, the index it has
  \* applied, and whether its reader has yet to call checkSnapshot
  applied, rsmLastApplied, checking,
  \* the two files of FilePersister
  raftState, snapshot,
  \* environment
  msgs, restarts,
  \* history: every entry a leader ever marked committed, and the log of the
  \* leader of every term so far, as long as it has become
  committed, termLog

termVars == <<currentTerm, votedFor>>
logVars == <<logs, lastIncludedIndex, lastIncludedTerm>>
roleVars == <<state, currentLeader, grantedVotes>>
peerVars == <<nextIndex, matchIndex>>
applyVars == <<lastApplied, applyCh, applied, rsmLastApplied, checking>>
diskVars == <<raftState, snapshot>>
vars == <<termVars, logVars, roleVars, peerVars, commitIndex, applyVars,
          diskVars, msgs, restarts, committed, termLog>>

-----------------------------------------------------------------------------
(* Values                                                                  *)

Majority == Cardinality(Node) \div 2 + 1

(***************************************************************************)
(* A command is an sm.Op with a random 64-bit Id, so no two Start calls    *)
(* carry the same command.  A node accepts one command per term and index, *)
(* hence cmd only records Op.Me: <<index, term, cmd>> identifies the op.   *)
(***************************************************************************)
Entry == [index : Nat, term : Nat, cmd : Node \cup {Nil}]

\* logs[0] of an empty log (Make, line 86)
Dummy == [index |-> 0, term |-> 0, cmd |-> Nil]

\* The service state is the sequence of commands applied to it, and so is a
\* snapshot of it.
ServiceState == Seq(Entry)

\* The file raft-state, as encodeState writes it.
PersistentState ==
  [currentTerm : Nat, votedFor : Node \cup {Nil}, logs : Seq(Entry) \ {<<>>},
   lastIncludedIndex : Nat, lastIncludedTerm : Nat]

ApplyMsg ==
       [type : {"Command"}, entry : Entry]
  \cup [type : {"Snapshot"}, index : Nat, data : ServiceState]

(* Messages.  A reply carries, besides the reply struct, the arguments the
   caller still holds in its goroutine.  inc is the incarnation of the
   caller: the goroutine waiting for a reply dies with its process.        *)
RequestVoteArgs ==
  [type : {"RequestVote"}, from : Node, to : Node, term : Nat,
   lastLogIndex : Nat, lastLogTerm : Nat]
RequestVoteReplies ==
  [type : {"RequestVoteReply"}, from : Node, to : Node, term : Nat,
   replyTerm : Nat, voteGranted : BOOLEAN]
AppendEntriesArgs ==
  [type : {"AppendEntries"}, from : Node, to : Node, inc : Nat, term : Nat,
   prevLogIndex : Nat, prevLogTerm : Nat, entries : Seq(Entry),
   leaderCommit : Nat]
AppendEntriesReplies ==
  [type : {"AppendEntriesReply"}, from : Node, to : Node, inc : Nat,
   term : Nat, prevLogIndex : Nat, numEntries : Nat, replyTerm : Nat,
   success : BOOLEAN, conflictIndex : Nat, conflictTerm : Int]
InstallSnapshotArgs ==
  [type : {"InstallSnapshot"}, from : Node, to : Node, inc : Nat, term : Nat,
   lastIncludedIndex : Nat, lastIncludedTerm : Nat, data : ServiceState]
InstallSnapshotReplies ==
  [type : {"InstallSnapshotReply"}, from : Node, to : Node, inc : Nat,
   term : Nat, lastIncludedIndex : Nat, replyTerm : Nat]

Message ==
       RequestVoteArgs \cup RequestVoteReplies
  \cup AppendEntriesArgs \cup AppendEntriesReplies
  \cup InstallSnapshotArgs \cup InstallSnapshotReplies

-----------------------------------------------------------------------------
(* The log.  logs[i][1] is logs[0] of the code: the entry at              *)
(* lastIncludedIndex, a placeholder for everything before it.             *)

getLastLog(i) == logs[i][Len(logs[i])]

getLen(i) == lastIncludedIndex[i] + Len(logs[i])

getLog(i, index) == logs[i][index - lastIncludedIndex[i] + 1]

\* The log with what the snapshot stands for
wholeLog(i) == snapshot[i] \o Tail(logs[i])

\* Go's bounds check: indexing outside of it panics.  Handlers that index
\* without a check of their own carry it as a guard, and NoPanic states that
\* the guard never stops one.
InBounds(i, index) == index \in lastIncludedIndex[i] .. getLen(i) - 1

hasEntryAt(i, index, term) ==
  InBounds(i, index) /\ getLog(i, index).term = term

isLogUpToDate(i, candidateTerm, candidateIndex) ==
  LET lastLog == getLastLog(i)
  IN  IF candidateTerm # lastLog.term
      THEN candidateTerm > lastLog.term
      ELSE candidateIndex >= lastLog.index

\* Mutant: an entry that is there is kept whatever its term.
appendMissingEntries(i, entries) ==
  LET missing == {k \in DOMAIN entries : entries[k].index >= getLen(i)}
  IN  IF missing = {} THEN logs[i]
      ELSE logs[i] \o SubSeq(entries, Min(missing), Len(entries))

\* logs after appendNewEntries: cut at the first entry that is new or has
\* another term, and continued with the leader's entries from there.
appendNewEntries(i, entries) ==
  LET differs == {k \in DOMAIN entries :
                    \/ entries[k].index >= getLen(i)
                    \/ getLog(i, entries[k].index).term # entries[k].term}
      k == Min(differs)
      kept == IF entries[k].index < getLen(i)
              THEN SubSeq(logs[i], 1, entries[k].index - lastIncludedIndex[i])
              ELSE logs[i]
  IN  IF differs = {} THEN logs[i]
      ELSE kept \o SubSeq(entries, k, Len(entries))

\* Mutant: no placeholder for what the snapshot covers.
truncateToNothing(i, index, term) ==
  IF index < getLen(i) /\ getLog(i, index).term = term
  THEN SubSeq(logs[i], index - lastIncludedIndex[i] + 1, Len(logs[i]))
  ELSE <<>>

\* logs after a snapshot up to index: what follows it if the entry there is
\* the one the snapshot ends with, nothing otherwise.
truncateLogWithSnapshot(i, index, term) ==
  IF index < getLen(i) /\ getLog(i, index).term = term
  THEN SubSeq(logs[i], index - lastIncludedIndex[i] + 1, Len(logs[i]))
  ELSE <<[index |-> index, term |-> term, cmd |-> Nil]>>

-----------------------------------------------------------------------------
(* Persistence.  Both operators write the values the step ends with.       *)

\* Mutant: the vote is not written.
encodeStateWithoutVote(i) ==
  [currentTerm |-> currentTerm[i], votedFor |-> Nil,
   logs |-> logs[i], lastIncludedIndex |-> lastIncludedIndex[i],
   lastIncludedTerm |-> lastIncludedTerm[i]]

encodeState(i) ==
  [currentTerm |-> currentTerm[i], votedFor |-> votedFor[i],
   logs |-> logs[i], lastIncludedIndex |-> lastIncludedIndex[i],
   lastIncludedTerm |-> lastIncludedTerm[i]]

\* Mutant: only term and vote are written.
persistTerm(i) ==
  /\ raftState' = [raftState EXCEPT ![i].currentTerm = currentTerm'[i],
                                    ![i].votedFor = votedFor'[i]]
  /\ UNCHANGED snapshot

\* Writes the snapshot file back unchanged.
persist(i) ==
  /\ raftState' = [raftState EXCEPT ![i] = encodeState(i)']
  /\ UNCHANGED snapshot

\* Mutant: the snapshot is not written.
SaveStateOnly(i, data) ==
  /\ raftState' = [raftState EXCEPT ![i] = encodeState(i)']
  /\ UNCHANGED snapshot

Save(i, data) ==
  /\ raftState' = [raftState EXCEPT ![i] = encodeState(i)']
  /\ snapshot' = [snapshot EXCEPT ![i] = data]

(***************************************************************************)
(* A process starts (Make, readPersist, MakeRSM): everything volatile is   *)
(* initial or comes from the files, whose contents are rs and data.        *)
(***************************************************************************)
Boot(i, rs, data) ==
  /\ currentTerm' = [currentTerm EXCEPT ![i] = rs.currentTerm]
  /\ votedFor' = [votedFor EXCEPT ![i] = rs.votedFor]
  /\ logs' = [logs EXCEPT ![i] = rs.logs]
  /\ lastIncludedIndex' = [lastIncludedIndex EXCEPT ![i] = rs.lastIncludedIndex]
  /\ lastIncludedTerm' = [lastIncludedTerm EXCEPT ![i] = rs.lastIncludedTerm]
  /\ state' = [state EXCEPT ![i] = "Follower"]
  /\ currentLeader' = [currentLeader EXCEPT ![i] = Nil]
  /\ grantedVotes' = [grantedVotes EXCEPT ![i] = {}]
  /\ nextIndex' = [nextIndex EXCEPT ![i] = [j \in Node |-> 0]]
  /\ matchIndex' = [matchIndex EXCEPT ![i] = [j \in Node |-> 0]]
  /\ commitIndex' = [commitIndex EXCEPT ![i] = rs.lastIncludedIndex]
  /\ lastApplied' = [lastApplied EXCEPT ![i] = rs.lastIncludedIndex]
  /\ applyCh' = [applyCh EXCEPT ![i] = <<>>]
  /\ applied' = [applied EXCEPT ![i] = data]
  /\ rsmLastApplied' = [rsmLastApplied EXCEPT ![i] = 0]
  /\ checking' = [checking EXCEPT ![i] = FALSE]
  /\ raftState' = [raftState EXCEPT ![i] = rs]
  /\ restarts' = [restarts EXCEPT ![i] = @ + 1]
  /\ UNCHANGED <<snapshot, msgs, committed, termLog>>

Init ==
  /\ currentTerm = [i \in Node |-> 0]
  /\ votedFor = [i \in Node |-> Nil]
  /\ logs = [i \in Node |-> <<Dummy>>]
  /\ lastIncludedIndex = [i \in Node |-> 0]
  /\ lastIncludedTerm = [i \in Node |-> 0]
  /\ state = [i \in Node |-> "Follower"]
  /\ currentLeader = [i \in Node |-> Nil]
  /\ grantedVotes = [i \in Node |-> {}]
  /\ nextIndex = [i \in Node |-> [j \in Node |-> 0]]
  /\ matchIndex = [i \in Node |-> [j \in Node |-> 0]]
  /\ commitIndex = [i \in Node |-> 0]
  /\ lastApplied = [i \in Node |-> 0]
  /\ applyCh = [i \in Node |-> <<>>]
  /\ applied = [i \in Node |-> <<>>]
  /\ rsmLastApplied = [i \in Node |-> 0]
  /\ checking = [i \in Node |-> FALSE]
  \* no file yet: reads as the initial values
  /\ raftState = [i \in Node |->
       [currentTerm |-> 0, votedFor |-> Nil, logs |-> <<Dummy>>,
        lastIncludedIndex |-> 0, lastIncludedTerm |-> 0]]
  /\ snapshot = [i \in Node |-> <<>>]
  /\ msgs = {}
  /\ restarts = [i \in Node |-> 0]
  /\ committed = {}
  /\ termLog = [t \in {} |-> <<>>]

-----------------------------------------------------------------------------
(* Election (ticker.go)                                                    *)

\* Steps down; currentLeader keeps naming the leader of the old term.
handleHigherTerm(i, term) ==
  /\ currentTerm' = [currentTerm EXCEPT ![i] = term]
  /\ votedFor' = [votedFor EXCEPT ![i] = Nil]
  /\ state' = [state EXCEPT ![i] = "Follower"]
  /\ UNCHANGED <<logVars, currentLeader, grantedVotes>>
  /\ persist(i)

genRequestVoteArgs(i, peer) ==
  [type |-> "RequestVote", from |-> i, to |-> peer, term |-> currentTerm'[i],
   lastLogIndex |-> getLastLog(i).index, lastLogTerm |-> getLastLog(i).term]

startElection(i) ==
  /\ votedFor' = [votedFor EXCEPT ![i] = i]
  /\ currentLeader' = [currentLeader EXCEPT ![i] = Nil]
  /\ grantedVotes' = [grantedVotes EXCEPT ![i] = {i}]
  /\ msgs' = msgs \cup {genRequestVoteArgs(i, peer) : peer \in Node \ {i}}

\* Persists twice, first with the vote of the old term: CrashInElection is
\* the crash in between.
becomeCandidate(i) ==
  /\ state' = [state EXCEPT ![i] = "Candidate"]
  /\ currentTerm' = [currentTerm EXCEPT ![i] = @ + 1]
  /\ startElection(i)
  /\ UNCHANGED logVars
  /\ persist(i)

\* ticker, electionTimer.C; a leader only rearms the timer.
ElectionTimeout(i) ==
  /\ currentTerm[i] < MaxTerm
  /\ state[i] # "Leader"
  /\ becomeCandidate(i)
  /\ UNCHANGED <<peerVars, commitIndex, applyVars, restarts, committed, termLog>>

\* Mutant: the vote is reset in the same term too.
voteBeforeReset(i, term) == IF term >= currentTerm[i] THEN Nil ELSE votedFor[i]

\* votedFor when the handler of a request of this term decides its vote
voteBefore(i, term) == IF term > currentTerm[i] THEN Nil ELSE votedFor[i]

\* Mutant: the vote already given does not count.
canAlwaysVote(i, term, candidate) == voteBefore(i, term) \in Node \cup {Nil}

canVote(i, term, candidate) == voteBefore(i, term) \in {Nil, candidate}

\* The reply carries the term from before the update.
RequestVote(m) ==
  LET i == m.to
      granted == /\ m.term >= currentTerm[i]
                 /\ canVote(i, m.term, m.from)
                 /\ isLogUpToDate(i, m.lastLogTerm, m.lastLogIndex)
      reply == [type |-> "RequestVoteReply", from |-> i, to |-> m.from,
                term |-> m.term, replyTerm |-> currentTerm[i],
                voteGranted |-> granted]
  IN
  /\ m.type = "RequestVote"
  \* one call per candidate, peer and term
  /\ ~ \E r \in msgs : /\ r.type = "RequestVoteReply"
                       /\ r.from = i /\ r.to = m.from /\ r.term = m.term
  /\ msgs' = msgs \cup {reply}
  /\ \/ /\ m.term < currentTerm[i]
        /\ UNCHANGED <<termVars, roleVars, logVars, diskVars>>
     \/ /\ m.term >= currentTerm[i]
        /\ currentTerm' = [currentTerm EXCEPT ![i] = m.term]
        /\ votedFor' = [votedFor EXCEPT
             ![i] = IF granted THEN m.from ELSE voteBefore(i, m.term)]
        /\ state' = [state EXCEPT
             ![i] = IF m.term > currentTerm[i] THEN "Follower" ELSE @]
        /\ UNCHANGED <<currentLeader, grantedVotes, logVars>>
        /\ persist(i)
  /\ UNCHANGED <<peerVars, commitIndex, applyVars, restarts, committed, termLog>>

isStillValidCandidate(i, electionTerm) ==
  state[i] = "Candidate" /\ currentTerm[i] = electionTerm

\* Mutant: every peer is taken to have the leader's log.
matchIndexOfAll(i, j) == getLastLog(i).index

\* lastIncludedIndex for every peer, also for one that is behind it
initialMatchIndex(i, j) ==
  IF j = i THEN getLastLog(i).index ELSE lastIncludedIndex[i]

becomeLeader(i) ==
  LET lastIndex == getLastLog(i).index IN
  /\ state' = [state EXCEPT ![i] = "Leader"]
  /\ currentLeader' = [currentLeader EXCEPT ![i] = i]
  /\ nextIndex' = [nextIndex EXCEPT ![i] = [j \in Node |-> lastIndex + 1]]
  /\ matchIndex' = [matchIndex EXCEPT
       ![i] = [j \in Node |-> initialMatchIndex(i, j)]]
  /\ termLog' = [t \in DOMAIN termLog \cup {currentTerm[i]} |->
       IF t = currentTerm[i] THEN wholeLog(i) ELSE termLog[t]]

\* requestVoteFromPeer, once the call has returned.  grantedVotes is the
\* code's counter as the set of the nodes it has counted.
RequestVoteReply(m) ==
  LET i == m.to
      votes == grantedVotes[i] \cup {m.from}
  IN
  /\ m.type = "RequestVoteReply"
  /\ isStillValidCandidate(i, m.term)
  /\ \/ /\ m.replyTerm > currentTerm[i]
        /\ handleHigherTerm(i, m.replyTerm)
        /\ UNCHANGED <<peerVars, termLog>>
     \/ /\ m.replyTerm <= currentTerm[i]
        /\ m.voteGranted
        /\ m.from \notin grantedVotes[i]
        /\ grantedVotes' = [grantedVotes EXCEPT ![i] = votes]
        /\ IF Cardinality(votes) = Majority
           THEN becomeLeader(i)
           ELSE UNCHANGED <<state, currentLeader, peerVars, termLog>>
        /\ UNCHANGED <<termVars, logVars, diskVars>>
  /\ UNCHANGED <<commitIndex, applyVars, msgs, restarts, committed>>

-----------------------------------------------------------------------------
(* Replication (log_replication.go, storage.go)                            *)

Start(i) ==
  LET entry == [index |-> getLen(i), term |-> currentTerm[i], cmd |-> i] IN
  /\ getLen(i) <= MaxIndex
  /\ state[i] = "Leader"
  /\ logs' = [logs EXCEPT ![i] = Append(@, entry)]
  /\ UNCHANGED <<termVars, lastIncludedIndex, lastIncludedTerm>>
  /\ persist(i)
  /\ termLog' = [termLog EXCEPT ![currentTerm[i]] = Append(@, entry)]
  /\ UNCHANGED <<roleVars, peerVars, commitIndex, applyVars, msgs, restarts,
                 committed>>

\* Mutant: starts one entry early.
entriesFrom(i, prevLogIndex) ==
  SubSeq(logs[i], prevLogIndex - lastIncludedIndex[i] + 1, Len(logs[i]))

\* Always the whole suffix: advanceCommitIndex relies on it.
entriesAfter(i, prevLogIndex) ==
  SubSeq(logs[i], prevLogIndex - lastIncludedIndex[i] + 2, Len(logs[i]))

genAppendEntriesArgs(i, peer, prevLogIndex) ==
  [type |-> "AppendEntries", from |-> i, to |-> peer, inc |-> restarts[i],
   term |-> currentTerm[i], prevLogIndex |-> prevLogIndex,
   prevLogTerm |-> getLog(i, prevLogIndex).term,
   entries |-> entriesAfter(i, prevLogIndex),
   leaderCommit |-> commitIndex[i]]

genInstallSnapshotArgs(i, peer) ==
  [type |-> "InstallSnapshot", from |-> i, to |-> peer, inc |-> restarts[i],
   term |-> currentTerm[i], lastIncludedIndex |-> lastIncludedIndex[i],
   lastIncludedTerm |-> lastIncludedTerm[i], data |-> snapshot[i]]

replicateToPeer(i, peer) ==
  /\ state[i] = "Leader"
  /\ \/ /\ nextIndex[i][peer] <= lastIncludedIndex[i]
        /\ msgs' = msgs \cup {genInstallSnapshotArgs(i, peer)}
     \/ /\ nextIndex[i][peer] > lastIncludedIndex[i]
        /\ InBounds(i, nextIndex[i][peer] - 1)
        /\ msgs' = msgs \cup
             {genAppendEntriesArgs(i, peer, nextIndex[i][peer] - 1)}
  /\ UNCHANGED <<termVars, logVars, roleVars, peerVars, commitIndex, applyVars,
                 diskVars, restarts, committed, termLog>>

needsReplication(i, peer) ==
  state[i] = "Leader" /\ matchIndex[i][peer] < getLastLog(i).index

\* One round of the replicator goroutine of a peer
replicator(i, peer) == needsReplication(i, peer) /\ replicateToPeer(i, peer)

\* ticker, heartBeatTimer.C, and the broadcast of a new leader: a goroutine
\* per peer, each of which samples the leader's state when it runs.
Heartbeat(i, peer) == replicateToPeer(i, peer)

\* Mutant: one too low for a short log.
consistencyConflictLow(i, m) ==
  IF m.prevLogIndex >= getLen(i) THEN [index |-> getLen(i) - 1, term |-> -1]
  ELSE [index |-> lastIncludedIndex[i] + 1, term |-> -1]

\* handleConsistencyConflict: the hint sent back when prevLogIndex does not match
consistencyConflict(i, m) ==
  LET conflictTerm == getLog(i, m.prevLogIndex).term
      other == {k \in lastIncludedIndex[i] + 1 .. m.prevLogIndex :
                  getLog(i, k).term # conflictTerm}
  IN  IF m.prevLogIndex < lastIncludedIndex[i]
      THEN [index |-> lastIncludedIndex[i] + 1, term |-> -1]
      ELSE IF m.prevLogIndex >= getLen(i)
      THEN [index |-> getLen(i), term |-> -1]
      ELSE [index |-> Max({lastIncludedIndex[i]} \cup other) + 1,
            term |-> conflictTerm]

\* Mutant: everything in the log, once the leader has committed more.
advanceCommitIndexToEnd(i, leaderCommit, len) ==
  IF leaderCommit > commitIndex[i] THEN len - 1 ELSE commitIndex[i]

\* commitIndex after advanceCommitIndex, for a log that then ends before len
advanceCommitIndex(i, leaderCommit, len) ==
  IF leaderCommit > commitIndex[i] THEN Min({leaderCommit, len - 1})
  ELSE commitIndex[i]

appendReply(m, replyTerm, success, conflictIndex, conflictTerm) ==
  [type |-> "AppendEntriesReply", from |-> m.to, to |-> m.from, inc |-> m.inc,
   term |-> m.term, prevLogIndex |-> m.prevLogIndex,
   numEntries |-> Len(m.entries), replyTerm |-> replyTerm,
   success |-> success, conflictIndex |-> conflictIndex,
   conflictTerm |-> conflictTerm]

\* What both requests of a leader do to a node that is not ahead of it
followLeader(m) ==
  LET i == m.to IN
  /\ m.term >= currentTerm[i]
  /\ currentTerm' = [currentTerm EXCEPT ![i] = m.term]
  /\ votedFor' = [votedFor EXCEPT ![i] = voteBefore(i, m.term)]
  /\ currentLeader' = [currentLeader EXCEPT ![i] = m.from]
  /\ state' = [state EXCEPT ![i] = "Follower"]
  /\ UNCHANGED grantedVotes

AppendEntries(m) ==
  LET i == m.to
      conflict == consistencyConflict(i, m)
      newLogs == appendNewEntries(i, m.entries)
  IN
  /\ m.type = "AppendEntries"
  /\ \/ /\ m.term < currentTerm[i]
        /\ msgs' = msgs \cup {appendReply(m, currentTerm[i], FALSE, 0, 0)}
        /\ UNCHANGED <<termVars, roleVars, logVars, commitIndex, diskVars>>
     \/ /\ followLeader(m)
        /\ ~ hasEntryAt(i, m.prevLogIndex, m.prevLogTerm)
        /\ msgs' = msgs \cup {appendReply(m, currentTerm[i], FALSE,
                                          conflict.index, conflict.term)}
        /\ UNCHANGED <<logVars, commitIndex>>
        /\ persist(i)
     \/ /\ followLeader(m)
        /\ hasEntryAt(i, m.prevLogIndex, m.prevLogTerm)
        /\ logs' = [logs EXCEPT ![i] = newLogs]
        /\ commitIndex' = [commitIndex EXCEPT
             ![i] = advanceCommitIndex(i, m.leaderCommit,
                      lastIncludedIndex[i] + Len(newLogs))]
        /\ msgs' = msgs \cup {appendReply(m, currentTerm[i], TRUE, 0, 0)}
        /\ UNCHANGED <<lastIncludedIndex, lastIncludedTerm>>
        /\ persist(i)
  /\ UNCHANGED <<peerVars, applyVars, restarts, committed, termLog>>

\* The last index of the term in the leader's log, searching down from
\* startSearch, or -1
findLastIndexOfTerm(i, term, startSearch) ==
  LET found == {k \in lastIncludedIndex[i] + 1 .. getLen(i) - 1 :
                  k <= startSearch /\ getLog(i, k).term = term}
  IN  IF found = {} THEN -1 ELSE Max(found)

\* Mutant: the peer is asked again from the same index.
resolveConflictNot(i, m) == nextIndex[i][m.from]

\* nextIndex of the peer after resolveConflict
resolveConflict(i, m) ==
  LET lastIdx == findLastIndexOfTerm(i, m.conflictTerm, m.prevLogIndex) IN
  IF m.prevLogIndex < lastIncludedIndex[i] THEN nextIndex[i][m.from]
  ELSE IF m.conflictTerm # -1 /\ lastIdx > 0 THEN lastIdx + 1
  ELSE m.conflictIndex

\* Mutant: the leader's log of now instead of what was sent.
advancePeerIndicesNow(i, m) ==
  /\ matchIndex' = [matchIndex EXCEPT ![i][m.from] = getLen(i) - 1]
  /\ nextIndex' = [nextIndex EXCEPT ![i][m.from] = getLen(i)]

advancePeerIndices(i, m) ==
  LET newMatch == m.prevLogIndex + m.numEntries IN
  IF newMatch > matchIndex[i][m.from]
  THEN /\ matchIndex' = [matchIndex EXCEPT ![i][m.from] = newMatch]
       /\ nextIndex' = [nextIndex EXCEPT ![i][m.from] = newMatch + 1]
  ELSE UNCHANGED peerVars

countNodesWithLogAt(i, match, index) ==
  Cardinality({j \in Node \ {i} : match[j] >= index}) + 1

\* Mutants: an entry of any term; half of the nodes.
committableAnyTerm(i, match, n) ==
  countNodesWithLogAt(i, match, n) > Cardinality(Node) \div 2
committableByHalf(i, match, n) ==
  /\ getLog(i, n).term = currentTerm[i]
  /\ countNodesWithLogAt(i, match, n) >= Cardinality(Node) \div 2

committable(i, match, n) ==
  /\ getLog(i, n).term = currentTerm[i]
  /\ countNodesWithLogAt(i, match, n) > Cardinality(Node) \div 2

\* What a node has: the entries its snapshot stands for and those of its log
logEntries(log) == {log[k] : k \in 2 .. Len(log)}
entriesOf(i) == Range(snapshot[i]) \cup logEntries(logs[i])

\* Reads the matchIndex the reply has just advanced.
updateCommitIndex(i) ==
  LET match == matchIndex'[i]
      found == {n \in commitIndex[i] + 1 .. getLen(i) - 1 :
                  committable(i, match, n)}
  IN  IF found = {} THEN UNCHANGED <<commitIndex, committed>>
      ELSE /\ commitIndex' = [commitIndex EXCEPT ![i] = Max(found)]
           /\ committed' = committed \cup
                {e \in entriesOf(i) : e.index <= Max(found)}

\* A reply to a leader's request reaches the goroutine that sent it.
AppendEntriesReply(m) ==
  LET i == m.to IN
  /\ m.type = "AppendEntriesReply"
  /\ m.inc = restarts[i]
  /\ \/ /\ m.replyTerm > currentTerm[i]
        /\ handleHigherTerm(i, m.replyTerm)
        /\ UNCHANGED <<peerVars, commitIndex, committed>>
     \/ /\ m.replyTerm <= currentTerm[i]
        /\ state[i] = "Leader" /\ currentTerm[i] = m.term
        /\ \/ /\ ~ m.success
              /\ nextIndex' = [nextIndex EXCEPT
                   ![i][m.from] = resolveConflict(i, m)]
              /\ UNCHANGED <<matchIndex, commitIndex, committed>>
           \/ /\ m.success
              /\ advancePeerIndices(i, m)
              /\ updateCommitIndex(i)
        /\ UNCHANGED <<termVars, roleVars, logVars, diskVars>>
  /\ UNCHANGED <<applyVars, msgs, restarts, termLog>>

\* Mutant: left to the next AppendEntries.
commitIndexAsBefore(i, index) == commitIndex[i]

\* commitIndex of a node that installs a snapshot up to index
commitIndexWithSnapshot(i, index) == Max({commitIndex[i], index})

InstallSnapshot(m) ==
  LET i == m.to
      reply == [type |-> "InstallSnapshotReply", from |-> i, to |-> m.from,
                inc |-> m.inc, term |-> m.term,
                lastIncludedIndex |-> m.lastIncludedIndex,
                replyTerm |-> currentTerm[i]]
  IN
  /\ m.type = "InstallSnapshot"
  /\ msgs' = msgs \cup {reply}
  /\ \/ /\ m.term < currentTerm[i]
        /\ UNCHANGED <<termVars, roleVars, logVars, commitIndex, diskVars>>
     \/ /\ followLeader(m)
        /\ m.lastIncludedIndex <= lastIncludedIndex[i]
        /\ UNCHANGED <<logVars, commitIndex>>
        /\ IF m.term > currentTerm[i] THEN persist(i) ELSE UNCHANGED diskVars
     \/ /\ followLeader(m)
        /\ m.lastIncludedIndex > lastIncludedIndex[i]
        /\ logs' = [logs EXCEPT ![i] = truncateLogWithSnapshot(i,
                      m.lastIncludedIndex, m.lastIncludedTerm)]
        /\ lastIncludedIndex' =
             [lastIncludedIndex EXCEPT ![i] = m.lastIncludedIndex]
        /\ lastIncludedTerm' =
             [lastIncludedTerm EXCEPT ![i] = m.lastIncludedTerm]
        /\ commitIndex' = [commitIndex EXCEPT
             ![i] = commitIndexWithSnapshot(i, m.lastIncludedIndex)]
        /\ Save(i, m.data)
  /\ UNCHANGED <<peerVars, applyVars, restarts, committed, termLog>>

InstallSnapshotReply(m) ==
  LET i == m.to IN
  /\ m.type = "InstallSnapshotReply"
  /\ m.inc = restarts[i]
  /\ \/ /\ m.replyTerm > currentTerm[i]
        /\ handleHigherTerm(i, m.replyTerm)
        /\ UNCHANGED peerVars
     \/ /\ m.replyTerm <= currentTerm[i]
        /\ state[i] = "Leader" /\ currentTerm[i] = m.term
        /\ nextIndex' = [nextIndex EXCEPT
             ![i][m.from] = Max({@, m.lastIncludedIndex + 1})]
        /\ matchIndex' = [matchIndex EXCEPT
             ![i][m.from] = Max({@, m.lastIncludedIndex})]
        /\ UNCHANGED <<termVars, roleVars, logVars, diskVars>>
  /\ UNCHANGED <<commitIndex, applyVars, msgs, restarts, committed, termLog>>

-----------------------------------------------------------------------------
(* Applying and compacting                                                 *)

\* A round of the applier up to its Unlock.  The previous round has sent all
\* it took.
applier(i) ==
  /\ applyCh[i] = <<>>
  /\ lastApplied[i] < commitIndex[i]
  /\ IF lastApplied[i] < lastIncludedIndex[i]
     THEN /\ applyCh' = [applyCh EXCEPT ![i] =
               <<[type |-> "Snapshot", index |-> lastIncludedIndex[i],
                  data |-> snapshot[i]]>>]
          /\ lastApplied' = [lastApplied EXCEPT ![i] = lastIncludedIndex[i]]
     ELSE /\ InBounds(i, commitIndex[i])
          /\ applyCh' = [applyCh EXCEPT ![i] =
               [k \in 1 .. commitIndex[i] - lastApplied[i] |->
                  [type |-> "Command", entry |-> getLog(i, lastApplied[i] + k)]]]
          /\ lastApplied' = [lastApplied EXCEPT ![i] = commitIndex[i]]
  /\ UNCHANGED <<termVars, logVars, roleVars, peerVars, commitIndex, applied,
                 rsmLastApplied, checking, diskVars, msgs, restarts, committed,
                 termLog>>

msgIndex(msg) == IF msg.type = "Snapshot" THEN msg.index ELSE msg.entry.index

\* handleCommand drops an index it has seen; handleSnapshot drops nothing.
\* rsm.lastApplied is 0 after a restart, whatever the restored snapshot covers.
isStale(i, msg) ==
  msg.type = "Command" /\ msg.entry.index <= rsmLastApplied[i]

\* Mutant: the service does not take over the snapshot.
serviceAfterCommands(i, msg) ==
  IF msg.type = "Snapshot" THEN applied[i] ELSE Append(applied[i], msg.entry)

\* The service state after DoOp of a command or Restore of a snapshot
serviceAfter(i, msg) ==
  IF msg.type = "Snapshot" THEN msg.data ELSE Append(applied[i], msg.entry)

\* applyCh <- msg, received by the reader of the RSM: it applies a command or
\* takes over a snapshot.  After a command it goes on to checkSnapshot before
\* it receives again (a step that does nothing without snapshots).
Deliver(i) ==
  LET msg == Head(applyCh[i]) IN
  /\ applyCh[i] # <<>>
  /\ ~ checking[i]
  /\ applyCh' = [applyCh EXCEPT ![i] = Tail(@)]
  /\ IF isStale(i, msg)
     THEN UNCHANGED <<applied, rsmLastApplied, checking>>
     ELSE /\ applied' = [applied EXCEPT ![i] = serviceAfter(i, msg)]
          /\ rsmLastApplied' = [rsmLastApplied EXCEPT ![i] = msgIndex(msg)]
          /\ checking' = [checking EXCEPT
               ![i] = msg.type = "Command" /\ MaxRaftState # -1]
  /\ UNCHANGED <<termVars, logVars, roleVars, peerVars, commitIndex,
                 lastApplied, diskVars, msgs, restarts, committed, termLog>>

\* checkSnapshot asks for a snapshot up to the command just applied, and
\* Raft's Snapshot does not refuse it.
snapshotDue(i) ==
  /\ Len(raftState[i].logs) >= MaxRaftState
  /\ rsmLastApplied[i] > lastIncludedIndex[i]
  /\ rsmLastApplied[i] <= commitIndex[i]
  /\ InBounds(i, rsmLastApplied[i])

\* Mutant: what follows the snapshot is dropped as well.
logsFromNothing(i, index) == <<getLog(i, index)>>

logsFrom(i, index) ==
  SubSeq(logs[i], index - lastIncludedIndex[i] + 1, Len(logs[i]))

Snapshot(i, index) ==
  /\ logs' = [logs EXCEPT ![i] = logsFrom(i, index)]
  /\ lastIncludedIndex' = [lastIncludedIndex EXCEPT ![i] = index]
  /\ lastIncludedTerm' =
       [lastIncludedTerm EXCEPT ![i] = Head(logsFrom(i, index)).term]
  /\ UNCHANGED termVars
  /\ Save(i, applied[i])

checkSnapshot(i) ==
  /\ checking[i]
  /\ checking' = [checking EXCEPT ![i] = FALSE]
  /\ \/ /\ snapshotDue(i)
        /\ Snapshot(i, rsmLastApplied[i])
     \/ /\ ~ snapshotDue(i)
        /\ UNCHANGED <<termVars, logVars, diskVars>>
  /\ UNCHANGED <<roleVars, peerVars, commitIndex, lastApplied, applyCh, applied,
                 rsmLastApplied, msgs, restarts, committed, termLog>>

-----------------------------------------------------------------------------
(* Crashes.  A process is killed and started again; a crash before a       *)
(* handler's first write to disk is one before the handler.                *)

Restart(i) ==
  /\ restarts[i] < MaxRestarts
  /\ Boot(i, raftState[i], snapshot[i])

\* Between the two persists of an election: the new term with the old vote.
CrashInElection(i) ==
  /\ restarts[i] < MaxRestarts
  /\ currentTerm[i] < MaxTerm
  /\ state[i] # "Leader"
  /\ Boot(i, [encodeState(i) EXCEPT !.currentTerm = @ + 1], snapshot[i])

\* Between persist and Save in InstallSnapshot: the new term without the
\* snapshot.
CrashInInstallSnapshot(m) ==
  LET i == m.to IN
  /\ m.type = "InstallSnapshot"
  /\ restarts[i] < MaxRestarts
  /\ m.term > currentTerm[i]
  /\ Boot(i, [encodeState(i) EXCEPT !.currentTerm = m.term, !.votedFor = Nil],
          snapshot[i])

\* Between the two renames of the Save of Snapshot: the compacted raft-state
\* with the snapshot of before.
CrashInSave(i) ==
  LET index == rsmLastApplied[i] IN
  /\ TornSave
  /\ restarts[i] < MaxRestarts
  /\ checking[i]
  /\ snapshotDue(i)
  /\ Boot(i, [encodeState(i) EXCEPT
               !.logs = logsFrom(i, index), !.lastIncludedIndex = index,
               !.lastIncludedTerm = Head(logsFrom(i, index)).term],
          snapshot[i])

\* The same in the Save of InstallSnapshot
CrashInInstallSave(m) ==
  LET i == m.to IN
  /\ m.type = "InstallSnapshot"
  /\ TornSave
  /\ restarts[i] < MaxRestarts
  /\ m.term >= currentTerm[i]
  /\ m.lastIncludedIndex > lastIncludedIndex[i]
  /\ Boot(i, [currentTerm |-> m.term, votedFor |-> voteBefore(i, m.term),
              logs |-> truncateLogWithSnapshot(i, m.lastIncludedIndex,
                                               m.lastIncludedTerm),
              lastIncludedIndex |-> m.lastIncludedIndex,
              lastIncludedTerm |-> m.lastIncludedTerm],
          snapshot[i])

-----------------------------------------------------------------------------
NodeStep(i) ==
  \/ ElectionTimeout(i)
  \/ Start(i)
  \/ applier(i)
  \/ Deliver(i)
  \/ checkSnapshot(i)
  \/ Restart(i)
  \/ CrashInElection(i)
  \/ CrashInSave(i)

SendStep(i, peer) ==
  \/ replicator(i, peer)
  \/ Heartbeat(i, peer)

Receive(m) ==
  \/ RequestVote(m)
  \/ RequestVoteReply(m)
  \/ AppendEntries(m)
  \/ AppendEntriesReply(m)
  \/ InstallSnapshot(m)
  \/ InstallSnapshotReply(m)
  \/ CrashInInstallSnapshot(m)
  \/ CrashInInstallSave(m)

Next ==
  \/ \E i \in Node : NodeStep(i)
  \/ \E i \in Node : \E peer \in Node \ {i} : SendStep(i, peer)
  \/ \E m \in msgs : Receive(m)

Spec == Init /\ [][Next]_vars

-----------------------------------------------------------------------------
(* Types                                                                   *)

TermTypes ==
  /\ currentTerm \in [Node -> Nat]
  /\ votedFor \in [Node -> Node \cup {Nil}]
LogTypes ==
  /\ logs \in [Node -> Seq(Entry) \ {<<>>}]
  /\ lastIncludedIndex \in [Node -> Nat]
  /\ lastIncludedTerm \in [Node -> Nat]
RoleTypes ==
  /\ state \in [Node -> {"Follower", "Candidate", "Leader"}]
  /\ currentLeader \in [Node -> Node \cup {Nil}]
  /\ grantedVotes \in [Node -> SUBSET Node]
PeerTypes ==
  /\ nextIndex \in [Node -> [Node -> Nat]]
  /\ matchIndex \in [Node -> [Node -> Nat]]
CommitTypes ==
  /\ commitIndex \in [Node -> Nat]
  /\ committed \in SUBSET Entry
TermLogTypes ==
  /\ DOMAIN termLog \in SUBSET Nat
  /\ termLog \in [DOMAIN termLog -> Seq(Entry)]
ApplyTypes ==
  /\ lastApplied \in [Node -> Nat]
  /\ applyCh \in [Node -> Seq(ApplyMsg)]
  /\ applied \in [Node -> ServiceState]
  /\ rsmLastApplied \in [Node -> Nat]
  /\ checking \in [Node -> BOOLEAN]
DiskTypes ==
  /\ raftState \in [Node -> PersistentState]
  /\ snapshot \in [Node -> ServiceState]
EnvTypes ==
  /\ msgs \in SUBSET Message
  /\ restarts \in [Node -> Nat]

\* Every field holds a value of its type; in particular no log is ever empty,
\* so that getFirstLog and getLastLog always find an entry.
TypeOK ==
  /\ TermTypes /\ LogTypes /\ RoleTypes /\ PeerTypes
  /\ CommitTypes /\ TermLogTypes /\ ApplyTypes /\ DiskTypes /\ EnvTypes

inPlace(log, first) == \A k \in DOMAIN log : log[k].index = first + k - 1

\* The Index field of an entry is its position, in every log, in raft-state and
\* in every request: appendNewEntries places entries by Index, everything else
\* by position.  And raft-state is what the node has in memory whenever rf.mu
\* is free, so nothing is answered before it is on disk.
EntriesInPlace ==
  /\ \A i \in Node : /\ inPlace(logs[i], lastIncludedIndex[i])
                     /\ raftState[i] = encodeState(i)
  /\ \A m \in msgs : m.type = "AppendEntries"
                       => inPlace(m.entries, m.prevLogIndex + 1)

\* What every step preserves of the shape of a state
TypeInv == TypeOK /\ EntriesInPlace

=============================================================================
