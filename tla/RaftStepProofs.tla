---------------------------- MODULE RaftStepProofs ---------------------------
(***************************************************************************)
(* Types are preserved by the log replication, the applier, the snapshots  *)
(* and the crashes of Raft, and with them by every step: the second half   *)
(* of the argument that RaftTypeProofs begins.                             *)
(***************************************************************************)
EXTENDS RaftTypeProofs

\* The hint of a follower.
LEMMA ConflictType ==
  ASSUME Least, TypeInv, NEW i \in Node, NEW m, m.prevLogIndex \in Nat
  PROVE  consistencyConflict(i, m).index \in Nat /\ consistencyConflict(i, m).term \in Int
<1> DEFINE p == m.prevLogIndex
           t == getLog(i, p).term
           other == {k \in lastIncludedIndex[i] + 1 .. p : getLog(i, k).term # t}
           S == {lastIncludedIndex[i]} \cup other
<1>1. lastIncludedIndex[i] \in Nat /\ getLen(i) \in Nat  BY LogFacts
<1>2. CASE p < lastIncludedIndex[i]
  BY <1>1, <1>2 DEF consistencyConflict
<1>3. CASE p >= lastIncludedIndex[i] /\ p >= getLen(i)
  BY <1>1, <1>3 DEF consistencyConflict
<1>4. CASE p >= lastIncludedIndex[i] /\ p < getLen(i)
  <2>1. t \in Nat
    <3>1. p \in lastIncludedIndex[i] .. getLen(i) - 1  BY <1>1, <1>4
    <3> QED  BY <3>1, LogFacts DEF Entry
  <2>2. S \in SUBSET Nat /\ S # {} /\ \A k \in S : k <= p  BY <1>1, <1>4
  <2>3. Max(S) \in Nat
    <3> HIDE DEF S
    <3> QED  BY <2>2, MaxExists, Zenon
  <2>4. consistencyConflict(i, m) = [index |-> Max(S) + 1, term |-> t]
    BY <1>1, <1>4 DEF consistencyConflict
  <2> HIDE DEF S, t
  <2> QED  BY <2>1, <2>3, <2>4
<1> QED  BY <1>1, <1>2, <1>3, <1>4

\* A follower stays in place: what it keeps ends where the entries taken
\* from the request begin.
LEMMA AppendEntriesType ==
  ASSUME Least, TypeInv, NEW m \in msgs, AppendEntries(m)
  PROVE  TypeInv'
<1> DEFINE i == m.to
<1>0. UNCHANGED <<peerVars, applyVars, restarts, committed, termLog>>
  BY DEF AppendEntries
<1>1. m \in AppendEntriesArgs
  BY MessageKinds DEF AppendEntries
<1>2. /\ i \in Node /\ m.from \in Node /\ m.term \in Nat /\ m.inc \in Nat
      /\ m.prevLogIndex \in Nat /\ m.entries \in Seq(Entry) /\ m.leaderCommit \in Nat
      /\ Len(m.entries) \in Nat
      /\ inPlace(m.entries, m.prevLogIndex + 1)
  <2>1. /\ i \in Node /\ m.from \in Node /\ m.term \in Nat /\ m.inc \in Nat
        /\ m.prevLogIndex \in Nat /\ m.entries \in Seq(Entry) /\ m.leaderCommit \in Nat
    BY <1>1 DEF AppendEntriesArgs
  <2>2. Len(m.entries) \in Nat  BY <2>1
  <2>3. inPlace(m.entries, m.prevLogIndex + 1)
    BY Zenon DEF AppendEntries, TypeInv, EntriesInPlace
  <2> QED  BY <2>1, <2>2, <2>3, Zenon
<1>3. currentTerm[i] \in Nat /\ commitIndex[i] \in Nat
  BY <1>2 DEF TypeInv, TypeOK, TermTypes, CommitTypes
<1>4. ASSUME NEW ok \in BOOLEAN, NEW ci \in Nat, NEW ct \in Int,
             msgs' = msgs \cup {appendReply(m, currentTerm[i], ok, ci, ct)}
      PROVE  /\ msgs' \in SUBSET Message
             /\ \A x \in msgs' : x.type = "AppendEntries" => x \in msgs
  <2>1. appendReply(m, currentTerm[i], ok, ci, ct) \in AppendEntriesReplies
    BY <1>2, <1>3 DEF appendReply, AppendEntriesReplies
  <2> QED  BY <1>4, <2>1 DEF TypeInv, TypeOK, EnvTypes, Message, AppendEntriesReplies
<1>5. CASE /\ m.term < currentTerm[i]
           /\ msgs' = msgs \cup {appendReply(m, currentTerm[i], FALSE, 0, 0)}
           /\ UNCHANGED <<termVars, roleVars, logVars, commitIndex, diskVars>>
  <2>1. /\ msgs' \in SUBSET Message
        /\ \A x \in msgs' : x.type = "AppendEntries" => x \in msgs
    <3>1. 0 \in Nat /\ 0 \in Int  OBVIOUS
    <3> QED  BY <1>4, <1>5, <3>1, Zenon
  <2>2. EntriesInPlace'  BY <1>5, <2>1, FrameInPlace, Zenon DEF diskVars
  <2>3. TypeOK'
    BY <1>0, <1>5, <2>1, SameTypes, Zenon DEF TypeInv, TypeOK, CommitTypes, EnvTypes
  <2> QED  BY <2>2, <2>3 DEF TypeInv
<1>6. CASE /\ followLeader(m)
           /\ msgs' = msgs \cup {appendReply(m, currentTerm[i], FALSE,
                        consistencyConflict(i, m).index, consistencyConflict(i, m).term)}
           /\ UNCHANGED <<logVars, commitIndex>>
           /\ persist(i)
  <2>1. /\ msgs' \in SUBSET Message
        /\ \A x \in msgs' : x.type = "AppendEntries" => x \in msgs
    BY <1>2, <1>4, <1>6, ConflictType, Zenon
  <2>2. /\ voteBefore(i, m.term) \in Node \cup {Nil}
        /\ currentLeader' \in [Node -> Node \cup {Nil}]
        /\ state' \in [Node -> {"Follower", "Candidate", "Leader"}]
        /\ grantedVotes' \in [Node -> SUBSET Node]
    BY <1>2, <1>6, FollowLeaderType
  <2>3. /\ currentTerm' \in [Node -> Nat]
        /\ votedFor' \in [Node -> Node \cup {Nil}]
        /\ raftState' \in [Node -> PersistentState]
        /\ EntriesInPlace'
    BY <1>2, <1>6, <2>1, <2>2, PersistTermType, Zenon DEF followLeader
  <2>4. TypeOK'
    BY <1>0, <1>6, <2>1, <2>2, <2>3, SameTypes, Zenon
    DEF persist, TypeInv, TypeOK, TermTypes, RoleTypes, CommitTypes, DiskTypes, EnvTypes
  <2> QED  BY <2>3, <2>4 DEF TypeInv
<1>7. CASE /\ followLeader(m)
           /\ hasEntryAt(i, m.prevLogIndex, m.prevLogTerm)
           /\ logs' = [logs EXCEPT ![i] = appendNewEntries(i, m.entries)]
           /\ commitIndex' = [commitIndex EXCEPT
                ![i] = advanceCommitIndex(i, m.leaderCommit,
                         lastIncludedIndex[i] + Len(appendNewEntries(i, m.entries)))]
           /\ msgs' = msgs \cup {appendReply(m, currentTerm[i], TRUE, 0, 0)}
           /\ UNCHANGED <<lastIncludedIndex, lastIncludedTerm>>
           /\ persist(i)
  <2>1. /\ msgs' \in SUBSET Message
        /\ \A x \in msgs' : x.type = "AppendEntries" => x \in msgs
    <3>1. 0 \in Nat /\ 0 \in Int  OBVIOUS
    <3> QED  BY <1>4, <1>7, <3>1, Zenon
  <2>2. PICK new : new = appendNewEntries(i, m.entries)  OBVIOUS
  <2>3. new \in Seq(Entry) \ {<<>>} /\ inPlace(new, lastIncludedIndex[i])
    BY <1>2, <1>7, <2>2, AppendNewEntriesInPlace DEF hasEntryAt
  <2>4. logs' \in [Node -> Seq(Entry) \ {<<>>}] /\ logs'[i] = new
    BY <1>2, <1>7, <2>2, <2>3 DEF TypeInv, TypeOK, LogTypes
  <2>5. commitIndex' \in [Node -> Nat]
    <3>1. Len(new) \in Nat \ {0} /\ lastIncludedIndex[i] \in Nat
      BY <1>2, <2>3 DEF TypeInv, TypeOK, LogTypes
    <3> DEFINE len == lastIncludedIndex[i] + Len(new)
    <3>2. len - 1 \in Nat  BY <3>1
    <3> HIDE DEF len
    <3>3. Min({m.leaderCommit, len - 1}) \in Nat  BY <1>2, <3>2, MinOfTwo
    <3>4. advanceCommitIndex(i, m.leaderCommit, len) \in Nat
      BY <1>3, <3>3 DEF advanceCommitIndex
    <3> QED  BY <1>2, <1>7, <2>2, <3>4 DEF TypeInv, TypeOK, CommitTypes, len
  <2>6. /\ currentTerm' \in [Node -> Nat]
        /\ votedFor' \in [Node -> Node \cup {Nil}]
        /\ currentLeader' \in [Node -> Node \cup {Nil}]
        /\ state' \in [Node -> {"Follower", "Candidate", "Leader"}]
        /\ grantedVotes' \in [Node -> SUBSET Node]
    BY <1>2, <1>7, FollowLeaderType, Zenon
  <2>7. \A j \in Node \ {i} : encodeState(j)' = encodeState(j)
    BY <1>2, <1>7, Zenon DEF encodeState, followLeader, TypeInv, TypeOK, TermTypes, LogTypes
  <2>8. inPlace(logs'[i], lastIncludedIndex'[i])
    BY <1>7, <2>3, <2>4
  <2>9. /\ raftState' \in [Node -> PersistentState]
        /\ \A j \in Node : /\ inPlace(logs'[j], lastIncludedIndex'[j])
                           /\ raftState'[j] = encodeState(j)'
    BY <1>2, <1>7, <2>4, <2>6, <2>7, <2>8, Persisted, Zenon DEF TypeInv, TypeOK, LogTypes, DiskTypes, persist
  <2>10. EntriesInPlace'
    BY <2>1, <2>9 DEF TypeInv, EntriesInPlace
  <2>11. TypeOK'
    BY <1>0, <1>7, <2>1, <2>4, <2>5, <2>6, <2>9, SameTypes, Zenon DEF persist, TypeInv,
        TypeOK, TermTypes, LogTypes, RoleTypes, CommitTypes, DiskTypes, EnvTypes
  <2> QED  BY <2>10, <2>11 DEF TypeInv
<1> QED  BY <1>5, <1>6, <1>7, Zenon DEF AppendEntries

\* An update of one field of a leader's tables.
LEMMA TableUpdate ==
  ASSUME NEW f \in [Node -> [Node -> Nat]], NEW i \in Node, NEW j \in Node, NEW n \in Nat
  PROVE  [f EXCEPT ![i][j] = n] \in [Node -> [Node -> Nat]]
OBVIOUS

\* The next index a conflict leaves.
LEMMA ResolveConflictType ==
  ASSUME Least, TypeInv, NEW i \in Node, NEW m \in AppendEntriesReplies
  PROVE  resolveConflict(i, m) \in Nat
<1> DEFINE found == {k \in lastIncludedIndex[i] + 1 .. getLen(i) - 1 :
                       k <= m.prevLogIndex /\ getLog(i, k).term = m.conflictTerm}
           last == findLastIndexOfTerm(i, m.conflictTerm, m.prevLogIndex)
<1>1. m.from \in Node /\ m.conflictIndex \in Nat /\ m.prevLogIndex \in Nat
  BY DEF AppendEntriesReplies
<1>2. nextIndex[i][m.from] \in Nat  BY <1>1 DEF TypeInv, TypeOK, PeerTypes
<1>3. last \in Int
  <2>1. lastIncludedIndex[i] \in Nat /\ getLen(i) \in Nat  BY LogFacts
  <2>2. found \in SUBSET Nat /\ \A k \in found : k <= getLen(i)  BY <2>1
  <2>3. found # {} => Max(found) \in Nat
    <3> HIDE DEF found
    <3> QED  BY <2>1, <2>2, MaxExists, Zenon
  <2>4. last = IF found = {} THEN -1 ELSE Max(found)
    BY DEF findLastIndexOfTerm
  <2> HIDE DEF found, last
  <2> QED  BY <2>3, <2>4
<1> HIDE DEF last
<1>4. last > 0 => last + 1 \in Nat  BY <1>3
<1> QED  BY <1>1, <1>2, <1>4 DEF resolveConflict, last

\* Everything a node has is an entry.
LEMMA EntriesOfType ==
  ASSUME TypeInv, NEW i \in Node
  PROVE  entriesOf(i) \in SUBSET Entry
<1>1. snapshot[i] \in Seq(Entry) /\ logs[i] \in Seq(Entry) /\ Len(logs[i]) \in Nat
  BY LogFacts DEF TypeInv, TypeOK, LogTypes, DiskTypes, ServiceState
<1>2. Range(snapshot[i]) \in SUBSET Entry
  <2>1. \A k \in DOMAIN snapshot[i] : snapshot[i][k] \in Entry
    BY <1>1
  <2> QED  BY <2>1 DEF Range
<1>3. logEntries(logs[i]) \in SUBSET Entry
  <2>1. \A k \in 2 .. Len(logs[i]) : logs[i][k] \in Entry
    <3> TAKE k \in 2 .. Len(logs[i])
    <3>1. k \in 1 .. Len(logs[i])  BY <1>1
    <3> QED  BY <1>1, <3>1
  <2> QED  BY <2>1 DEF logEntries
<1> QED  BY <1>2, <1>3 DEF entriesOf

\* The new commit index is one of the leader's indices.
LEMMA UpdateCommitIndexType ==
  ASSUME Least, TypeInv, NEW i \in Node, updateCommitIndex(i)
  PROVE  commitIndex' \in [Node -> Nat] /\ committed' \in SUBSET Entry
<1> DEFINE found == {n \in commitIndex[i] + 1 .. getLen(i) - 1 :
                       committable(i, matchIndex'[i], n)}
<1>1. CASE found = {}
  BY <1>1 DEF updateCommitIndex, TypeInv, TypeOK, CommitTypes
<1>2. CASE found # {}
  <2>1. commitIndex[i] \in Nat /\ getLen(i) \in Nat
    BY LogFacts DEF TypeInv, TypeOK, CommitTypes
  <2>2. found \in SUBSET Nat /\ \A k \in found : k <= getLen(i)
    BY <2>1
  <2>3. /\ commitIndex' = [commitIndex EXCEPT ![i] = Max(found)]
        /\ committed' = committed \cup {e \in entriesOf(i) : e.index <= Max(found)}
    BY <1>2 DEF updateCommitIndex
  <2>4. Max(found) \in Nat
    <3> HIDE DEF found
    <3> QED  BY <1>2, <2>1, <2>2, MaxExists, Zenon
  <2> HIDE DEF found
  <2> QED  BY <2>3, <2>4, EntriesOfType DEF TypeInv, TypeOK, CommitTypes
<1> QED  BY <1>1, <1>2

\* Handling the reply to AppendEntries keeps nextIndex, matchIndex and
\* commitIndex natural numbers.
LEMMA AppendEntriesReplyType ==
  ASSUME Least, TypeInv, NEW m \in msgs, AppendEntriesReply(m)
  PROVE  TypeInv'
<1> DEFINE i == m.to
<1>0. UNCHANGED <<applyVars, msgs, restarts, termLog>>
  BY DEF AppendEntriesReply
<1>1. m \in AppendEntriesReplies
  BY MessageKinds DEF AppendEntriesReply
<1>2. /\ i \in Node /\ m.from \in Node /\ m.replyTerm \in Nat
      /\ m.prevLogIndex \in Nat /\ m.numEntries \in Nat
  BY <1>1 DEF AppendEntriesReplies
<1>3. CASE /\ handleHigherTerm(i, m.replyTerm)
           /\ UNCHANGED <<peerVars, commitIndex, committed>>
  BY <1>0, <1>2, <1>3, HigherTermType
<1>4. CASE /\ \/ /\ nextIndex' = [nextIndex EXCEPT ![i][m.from] = resolveConflict(i, m)]
                 /\ UNCHANGED <<matchIndex, commitIndex, committed>>
              \/ /\ advancePeerIndices(i, m)
                 /\ updateCommitIndex(i)
           /\ UNCHANGED <<termVars, roleVars, logVars, diskVars>>
  <2>1. EntriesInPlace'
    BY <1>0, <1>4, FrameInPlace DEF diskVars
  <2>2. /\ nextIndex' \in [Node -> [Node -> Nat]]
        /\ matchIndex' \in [Node -> [Node -> Nat]]
        /\ commitIndex' \in [Node -> Nat]
        /\ committed' \in SUBSET Entry
    <3>1. CASE /\ nextIndex' = [nextIndex EXCEPT ![i][m.from] = resolveConflict(i, m)]
               /\ UNCHANGED <<matchIndex, commitIndex, committed>>
      <4>1. resolveConflict(i, m) \in Nat  BY <1>1, <1>2, ResolveConflictType
      <4> QED  BY <1>2, <3>1, <4>1 DEF TypeInv, TypeOK, PeerTypes, CommitTypes
    <3>2. CASE advancePeerIndices(i, m) /\ updateCommitIndex(i)
      <4>1. m.prevLogIndex + m.numEntries \in Nat  BY <1>2
      <4>2. nextIndex' \in [Node -> [Node -> Nat]] /\ matchIndex' \in [Node -> [Node -> Nat]]
        <5> DEFINE n == m.prevLogIndex + m.numEntries
        <5>1. n \in Nat /\ n + 1 \in Nat  BY <4>1
        <5>2. \/ /\ matchIndex' = [matchIndex EXCEPT ![i][m.from] = n]
                 /\ nextIndex' = [nextIndex EXCEPT ![i][m.from] = n + 1]
              \/ matchIndex' = matchIndex /\ nextIndex' = nextIndex
          BY <3>2 DEF advancePeerIndices, peerVars
        <5> HIDE DEF n
        <5>3. /\ nextIndex \in [Node -> [Node -> Nat]]
              /\ matchIndex \in [Node -> [Node -> Nat]]
          BY DEF TypeInv, TypeOK, PeerTypes
        <5>4. /\ [matchIndex EXCEPT ![i][m.from] = n] \in [Node -> [Node -> Nat]]
              /\ [nextIndex EXCEPT ![i][m.from] = n + 1] \in [Node -> [Node -> Nat]]
          BY <1>2, <5>1, <5>3, TableUpdate, Zenon
        <5> QED  BY <5>2, <5>3, <5>4, Zenon
      <4> QED  BY <1>2, <3>2, <4>2, UpdateCommitIndexType
    <3> QED  BY <1>4, <3>1, <3>2
  <2>3. TypeOK'
    BY <1>0, <1>4, <2>2, SameTypes DEF TypeInv, TypeOK, PeerTypes, CommitTypes
  <2> QED  BY <2>1, <2>3 DEF TypeInv
<1> QED  BY <1>3, <1>4 DEF AppendEntriesReply

\* Neither less nor greater is equal.
LEMMA NotGreater ==
  ASSUME NEW a \in Nat, NEW b \in Nat, a >= b, ~ (a > b)
  PROVE  a = b
OBVIOUS

\* A log cut by an installed snapshot starts at the index the snapshot ends.
LEMMA InstallSnapshotType ==
  ASSUME TypeInv, NEW m \in msgs, InstallSnapshot(m)
  PROVE  TypeInv'
<1> DEFINE i == m.to
<1>0. UNCHANGED <<peerVars, applyVars, restarts, committed, termLog>>
  BY Zenon DEF InstallSnapshot
<1>1. m \in InstallSnapshotArgs
  BY MessageKinds DEF InstallSnapshot
<1>2. /\ i \in Node /\ m.from \in Node /\ m.term \in Nat /\ m.inc \in Nat
      /\ m.lastIncludedIndex \in Nat /\ m.lastIncludedTerm \in Nat
      /\ m.data \in ServiceState
  BY <1>1 DEF InstallSnapshotArgs
<1>3. currentTerm[i] \in Nat /\ commitIndex[i] \in Nat
  BY <1>2, Zenon DEF TypeInv, TypeOK, TermTypes, CommitTypes
<1>4. /\ msgs' \in SUBSET Message
      /\ \A x \in msgs' : x.type = "AppendEntries" => x \in msgs
  <2> DEFINE reply == [type |-> "InstallSnapshotReply", from |-> i, to |-> m.from,
                       inc |-> m.inc, term |-> m.term,
                       lastIncludedIndex |-> m.lastIncludedIndex,
                       replyTerm |-> currentTerm[i]]
  <2>1. msgs' = msgs \cup {reply}  BY Zenon DEF InstallSnapshot
  <2>2. reply \in InstallSnapshotReplies
    BY <1>2, <1>3 DEF InstallSnapshotReplies
  <2> QED  BY <2>1, <2>2, Zenon DEF TypeInv, TypeOK, EnvTypes, Message, InstallSnapshotReplies
<1>5. CASE UNCHANGED <<termVars, roleVars, logVars, commitIndex, diskVars>>
  <2>1. EntriesInPlace'  BY <1>4, <1>5, FrameInPlace, Zenon DEF diskVars
  <2>2. TypeOK'
    BY <1>0, <1>4, <1>5, SameTypes DEF TypeInv, TypeOK, CommitTypes, EnvTypes
  <2> QED  BY <2>1, <2>2 DEF TypeInv
<1>6. CASE /\ followLeader(m)
           /\ UNCHANGED <<logVars, commitIndex>>
           /\ IF m.term > currentTerm[i] THEN persist(i) ELSE UNCHANGED diskVars
  <2>1. /\ voteBefore(i, m.term) \in Node \cup {Nil}
        /\ currentTerm' \in [Node -> Nat]
        /\ votedFor' \in [Node -> Node \cup {Nil}]
        /\ currentLeader' \in [Node -> Node \cup {Nil}]
        /\ state' \in [Node -> {"Follower", "Candidate", "Leader"}]
        /\ grantedVotes' \in [Node -> SUBSET Node]
    BY <1>2, <1>6, FollowLeaderType, Zenon
  <2>2. raftState' \in [Node -> PersistentState] /\ snapshot' = snapshot /\ EntriesInPlace'
    <3>1. CASE m.term > currentTerm[i]
      BY <1>2, <1>4, <1>6, <2>1, <3>1, PersistTermType, Zenon DEF followLeader, persist
    <3>2. CASE ~ (m.term > currentTerm[i])
      <4>1. m.term = currentTerm[i] /\ voteBefore(i, m.term) = votedFor[i]
        <5>1. m.term >= currentTerm[i]  BY <1>6 DEF followLeader
        <5>2. m.term = currentTerm[i]  BY <1>2, <1>3, <3>2, <5>1, NotGreater, Zenon
        <5> QED  BY <3>2, <5>2 DEF voteBefore
      <4>2. UNCHANGED <<currentTerm, votedFor>>
        BY <1>2, <1>6, <4>1 DEF followLeader, TypeInv, TypeOK, TermTypes
      <4>3. UNCHANGED diskVars  BY <1>6, <3>2, Zenon
      <4> QED
        BY <1>4, <1>6, <4>2, <4>3, FrameInPlace DEF diskVars, termVars, TypeInv, TypeOK, DiskTypes
    <3> QED  BY <3>1, <3>2
  <2>3. TypeOK'
    BY <1>0, <1>4, <1>6, <2>1, <2>2, SameTypes
    DEF TypeInv, TypeOK, TermTypes, RoleTypes, CommitTypes, DiskTypes, EnvTypes
  <2> QED  BY <2>2, <2>3, Zenon DEF TypeInv
<1>7. CASE /\ followLeader(m)
           /\ m.lastIncludedIndex > lastIncludedIndex[i]
           /\ logs' = [logs EXCEPT ![i] = truncateLogWithSnapshot(i,
                         m.lastIncludedIndex, m.lastIncludedTerm)]
           /\ lastIncludedIndex' =
                [lastIncludedIndex EXCEPT ![i] = m.lastIncludedIndex]
           /\ lastIncludedTerm' =
                [lastIncludedTerm EXCEPT ![i] = m.lastIncludedTerm]
           /\ commitIndex' = [commitIndex EXCEPT
                ![i] = commitIndexWithSnapshot(i, m.lastIncludedIndex)]
           /\ Save(i, m.data)
  <2>1. PICK new : new = truncateLogWithSnapshot(i, m.lastIncludedIndex, m.lastIncludedTerm)
    BY Zenon
  <2>2. new \in Seq(Entry) \ {<<>>} /\ inPlace(new, m.lastIncludedIndex)
    BY <1>2, <1>7, <2>1, TruncateInPlace, Zenon
  <2>3. /\ logs' \in [Node -> Seq(Entry) \ {<<>>}] /\ logs'[i] = new
        /\ lastIncludedIndex' \in [Node -> Nat]
        /\ lastIncludedIndex'[i] = m.lastIncludedIndex
        /\ lastIncludedTerm' \in [Node -> Nat]
    BY <1>2, <1>7, <2>1, <2>2 DEF TypeInv, TypeOK, LogTypes
  <2>4. commitIndex' \in [Node -> Nat]
    <3>1. commitIndexWithSnapshot(i, m.lastIncludedIndex) \in Nat
      BY <1>2, <1>3, MaxOfTwo DEF commitIndexWithSnapshot
    <3> QED  BY <1>2, <1>7, <3>1 DEF TypeInv, TypeOK, CommitTypes
  <2>5. /\ currentTerm' \in [Node -> Nat]
        /\ votedFor' \in [Node -> Node \cup {Nil}]
        /\ currentLeader' \in [Node -> Node \cup {Nil}]
        /\ state' \in [Node -> {"Follower", "Candidate", "Leader"}]
        /\ grantedVotes' \in [Node -> SUBSET Node]
    BY <1>2, <1>7, FollowLeaderType, Zenon
  <2>6. \A j \in Node \ {i} : encodeState(j)' = encodeState(j)
    BY <1>2, <1>7 DEF encodeState, followLeader, TypeInv, TypeOK, TermTypes, LogTypes
  <2>7. inPlace(logs'[i], lastIncludedIndex'[i])
    BY <2>2, <2>3
  <2>8. /\ raftState' \in [Node -> PersistentState]
        /\ \A j \in Node : /\ inPlace(logs'[j], lastIncludedIndex'[j])
                           /\ raftState'[j] = encodeState(j)'
    BY <1>2, <1>7, <2>3, <2>5, <2>6, <2>7, Persisted, Zenon DEF Save
  <2>9. snapshot' \in [Node -> ServiceState]
    BY <1>2, <1>7, Zenon DEF Save, TypeInv, TypeOK, DiskTypes
  <2>10. EntriesInPlace'
    BY <1>4, <2>8 DEF TypeInv, EntriesInPlace
  <2>11. TypeOK'
    BY <1>0, <1>4, <2>3, <2>4, <2>5, <2>8, <2>9, SameTypes, Zenon DEF TypeInv, TypeOK,
        TermTypes, LogTypes, RoleTypes, CommitTypes, DiskTypes, EnvTypes
  <2> QED  BY <2>10, <2>11 DEF TypeInv
<1> QED  BY <1>5, <1>6, <1>7, Zenon DEF InstallSnapshot

\* Handling the reply to InstallSnapshot keeps the types.
LEMMA InstallSnapshotReplyType ==
  ASSUME TypeInv, NEW m \in msgs, InstallSnapshotReply(m)
  PROVE  TypeInv'
<1> DEFINE i == m.to
<1>0. UNCHANGED <<commitIndex, applyVars, msgs, restarts, committed, termLog>>
  BY Zenon DEF InstallSnapshotReply
<1>1. m \in InstallSnapshotReplies
  BY MessageKinds DEF InstallSnapshotReply
<1>2. i \in Node /\ m.from \in Node /\ m.replyTerm \in Nat /\ m.lastIncludedIndex \in Nat
  BY <1>1, Zenon DEF InstallSnapshotReplies
<1>3. CASE handleHigherTerm(i, m.replyTerm) /\ UNCHANGED peerVars
  BY <1>0, <1>2, <1>3, HigherTermType
<1>4. CASE /\ nextIndex' = [nextIndex EXCEPT
                ![i][m.from] = Max({@, m.lastIncludedIndex + 1})]
           /\ matchIndex' = [matchIndex EXCEPT
                ![i][m.from] = Max({@, m.lastIncludedIndex})]
           /\ UNCHANGED <<termVars, roleVars, logVars, diskVars>>
  <2>1. EntriesInPlace'
    BY <1>0, <1>4, FrameInPlace DEF diskVars
  <2>2. nextIndex[i][m.from] \in Nat /\ matchIndex[i][m.from] \in Nat
        /\ m.lastIncludedIndex + 1 \in Nat
    <3>1. nextIndex[i] \in [Node -> Nat] /\ matchIndex[i] \in [Node -> Nat]
      BY <1>2, Zenon DEF TypeInv, TypeOK, PeerTypes
    <3> QED  BY <1>2, <3>1
  <2>3. /\ Max({nextIndex[i][m.from], m.lastIncludedIndex + 1}) \in Nat
        /\ Max({matchIndex[i][m.from], m.lastIncludedIndex}) \in Nat
    BY <1>2, <2>2, MaxOfTwo, Zenon
  <2>4. /\ nextIndex' \in [Node -> [Node -> Nat]]
        /\ matchIndex' \in [Node -> [Node -> Nat]]
    BY <1>2, <1>4, <2>3, Zenon DEF TypeInv, TypeOK, PeerTypes
  <2>5. TypeOK'
    BY <1>0, <1>4, <2>4, SameTypes DEF TypeInv, TypeOK, PeerTypes
  <2> QED  BY <2>1, <2>5 DEF TypeInv
<1> QED  BY <1>3, <1>4 DEF InstallSnapshotReply

\* The batch the applier takes consists of entries of the log.
LEMMA ApplierBatch ==
  ASSUME TypeInv, NEW i \in Node, NEW a \in Nat, NEW c \in Nat,
         a < c, a >= lastIncludedIndex[i], InBounds(i, c)
  PROVE  [k \in 1 .. c - a |-> [type |-> "Command", entry |-> getLog(i, a + k)]]
           \in Seq(ApplyMsg)
<1>1. lastIncludedIndex[i] \in Nat /\ getLen(i) \in Nat /\ c <= getLen(i) - 1
  BY LogFacts DEF InBounds
<1>2. PICK n \in Nat : n = c - a  OBVIOUS
<1>3. ASSUME NEW k \in 1 .. n
      PROVE  [type |-> "Command", entry |-> getLog(i, a + k)] \in ApplyMsg
  <2>1. a + k \in lastIncludedIndex[i] .. getLen(i) - 1  BY <1>1, <1>2
  <2>2. getLog(i, a + k) \in Entry  BY <2>1, LogFacts
  <2> QED  BY <2>2 DEF ApplyMsg
<1>4. [k \in 1 .. n |-> [type |-> "Command", entry |-> getLog(i, a + k)]]
        \in [1 .. n -> ApplyMsg]
  BY <1>3
<1>5. ASSUME NEW f \in [1 .. n -> ApplyMsg]  PROVE f \in Seq(ApplyMsg)
  OBVIOUS
<1> QED  BY <1>2, <1>4, <1>5

\* The applier keeps the types.
LEMMA ApplierType ==
  ASSUME TypeInv, NEW i \in Node, applier(i)
  PROVE  TypeInv'
<1>0. UNCHANGED <<termVars, logVars, roleVars, peerVars, commitIndex, applied,
                  rsmLastApplied, checking, diskVars, msgs, restarts, committed, termLog>>
  BY DEF applier
<1>1. /\ lastIncludedIndex[i] \in Nat /\ commitIndex[i] \in Nat /\ lastApplied[i] \in Nat
      /\ snapshot[i] \in ServiceState
  BY DEF TypeInv, TypeOK, LogTypes, CommitTypes, ApplyTypes, DiskTypes
<1>2. PICK q \in Seq(ApplyMsg), n \in Nat :
        /\ applyCh' = [applyCh EXCEPT ![i] = q]
        /\ lastApplied' = [lastApplied EXCEPT ![i] = n]
  <2>1. CASE lastApplied[i] < lastIncludedIndex[i]
    <3> DEFINE msg == [type |-> "Snapshot", index |-> lastIncludedIndex[i],
                       data |-> snapshot[i]]
    <3>1. msg \in ApplyMsg  BY <1>1, Zenon DEF ApplyMsg
    <3>2. /\ applyCh' = [applyCh EXCEPT ![i] = <<msg>>]
          /\ lastApplied' = [lastApplied EXCEPT ![i] = lastIncludedIndex[i]]
      BY <2>1 DEF applier
    <3> HIDE DEF msg
    <3>3. <<msg>> \in Seq(ApplyMsg)  BY <3>1
    <3> QED  BY <1>1, <3>2, <3>3, Zenon
  <2>2. CASE ~ (lastApplied[i] < lastIncludedIndex[i])
    <3>1. /\ InBounds(i, commitIndex[i]) /\ lastApplied[i] < commitIndex[i]
          /\ applyCh' = [applyCh EXCEPT ![i] =
               [k \in 1 .. commitIndex[i] - lastApplied[i] |->
                  [type |-> "Command", entry |-> getLog(i, lastApplied[i] + k)]]]
          /\ lastApplied' = [lastApplied EXCEPT ![i] = commitIndex[i]]
      BY <2>2 DEF applier
    <3>2. lastApplied[i] >= lastIncludedIndex[i]  BY <1>1, <2>2
    <3>3. [k \in 1 .. commitIndex[i] - lastApplied[i] |->
             [type |-> "Command", entry |-> getLog(i, lastApplied[i] + k)]]
             \in Seq(ApplyMsg)
      BY <1>1, <3>1, <3>2, ApplierBatch
    <3> QED  BY <1>1, <3>1, <3>3, Zenon
  <2> QED  BY <2>1, <2>2
<1>3. ApplyTypes'
  BY <1>0, <1>2 DEF TypeInv, TypeOK, ApplyTypes
<1>4. EntriesInPlace'
  BY <1>0, FrameInPlace DEF diskVars
<1>5. TypeOK'
  BY <1>0, <1>3, SameTypes DEF TypeInv, TypeOK
<1> QED  BY <1>4, <1>5, Zenon DEF TypeInv

\* The reader applies an entry or takes over a service state.
LEMMA DeliverType ==
  ASSUME TypeInv, NEW i \in Node, Deliver(i)
  PROVE  TypeInv'
<1> DEFINE msg == Head(applyCh[i])
<1>0. UNCHANGED <<termVars, logVars, roleVars, peerVars, commitIndex,
                  lastApplied, diskVars, msgs, restarts, committed, termLog>>
  BY Zenon DEF Deliver
<1>1. /\ applyCh[i] \in Seq(ApplyMsg) /\ applyCh[i] # <<>> /\ applied[i] \in Seq(Entry)
      /\ applyCh' = [applyCh EXCEPT ![i] = Tail(applyCh[i])]
  BY DEF Deliver, TypeInv, TypeOK, ApplyTypes, ServiceState
<1>2. msg \in ApplyMsg /\ Tail(applyCh[i]) \in Seq(ApplyMsg)
  BY <1>1, HeadTail, Zenon
<1>3. applyCh' \in [Node -> Seq(ApplyMsg)]
  BY <1>1, <1>2 DEF TypeInv, TypeOK, ApplyTypes
<1>4. serviceAfter(i, msg) \in ServiceState /\ msgIndex(msg) \in Nat
  <2>1. CASE msg.type = "Snapshot"
    BY <1>2, <2>1 DEF ApplyMsg, serviceAfter, msgIndex
  <2>2. CASE msg.type # "Snapshot"
    <3>1. msg.entry \in Entry  BY <1>2, <2>2 DEF ApplyMsg
    <3>2. msgIndex(msg) \in Nat  BY <2>2, <3>1 DEF msgIndex, Entry
    <3>3. Append(applied[i], msg.entry) \in Seq(Entry)  BY <1>1, <3>1
    <3> QED  BY <2>2, <3>2, <3>3 DEF ServiceState, serviceAfter
  <2> QED  BY <2>1, <2>2
<1>5. PICK b \in BOOLEAN : b = (msg.type = "Command" /\ MaxRaftState # -1)
  BY Zenon
<1>6. /\ applied' \in [Node -> ServiceState]
      /\ rsmLastApplied' \in [Node -> Nat]
      /\ checking' \in [Node -> BOOLEAN]
  <2>1. CASE isStale(i, msg)
    <3>1. UNCHANGED <<applied, rsmLastApplied, checking>>  BY <2>1 DEF Deliver
    <3> QED  BY <3>1 DEF TypeInv, TypeOK, ApplyTypes
  <2>2. CASE ~ isStale(i, msg)
    <3>1. /\ applied' = [applied EXCEPT ![i] = serviceAfter(i, msg)]
          /\ rsmLastApplied' = [rsmLastApplied EXCEPT ![i] = msgIndex(msg)]
      BY <2>2 DEF Deliver
    <3>2. checking' = [checking EXCEPT ![i] = b]
      BY <1>5, <2>2 DEF Deliver
    <3> QED  BY <1>4, <3>1, <3>2 DEF TypeInv, TypeOK, ApplyTypes
  <2> QED  BY <2>1, <2>2
<1>7. EntriesInPlace'
  BY <1>0, FrameInPlace DEF diskVars
<1>8. TypeOK'
  BY <1>0, <1>3, <1>6, SameTypes, Zenon DEF TypeInv, TypeOK, ApplyTypes
<1> QED  BY <1>7, <1>8 DEF TypeInv

\* Compacting at the command just applied leaves the suffix in place.
LEMMA CheckSnapshotType ==
  ASSUME TypeInv, NEW i \in Node, checkSnapshot(i)
  PROVE  TypeInv'
<1> DEFINE n == rsmLastApplied[i]
           new == logsFrom(i, n)
<1>0. UNCHANGED <<roleVars, peerVars, commitIndex, lastApplied, applyCh, applied,
                  rsmLastApplied, msgs, restarts, committed, termLog>>
  BY DEF checkSnapshot
<1>1. checking' \in [Node -> BOOLEAN]
  BY DEF checkSnapshot, TypeInv, TypeOK, ApplyTypes
<1>2. CASE snapshotDue(i) /\ Snapshot(i, n)
  <2>1. /\ n \in Nat /\ new \in Seq(Entry) \ {<<>>} /\ inPlace(new, n)
        /\ Head(new).term \in Nat
    BY <1>2, SnapshotDueFacts, Zenon
  <2>2. /\ logs' = [logs EXCEPT ![i] = new]
        /\ lastIncludedIndex' = [lastIncludedIndex EXCEPT ![i] = n]
        /\ lastIncludedTerm' = [lastIncludedTerm EXCEPT ![i] = Head(new).term]
        /\ UNCHANGED <<currentTerm, votedFor>> /\ Save(i, applied[i]) /\ msgs' = msgs
        /\ UNCHANGED termVars
    BY <1>0, <1>2 DEF Snapshot, termVars
  <2> HIDE DEF n, new
  <2>3. /\ logs' \in [Node -> Seq(Entry) \ {<<>>}] /\ logs'[i] = new
        /\ lastIncludedIndex' \in [Node -> Nat] /\ lastIncludedIndex'[i] = n
        /\ lastIncludedTerm' \in [Node -> Nat]
    BY <2>1, <2>2, Zenon DEF TypeInv, TypeOK, LogTypes
  <2>4. \A j \in Node \ {i} : encodeState(j)' = encodeState(j)
    BY <2>2 DEF encodeState, TypeInv, TypeOK, TermTypes, LogTypes
  <2>5. inPlace(logs'[i], lastIncludedIndex'[i])
    BY <2>1, <2>3
  <2>6. /\ raftState' \in [Node -> PersistentState]
        /\ \A j \in Node : /\ inPlace(logs'[j], lastIncludedIndex'[j])
                           /\ raftState'[j] = encodeState(j)'
    BY <2>2, <2>3, <2>4, <2>5, Persisted, Zenon DEF Save, TypeInv, TypeOK, TermTypes
  <2>7. snapshot' \in [Node -> ServiceState]
    BY <2>2, Zenon DEF Save, TypeInv, TypeOK, ApplyTypes, DiskTypes
  <2>8. EntriesInPlace'
    BY <2>2, <2>6 DEF TypeInv, EntriesInPlace
  <2>9. TypeOK'
    BY <1>0, <1>1, <2>2, <2>3, <2>6, <2>7, SameTypes, Zenon
    DEF TypeInv, TypeOK, LogTypes, ApplyTypes, DiskTypes
  <2> QED  BY <2>8, <2>9 DEF TypeInv
<1>3. CASE UNCHANGED <<termVars, logVars, diskVars>>
  <2>1. EntriesInPlace'
    BY <1>0, <1>3, FrameInPlace, Zenon DEF diskVars
  <2>2. TypeOK'
    BY <1>0, <1>1, <1>3, SameTypes DEF TypeInv, TypeOK, ApplyTypes
  <2> QED  BY <2>1, <2>2 DEF TypeInv
<1> QED  BY <1>2, <1>3, Zenon DEF checkSnapshot

\* What is on disk when a crash falls inside a handler is well-formed.
LEMMA CrashType ==
  ASSUME TypeInv
  PROVE  /\ \A i \in Node : Restart(i) \/ CrashInElection(i) \/ CrashInSave(i) => TypeInv'
         /\ \A m \in msgs : CrashInInstallSnapshot(m) \/ CrashInInstallSave(m) => TypeInv'
<1>1. ASSUME NEW i \in Node
      PROVE  encodeState(i) \in PersistentState /\ raftState[i] = encodeState(i)
             /\ inPlace(encodeState(i).logs, encodeState(i).lastIncludedIndex)
  BY Zenon DEF TypeInv, TypeOK, TermTypes, LogTypes, DiskTypes, EntriesInPlace, encodeState, PersistentState
<1>2. ASSUME NEW i \in Node, Restart(i)  PROVE TypeInv'
  BY <1>1, <1>2, BootType DEF Restart
<1>3. ASSUME NEW i \in Node, NEW t \in Nat, NEW v \in Node \cup {Nil},
             NEW rs, rs = [encodeState(i) EXCEPT !.currentTerm = t, !.votedFor = v]
      PROVE  rs \in PersistentState /\ inPlace(rs.logs, rs.lastIncludedIndex)
  BY <1>1, <1>3, Zenon DEF PersistentState
<1>4. ASSUME NEW i \in Node, CrashInElection(i)  PROVE TypeInv'
  <2> DEFINE rs == [encodeState(i) EXCEPT !.currentTerm = @ + 1]
  <2>1. rs \in PersistentState /\ rs.logs = encodeState(i).logs
        /\ rs.lastIncludedIndex = encodeState(i).lastIncludedIndex
    BY <1>1 DEF PersistentState
  <2>2. Boot(i, rs, snapshot[i])  BY <1>4 DEF CrashInElection
  <2> HIDE DEF rs
  <2> QED  BY <1>1, <2>1, <2>2, BootType
<1>5. ASSUME NEW i \in Node, CrashInSave(i)  PROVE TypeInv'
  <2> DEFINE n == rsmLastApplied[i]
             rs == [encodeState(i) EXCEPT
                      !.logs = logsFrom(i, n), !.lastIncludedIndex = n,
                      !.lastIncludedTerm = Head(logsFrom(i, n)).term]
  <2>1. /\ n \in Nat /\ logsFrom(i, n) \in Seq(Entry) \ {<<>>}
        /\ inPlace(logsFrom(i, n), n) /\ Head(logsFrom(i, n)).term \in Nat
    BY <1>5, SnapshotDueFacts DEF CrashInSave
  <2>2. Boot(i, rs, snapshot[i])  BY <1>5 DEF CrashInSave
  <2> HIDE DEF n
  <2>3. rs \in PersistentState /\ rs.logs = logsFrom(i, n) /\ rs.lastIncludedIndex = n
    BY <1>1, <2>1, Zenon DEF PersistentState
  <2> HIDE DEF rs
  <2> QED  BY <2>1, <2>2, <2>3, BootType
<1>6. ASSUME NEW m \in msgs, CrashInInstallSnapshot(m)  PROVE TypeInv'
  <2> DEFINE rs == [encodeState(m.to) EXCEPT !.currentTerm = m.term, !.votedFor = Nil]
  <2>1. m.to \in Node /\ m.term \in Nat
    BY <1>6, MessageKinds DEF CrashInInstallSnapshot, InstallSnapshotArgs
  <2>2. rs \in PersistentState /\ inPlace(rs.logs, rs.lastIncludedIndex)
    BY <1>3, <2>1, Zenon
  <2>3. Boot(m.to, rs, snapshot[m.to])  BY <1>6, Zenon DEF CrashInInstallSnapshot
  <2> HIDE DEF rs
  <2> QED  BY <2>1, <2>2, <2>3, BootType
<1>7. ASSUME NEW m \in msgs, CrashInInstallSave(m)  PROVE TypeInv'
  <2> DEFINE i == m.to
             new == truncateLogWithSnapshot(i, m.lastIncludedIndex, m.lastIncludedTerm)
             rs == [currentTerm |-> m.term, votedFor |-> voteBefore(i, m.term),
                    logs |-> new, lastIncludedIndex |-> m.lastIncludedIndex,
                    lastIncludedTerm |-> m.lastIncludedTerm]
  <2>1. /\ i \in Node /\ m.term \in Nat
        /\ m.lastIncludedIndex \in Nat /\ m.lastIncludedTerm \in Nat
        /\ m.lastIncludedIndex > lastIncludedIndex[i]
    BY <1>7, MessageKinds DEF CrashInInstallSave, InstallSnapshotArgs
  <2>2. new \in Seq(Entry) \ {<<>>} /\ inPlace(new, m.lastIncludedIndex)
    BY <2>1, TruncateInPlace, Zenon
  <2>3. voteBefore(i, m.term) \in Node \cup {Nil}
    BY <2>1, Zenon DEF voteBefore, TypeInv, TypeOK, TermTypes
  <2>4. Boot(i, rs, snapshot[i])  BY <1>7, Zenon DEF CrashInInstallSave
  <2> HIDE DEF new
  <2>5. /\ rs \in PersistentState /\ rs.logs = new
        /\ rs.lastIncludedIndex = m.lastIncludedIndex
    BY <2>1, <2>2, <2>3 DEF PersistentState
  <2> HIDE DEF rs
  <2> QED  BY <2>1, <2>2, <2>4, <2>5, BootType, Zenon
<1> QED  BY <1>2, <1>4, <1>5, <1>6, <1>7, Zenon

\* The initial logs hold the placeholder alone, in place.
LEMMA InitType == Init => TypeInv
<1> SUFFICES ASSUME Init  PROVE TypeInv
  OBVIOUS
<1>1. Dummy \in Entry /\ Dummy.index = 0 /\ <<Dummy>> \in Seq(Entry) \ {<<>>}
      /\ inPlace(<<Dummy>>, 0)
  <2>1. Dummy \in Entry /\ Dummy.index = 0  BY DEF Dummy, Entry
  <2>2. /\ <<Dummy>> \in Seq(Entry) \ {<<>>} /\ Len(<<Dummy>>) = 1 /\ <<Dummy>>[1] = Dummy
    BY <2>1
  <2>3. inPlace(<<Dummy>>, 0)
    <3> SUFFICES ASSUME NEW k \in DOMAIN <<Dummy>>
                 PROVE  <<Dummy>>[k].index = 0 + k - 1
      BY DEF inPlace
    <3>1. k = 1  OBVIOUS
    <3> QED  BY <2>1, <2>2, <3>1
  <2> QED  BY <2>1, <2>2, <2>3
<1>2. <<>> \in Seq(Entry) /\ <<>> \in Seq(ApplyMsg)  OBVIOUS
<1>3. TypeOK
  <2>1. TermTypes /\ LogTypes /\ RoleTypes
    BY <1>1, Zenon DEF Init, TermTypes, LogTypes, RoleTypes
  <2>2. PeerTypes /\ CommitTypes /\ TermLogTypes
    BY Zenon DEF Init, PeerTypes, CommitTypes, TermLogTypes
  <2>3. ApplyTypes /\ EnvTypes
    BY <1>2, Zenon DEF Init, ApplyTypes, EnvTypes, ServiceState
  <2>4. DiskTypes
    BY <1>1, <1>2, Zenon DEF Init, DiskTypes, PersistentState, ServiceState
  <2> QED  BY <2>1, <2>2, <2>3, <2>4, Zenon DEF TypeOK
<1>4. EntriesInPlace
  BY <1>1 DEF Init, EntriesInPlace, encodeState
<1> QED  BY <1>3, <1>4 DEF TypeInv

\* A step of the system preserves the types.
LEMMA NextType ==
  ASSUME Least, TypeInv, [Next]_vars
  PROVE  TypeInv'
<1>1. ASSUME NEW i \in Node, NodeStep(i)  PROVE TypeInv'
  BY <1>1, ElectionTimeoutType, StartType, ApplierType, DeliverType,
     CheckSnapshotType, CrashType DEF NodeStep
<1>2. ASSUME NEW i \in Node, NEW peer \in Node \ {i}, SendStep(i, peer)  PROVE TypeInv'
  BY <1>2, ReplicateType, Zenon DEF SendStep, replicator, Heartbeat
<1>3. ASSUME NEW m \in msgs, Receive(m)  PROVE TypeInv'
  BY <1>3, RequestVoteType, RequestVoteReplyType, AppendEntriesType,
     AppendEntriesReplyType, InstallSnapshotType, InstallSnapshotReplyType,
     CrashType DEF Receive
<1>4. CASE UNCHANGED vars
  <2>1. UNCHANGED <<termVars, logVars, raftState>> /\ msgs' = msgs
    BY <1>4 DEF vars, diskVars
  <2>2. EntriesInPlace'  BY <2>1, FrameInPlace, Zenon
  <2>3. TypeOK'
    BY <1>4, SameTypes DEF vars, TypeInv, TypeOK
  <2> QED  BY <2>2, <2>3 DEF TypeInv
<1> QED  BY <1>1, <1>2, <1>3, <1>4 DEF Next

=============================================================================
