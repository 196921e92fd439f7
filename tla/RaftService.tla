----------------------------- MODULE RaftService -----------------------------
(***************************************************************************)
(* What the Raft of one node promises to the service in the same process   *)
(* (the interface Raft of raft/raft.go and the channel applyCh): a log     *)
(* whose committed part stays, a term and a role that change at any time,  *)
(* and committed entries handed over in order, one by one or as a snapshot.*)
(*                                                                         *)
(* log is the whole history: compacting it moves lastIncludedIndex and     *)
(* forgets nothing.  An entry is a record with a field term.  Actions      *)
(* whose outcome the other nodes decide are relations: they say what may   *)
(* come out, not how.                                                      *)
(***************************************************************************)
EXTENDS Integers, Sequences

VARIABLES
  term, role,            \* State() tells the term and whether the role is leader
  log, commitIndex, lastIncludedIndex,
  lastApplied,           \* handed over to the applier
  applyCh                \* taken by the applier and not yet received

vars == <<term, role, log, commitIndex, lastIncludedIndex, lastApplied,
          applyCh>>

isLeader == role = "Leader"
prefix(n) == SubSeq(log, 1, n)

\* A process has started; it may have been elected before the service looks.
Init ==
  /\ term \in Nat
  /\ role \in {"Follower", "Candidate", "Leader"}
  /\ commitIndex \in lastIncludedIndex .. Len(log)
  /\ lastApplied = lastIncludedIndex
  /\ applyCh = <<>>

\* A leader appends the command; the entry has its term.
Start(entry) ==
  /\ isLeader
  /\ entry.term = term
  /\ log' = Append(log, entry)
  /\ UNCHANGED <<term, role, commitIndex, lastIncludedIndex, lastApplied,
                 applyCh>>

\* A message of a later term arrives.
NewTerm ==
  /\ term' > term
  /\ role' = "Follower"
  /\ UNCHANGED <<log, commitIndex, lastIncludedIndex, lastApplied, applyCh>>

StartElection ==
  /\ ~ isLeader
  /\ term' = term + 1
  /\ role' = "Candidate"
  /\ UNCHANGED <<log, commitIndex, lastIncludedIndex, lastApplied, applyCh>>

Win ==
  /\ role = "Candidate"
  /\ role' = "Leader"
  /\ UNCHANGED <<term, log, commitIndex, lastIncludedIndex, lastApplied,
                 applyCh>>

\* Another leader is followed, of a later term if this node led.
Following ==
  /\ term' >= term
  /\ isLeader => term' > term
  /\ role' = "Follower"
  /\ commitIndex' \in commitIndex .. Len(log')
  /\ SubSeq(log', 1, commitIndex) = prefix(commitIndex)
  /\ UNCHANGED <<lastApplied, applyCh>>

\* AppendEntries: the log grows, or is cut at an entry of another term and
\* continued from there; never cut only, and never an entry of the leader.
Follow ==
  /\ Following
  /\ \/ Len(log') >= Len(log) /\ SubSeq(log', 1, Len(log)) = log
     \/ \E k \in 1 .. Len(log) : /\ Len(log') >= k
                                 /\ SubSeq(log', 1, k - 1) = prefix(k - 1)
                                 /\ log'[k].term # log[k].term
                                 /\ log[Len(log)].term < term'
  /\ UNCHANGED lastIncludedIndex

\* InstallSnapshot: the log is kept if it goes on from where the snapshot
\* ends, and ends with it otherwise.
Install ==
  /\ Following
  /\ lastIncludedIndex' > lastIncludedIndex
  /\ commitIndex' >= lastIncludedIndex'
  /\ LET n == lastIncludedIndex' IN
     IF n <= Len(log) /\ log[n].term = log'[n].term THEN log' = log
     ELSE Len(log') = n /\ (log # <<>> => log[Len(log)].term < term')

\* A leader counts replicas only for an entry of its own term.
Commit ==
  /\ isLeader
  /\ commitIndex' \in commitIndex + 1 .. Len(log)
  /\ log[commitIndex'].term = term
  /\ UNCHANGED <<term, role, log, lastIncludedIndex, lastApplied, applyCh>>

\* The applier takes all there is, once what it took before is received.
applier ==
  /\ applyCh = <<>>
  /\ lastApplied < commitIndex
  /\ IF lastApplied < lastIncludedIndex
     THEN /\ lastApplied' = lastIncludedIndex
          /\ applyCh' = <<[type |-> "Snapshot", index |-> lastIncludedIndex,
                           data |-> prefix(lastIncludedIndex)]>>
     ELSE /\ lastApplied' = commitIndex
          /\ applyCh' = [k \in 1 .. commitIndex - lastApplied |->
                           [type |-> "Command", entry |-> log[lastApplied + k]]]
  /\ UNCHANGED <<term, role, log, commitIndex, lastIncludedIndex>>

Receive ==
  /\ applyCh # <<>>
  /\ applyCh' = Tail(applyCh)
  /\ UNCHANGED <<term, role, log, commitIndex, lastIncludedIndex,
                 lastApplied>>

\* The service gives the snapshot of what it has applied up to index.
Snapshot(index) ==
  /\ index \in lastIncludedIndex + 1 .. lastApplied
  /\ lastIncludedIndex' = index
  /\ UNCHANGED <<term, role, log, commitIndex, lastApplied, applyCh>>

\* The process dies and starts again from its files.
Restart ==
  /\ term' >= term
  /\ role' = "Follower"
  /\ commitIndex' = lastIncludedIndex
  /\ lastApplied' = lastIncludedIndex
  /\ applyCh' = <<>>
  /\ UNCHANGED <<log, lastIncludedIndex>>

Next ==
  \/ log' # <<>> /\ Start(log'[Len(log')])
  \/ NewTerm \/ StartElection \/ Win \/ Follow \/ Install \/ Commit
  \/ applier \/ Receive \/ Snapshot(lastIncludedIndex')
  \/ Restart

Spec == Init /\ [][Next]_vars

=============================================================================
