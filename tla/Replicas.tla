------------------------------ MODULE Replicas ------------------------------
(***************************************************************************)
(* The stores of the replicas (internal/kvserver/store.go) as the readers  *)
(* of their RSMs drive them (internal/rsm/rsm.go).  Raft, seen as one      *)
(* sequence of chosen commands, hands them to each replica in order, or    *)
(* instead of some of them the snapshot another replica has taken; a       *)
(* replica that restarts begins with its last snapshot.                    *)
(***************************************************************************)
EXTENDS Store

CONSTANTS
  Replica,
  Keys, Values,
  Versions,    \* the versions that Puts name
  MaxChosen    \* commands

ASSUME VersionsAssumption == Versions \subseteq Nat

VARIABLES
  chosen,      \* the commands Raft has committed
  states,      \* states[n]: the map after the first n of them
  kv,          \* replica -> its map
  lastApplied, \* replica -> the number of commands its map reflects
  snapshot,    \* replica -> the snapshot on its disk
  taken        \* the snapshots that replicas have taken

vars == <<chosen, states, kv, lastApplied, snapshot, taken>>

Op == [type : {"Get"}, key : Keys] \cup
      [type : {"Put"}, key : Keys, value : Values, version : Versions]

NoSnapshot == [index |-> 0, bytes |-> <<>>]

Init ==
  /\ chosen = <<>>
  /\ states = [n \in {0} |-> NewStore]
  /\ kv = [i \in Replica |-> NewStore]
  /\ lastApplied = [i \in Replica |-> 0]
  /\ snapshot = [i \in Replica |-> NoSnapshot]
  /\ taken = {}

\* Raft commits a command.
Choose(op) ==
  /\ Len(chosen) < MaxChosen
  /\ chosen' = Append(chosen, op)
  /\ states' = [n \in 0 .. Len(chosen) + 1 |->
                IF n <= Len(chosen) THEN states[n]
                ELSE DoOp(states[Len(chosen)], op)]
  /\ UNCHANGED <<kv, lastApplied, snapshot, taken>>

\* handleCommand, with the next command
handleCommand(i) ==
  /\ lastApplied[i] < Len(chosen)
  /\ kv' = [kv EXCEPT ![i] = DoOp(@, chosen[lastApplied[i] + 1])]
  /\ lastApplied' = [lastApplied EXCEPT ![i] = @ + 1]
  /\ UNCHANGED <<chosen, states, snapshot, taken>>

\* Mutant: the early return of Raft's Snapshot is missing.
checkSnapshotAlways(i) ==
  LET s == [index |-> lastApplied[i], bytes |-> Snapshot(kv[i])] IN
  /\ snapshot' = [snapshot EXCEPT ![i] = s]
  /\ taken' = taken \cup {s}
  /\ UNCHANGED <<chosen, states, kv, lastApplied>>

\* checkSnapshot, and Raft's Snapshot, which ignores what its disk covers.
checkSnapshot(i) ==
  LET s == [index |-> lastApplied[i], bytes |-> Snapshot(kv[i])] IN
  /\ s.index > snapshot[i].index
  /\ snapshot' = [snapshot EXCEPT ![i] = s]
  /\ taken' = taken \cup {s}
  /\ UNCHANGED <<chosen, states, kv, lastApplied>>

\* Raft saves a snapshot that a leader has sent, now or long ago.
InstallSnapshot(i, s) ==
  /\ s.index > snapshot[i].index
  /\ snapshot' = [snapshot EXCEPT ![i] = s]
  /\ UNCHANGED <<chosen, states, kv, lastApplied, taken>>

\* Mutant: whatever has been applied since.
newerNot(i, s) == TRUE

\* Raft's applier passes a snapshot on when it is ahead of what it has passed
\* on; a later one may have been saved since.
newer(i, s) == s.index > lastApplied[i]

handleSnapshot(i, s) ==
  /\ s.index <= snapshot[i].index /\ newer(i, s)
  /\ kv' = [kv EXCEPT ![i] = Restore(@, s.bytes)]
  /\ lastApplied' = [lastApplied EXCEPT ![i] = s.index]
  /\ UNCHANGED <<chosen, states, snapshot, taken>>

\* StartNode makes a new store, and MakeRSM restores the snapshot if there is
\* one; what has been applied since comes again.
Restart(i) ==
  /\ kv' = [kv EXCEPT ![i] = IF snapshot[i].bytes = <<>> THEN NewStore
                             ELSE Restore(NewStore, snapshot[i].bytes)]
  /\ lastApplied' = [lastApplied EXCEPT ![i] = snapshot[i].index]
  /\ UNCHANGED <<chosen, states, snapshot, taken>>

Next ==
  \/ \E op \in Op : Choose(op)
  \/ \E i \in Replica :
       \/ handleCommand(i)
       \/ checkSnapshot(i)
       \/ \E s \in taken : InstallSnapshot(i, s) \/ handleSnapshot(i, s)
       \/ Restart(i)

Spec == Init /\ [][Next]_vars

-----------------------------------------------------------------------------
(* Correctness                                                             *)

\* Keys with values and versions
isMap(map) ==
  /\ map = [k \in DOMAIN map |-> map[k]]
  /\ DOMAIN map \subseteq Keys
  /\ \A k \in DOMAIN map :
       map[k] \in [value : Values, version : Nat] /\ map[k].version > 0

\* What is applied has been chosen, and the snapshot on a disk has been taken
\* from a replica that had applied something.
TypeOK ==
  /\ chosen \in Seq(Op)
  /\ states = [n \in 0 .. Len(chosen) |-> states[n]]
  /\ \A n \in 0 .. Len(chosen) : isMap(states[n])
  /\ kv = [i \in Replica |-> kv[i]]
  /\ lastApplied \in [Replica -> 0 .. Len(chosen)]
  /\ snapshot \in [Replica -> taken \cup {NoSnapshot}]
  /\ \A s \in taken : s.index \in 1 .. Len(chosen)

\* How the store after more commands differs from the store after fewer
grows(before, after) ==
  \A k \in DOMAIN before :
    k \in DOMAIN after /\ after[k].version >= before[k].version

\* Every replica that has applied n commands holds what the n first commands
\* lead to, however it got there: by applying them, by restoring a snapshot
\* into the map it had (Restore decodes into s.kv without clearing it), or by
\* a restart from its own snapshot or from one it was sent.
ReplicasAgree == \A i \in Replica : kv[i] = states[lastApplied[i]]

\* A replica is never set back: a key, once there, stays, and its version does
\* not fall, except by a restart, after which the commands come again.
VersionsGrow ==
  [][\A i \in Replica : Restart(i) \/ grows(kv[i], kv'[i])]_vars

\* What makes ReplicasAgree inductive: a snapshot is the map after as many
\* commands as it says, and no command removes a key, so that the keys Restore
\* leaves in place are keys of the snapshot.
SnapshotsAgree == \A s \in taken : s.bytes = Snapshot(states[s.index])

StatesGrow ==
  \A m, n \in 0 .. Len(chosen) : m <= n => grows(states[m], states[n])

StartsEmpty == states[0] = NewStore

ChosenInOrder ==
  \A n \in 1 .. Len(chosen) : states[n] = DoOp(states[n - 1], chosen[n])

Agreement ==
  /\ TypeOK /\ StartsEmpty /\ ChosenInOrder /\ StatesGrow
  /\ SnapshotsAgree /\ ReplicasAgree

=============================================================================
