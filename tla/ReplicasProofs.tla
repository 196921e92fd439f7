--------------------------- MODULE ReplicasProofs ---------------------------
(***************************************************************************)
(* Proofs that the replicas of module Replicas agree, for any number of    *)
(* replicas, keys, values and commands.                                    *)
(***************************************************************************)
EXTENDS Replicas, TLAPS

-----------------------------------------------------------------------------
(* The store                                                               *)

\* A version that a map holds, or 0, is a number.
LEMMA VersionType ==
  ASSUME NEW map, isMap(map), NEW k
  PROVE  versionOf(map, k) \in Nat
BY DEF isMap, versionOf, present

\* DoOp leads from a map to a map.
LEMMA DoOpType ==
  ASSUME NEW map, isMap(map), NEW op \in Op
  PROVE  isMap(DoOp(map, op))
<1>1. CASE op.type = "Put" /\ matches(map, op)
  <2>1. op.key \in Keys /\ op.value \in Values
    BY <1>1 DEF Op
  <2>2. versionOf(map, op.key) \in Nat
    BY VersionType
  <2>. DEFINE v == versionOf(map, op.key) + 1
              new == write(map, op.key, op.value, v)
  <2>3. v \in Nat /\ v > 0
    BY <2>2
  <2>. HIDE DEF v
  <2>4. DOMAIN new = DOMAIN map \cup {op.key}
    BY DEF write
  <2>5. \A k \in DOMAIN new :
          new[k] = IF k = op.key THEN [value |-> op.value, version |-> v]
                   ELSE map[k]
    BY DEF write
  <2>6. new = [k \in DOMAIN new |-> new[k]]
    BY DEF write
  <2>7. isMap(new)
    BY <2>1, <2>3, <2>4, <2>5, <2>6 DEF isMap
  <2>. QED  BY <1>1, <2>7 DEF DoOp, v
<1>2. CASE ~ (op.type = "Put" /\ matches(map, op))
  BY <1>2 DEF DoOp
<1>. QED  BY <1>1, <1>2

\* DoOp removes no key and lowers no version.
LEMMA DoOpGrows ==
  ASSUME NEW map, isMap(map), NEW op
  PROVE  grows(map, DoOp(map, op))
<1>1. CASE op.type = "Put" /\ matches(map, op)
  <2>. DEFINE v == versionOf(map, op.key) + 1
              new == write(map, op.key, op.value, v)
  <2>1. \A k \in DOMAIN map : k \in DOMAIN new
    BY DEF write
  <2>2. ASSUME NEW k \in DOMAIN map
        PROVE  new[k].version >= map[k].version
    <3>1. map[k].version \in Nat
      BY DEF isMap
    <3>2. CASE k = op.key
      <4>1. new[k].version = v
        BY <3>2, <2>1 DEF write
      <4>2. v = map[k].version + 1
        BY <3>2 DEF versionOf, present
      <4>. QED  BY <3>1, <4>1, <4>2
    <3>3. CASE k # op.key
      <4>1. new[k] = map[k]
        BY <3>3, <2>1 DEF write
      <4>. QED  BY <3>1, <4>1
    <3>. QED  BY <3>2, <3>3
  <2>. QED  BY <1>1, <2>1, <2>2 DEF DoOp, grows
<1>2. CASE ~ (op.type = "Put" /\ matches(map, op))
  BY <1>2 DEF DoOp, grows, isMap
<1>. QED  BY <1>1, <1>2

\* What has grown twice has grown.
LEMMA GrowsTransitive ==
  ASSUME NEW a, NEW b, NEW c, isMap(a), isMap(b), isMap(c),
         grows(a, b), grows(b, c)
  PROVE  grows(a, c)
BY DEF grows, isMap

\* Restoring a snapshot of a map that has grown out of this one gives exactly
\* the map of the snapshot, although Restore does not clear what is there.
LEMMA RestoreLater ==
  ASSUME NEW map, NEW later, isMap(later), grows(map, later)
  PROVE  Restore(map, Snapshot(later)) = later
<1>1. Restore(map, Snapshot(later)) = decodedInto(map, later)
  BY DEF Restore, Snapshot
<1>2. DOMAIN map \cup DOMAIN later = DOMAIN later
  BY Zenon DEF grows
<1>3. decodedInto(map, later) = [k \in DOMAIN later |-> later[k]]
  BY <1>2 DEF decodedInto
<1>. QED  BY <1>1, <1>3 DEF isMap

\* Every map has grown out of the empty one of NewStore.
LEMMA NewStoreGrows ==
  ASSUME NEW map
  PROVE  isMap(NewStore) /\ grows(NewStore, map)
<1>1. DOMAIN NewStore = {} /\ NewStore = [k \in DOMAIN NewStore |-> NewStore[k]]
  BY DEF NewStore
<1>. QED  BY <1>1 DEF isMap, grows

-----------------------------------------------------------------------------
(* The replicas                                                            *)

\* At first every replica has applied nothing and holds NewStore.
LEMMA AgreementInit == Init => Agreement
<1>. SUFFICES ASSUME Init PROVE Agreement
  OBVIOUS
<1>1. Len(chosen) = 0 /\ chosen \in Seq(Op)
  BY DEF Init
<1>2. 0 .. Len(chosen) = {0} /\ 1 .. Len(chosen) = {}
  BY <1>1
<1>3. states = [n \in {0} |-> NewStore] /\ states[0] = NewStore
  BY DEF Init
<1>4. TypeOK
  BY <1>1, <1>2, <1>3, NewStoreGrows DEF Init, TypeOK
<1>5. StartsEmpty /\ ChosenInOrder /\ StatesGrow
  BY <1>2, <1>3, NewStoreGrows DEF StartsEmpty, ChosenInOrder, StatesGrow
<1>6. SnapshotsAgree /\ ReplicasAgree
  BY <1>3 DEF Init, SnapshotsAgree, ReplicasAgree
<1>. QED  BY <1>4, <1>5, <1>6 DEF Agreement

\* A step that chooses no command and takes no snapshot may change which of
\* the states a replica holds, and which snapshot is on its disk.
LEMMA AgreementMove ==
  ASSUME Agreement, UNCHANGED <<chosen, states, taken>>,
         NEW i \in Replica, NEW n \in 0 .. Len(chosen),
         kv' = [kv EXCEPT ![i] = states[n]],
         lastApplied' = [lastApplied EXCEPT ![i] = n],
         UNCHANGED snapshot
  PROVE  Agreement'
<1>1. TypeOK'
  BY Zenon DEF Agreement, TypeOK
<1>2. StartsEmpty' /\ ChosenInOrder' /\ StatesGrow' /\ SnapshotsAgree'
  BY DEF Agreement, StartsEmpty, ChosenInOrder, StatesGrow, SnapshotsAgree
<1>3. ReplicasAgree'
  BY Zenon DEF Agreement, TypeOK, ReplicasAgree
<1>. QED  BY <1>1, <1>2, <1>3 DEF Agreement

\* A newly chosen command adds one state, the result of DoOp on the last one,
\* and leaves the earlier states and the replicas as they are.
LEMMA ChooseAgrees ==
  ASSUME Agreement, NEW op \in Op, Choose(op)
  PROVE  Agreement'
<1>. DEFINE n == Len(chosen)
            last == DoOp(states[n], op)
<1>1. n \in Nat /\ chosen \in Seq(Op)
  BY DEF Agreement, TypeOK
<1>2. chosen' \in Seq(Op) /\ Len(chosen') = n + 1
  BY <1>1 DEF Choose
<1>3. /\ \A m \in 1 .. n : chosen'[m] = chosen[m]
      /\ chosen'[n + 1] = op
  BY <1>1 DEF Choose
<1>4. states' = [m \in 0 .. n + 1 |-> IF m <= n THEN states[m] ELSE last]
  BY DEF Choose
<1>5. /\ \A m \in 0 .. n : states'[m] = states[m]
      /\ states'[n + 1] = last
  BY <1>1, <1>4
<1>6. isMap(states[n]) /\ isMap(last) /\ grows(states[n], last)
  <2>1. n \in 0 .. Len(chosen)  BY <1>1
  <2>2. isMap(states[n])  BY <2>1, Zenon DEF Agreement, TypeOK
  <2> QED  BY <2>2, DoOpType, DoOpGrows, Zenon
<1>. HIDE DEF n, last
<1>7. \A m \in 0 .. n + 1 : m \in 0 .. n \/ m = n + 1
  BY <1>1
<1>8. \A m \in 0 .. n + 1 : isMap(states'[m])
  BY <1>5, <1>6, <1>7 DEF Agreement, TypeOK, n
<1>9. TypeOK'
  <2>1. states' = [m \in 0 .. Len(chosen') |-> states'[m]]
    BY <1>2, <1>4
  <2>2. lastApplied' \in [Replica -> 0 .. Len(chosen')]
    BY <1>1, <1>2 DEF Agreement, TypeOK, Choose, n
  <2>3. \A s \in taken' : s.index \in 1 .. Len(chosen')
    BY <1>1, <1>2 DEF Agreement, TypeOK, Choose, n
  <2>4. /\ snapshot' \in [Replica -> taken' \cup {NoSnapshot}]
        /\ kv' = [i \in Replica |-> kv'[i]]
    BY DEF Agreement, TypeOK, Choose
  <2>. QED  BY <1>2, <1>8, <2>1, <2>2, <2>3, <2>4 DEF TypeOK
<1>10. StartsEmpty'
  BY <1>1, <1>5 DEF Agreement, StartsEmpty
<1>11. ChosenInOrder'
  <2>. SUFFICES ASSUME NEW m \in 1 .. n + 1
               PROVE  states'[m] = DoOp(states'[m - 1], chosen'[m])
    BY <1>2 DEF ChosenInOrder
  <2>1. CASE m \in 1 .. n
    <3>1. m \in 0 .. n /\ m - 1 \in 0 .. n
      BY <1>1, <2>1
    <3>2. states[m] = DoOp(states[m - 1], chosen[m])
      BY <2>1 DEF Agreement, ChosenInOrder, n
    <3>. QED  BY <1>3, <1>5, <2>1, <3>1, <3>2
  <2>2. CASE m = n + 1
    <3>1. m - 1 = n /\ n \in 0 .. n
      BY <1>1, <2>2
    <3>. QED  BY <1>3, <1>5, <2>2, <3>1 DEF last
  <2>. QED  BY <1>1, <2>1, <2>2
<1>12. StatesGrow'
  <2>. SUFFICES ASSUME NEW m \in 0 .. n + 1, NEW p \in 0 .. n + 1, m <= p
               PROVE  grows(states'[m], states'[p])
    BY <1>2 DEF StatesGrow
  <2>1. CASE p \in 0 .. n
    <3>1. m \in 0 .. n
      BY <1>1, <2>1
    <3>2. grows(states[m], states[p])
      BY <2>1, <3>1 DEF Agreement, StatesGrow, n
    <3>. QED  BY <1>5, <2>1, <3>1, <3>2
  <2>2. CASE p = n + 1 /\ m \in 0 .. n
    <3>1. n \in 0 .. n /\ m <= n
      BY <1>1, <2>2
    <3>2. grows(states[m], states[n]) /\ isMap(states[m])
      BY <2>2, <3>1 DEF Agreement, TypeOK, StatesGrow, n
    <3>. QED  BY <1>5, <1>6, <2>2, <3>2, GrowsTransitive
  <2>3. CASE p = n + 1 /\ m = n + 1
    BY <1>5, <1>6, <2>3 DEF grows, isMap
  <2>. QED  BY <1>7, <2>1, <2>2, <2>3
<1>13. SnapshotsAgree'
  <2>. SUFFICES ASSUME NEW s \in taken
               PROVE  s.bytes = Snapshot(states'[s.index])
    BY DEF SnapshotsAgree, Choose
  <2>1. s.index \in 0 .. n
    BY <1>1 DEF Agreement, TypeOK, n
  <2>. QED  BY <1>5, <2>1 DEF Agreement, SnapshotsAgree
<1>14. ReplicasAgree'
  <2>. SUFFICES ASSUME NEW i \in Replica
               PROVE  kv[i] = states'[lastApplied[i]]
    BY DEF ReplicasAgree, Choose
  <2>1. lastApplied[i] \in 0 .. n
    BY DEF Agreement, TypeOK, n
  <2>. QED  BY <1>5, <2>1 DEF Agreement, ReplicasAgree
<1>. QED  BY <1>9, <1>10, <1>11, <1>12, <1>13, <1>14 DEF Agreement

\* The snapshot s, restored into a map that s has grown out of
LEMMA SnapshotRestored ==
  ASSUME Agreement, NEW s \in taken, NEW map, grows(map, states[s.index])
  PROVE  /\ Restore(map, s.bytes) = states[s.index]
         /\ s.index \in 0 .. Len(chosen)
         /\ s.bytes # <<>>
<1>1. s.index \in 1 .. Len(chosen) /\ Len(chosen) \in Nat
  BY DEF Agreement, TypeOK
<1>2. s.index \in 0 .. Len(chosen)
  BY <1>1
<1>3. isMap(states[s.index])
  BY <1>2 DEF Agreement, TypeOK
<1>4. s.bytes = Snapshot(states[s.index])
  BY DEF Agreement, SnapshotsAgree
<1>5. s.bytes # <<>>
  BY <1>4 DEF Snapshot
<1>. QED  BY <1>2, <1>3, <1>4, <1>5, RestoreLater

\* A replica that applies the next command moves to the next state.
LEMMA handleCommandAgrees ==
  ASSUME Agreement, NEW i \in Replica, handleCommand(i)
  PROVE  Agreement'
<1>. DEFINE n == lastApplied[i] + 1
<1>1. n \in 1 .. Len(chosen) /\ n \in 0 .. Len(chosen) /\ n - 1 = lastApplied[i]
  <2>1. lastApplied[i] \in 0 .. Len(chosen) /\ Len(chosen) \in Nat
    BY DEF Agreement, TypeOK
  <2>2. lastApplied[i] < Len(chosen)
    BY DEF handleCommand
  <2>. QED  BY <2>1, <2>2
<1>2. kv[i] = states[n - 1]
  BY <1>1 DEF Agreement, ReplicasAgree
<1>3. states[n] = DoOp(kv[i], chosen[n])
  BY <1>1, <1>2 DEF Agreement, ChosenInOrder
<1>4. kv' = [kv EXCEPT ![i] = states[n]]
  BY <1>3 DEF handleCommand
<1>5. /\ lastApplied' = [lastApplied EXCEPT ![i] = n]
      /\ UNCHANGED <<chosen, states, taken>> /\ UNCHANGED snapshot
  BY DEF handleCommand
<1>. HIDE DEF n
<1>. QED  BY <1>1, <1>4, <1>5, AgreementMove, Zenon

\* A replica that restores a newer snapshot moves to the state of the snapshot.
LEMMA handleSnapshotAgrees ==
  ASSUME Agreement, NEW i \in Replica, NEW s \in taken, handleSnapshot(i, s)
  PROVE  Agreement'
<1>1. /\ lastApplied[i] \in 0 .. Len(chosen)
      /\ s.index \in 0 .. Len(chosen)
      /\ lastApplied[i] <= s.index
  BY DEF Agreement, TypeOK, handleSnapshot, newer
<1>2. grows(kv[i], states[s.index])
  BY <1>1 DEF Agreement, ReplicasAgree, StatesGrow
<1>3. Restore(kv[i], s.bytes) = states[s.index]
  BY <1>2, SnapshotRestored
<1>4. kv' = [kv EXCEPT ![i] = states[s.index]]
  BY <1>3 DEF handleSnapshot
<1>5. /\ lastApplied' = [lastApplied EXCEPT ![i] = s.index]
      /\ UNCHANGED <<chosen, states, taken>> /\ UNCHANGED snapshot
  BY DEF handleSnapshot
<1>. QED  BY <1>1, <1>4, <1>5, AgreementMove, Zenon

\* A replica that restarts holds what its own snapshot restores into NewStore.
LEMMA RestartAgrees ==
  ASSUME Agreement, NEW i \in Replica, Restart(i)
  PROVE  Agreement'
<1>. DEFINE s == snapshot[i]
<1>1. s \in taken \/ s = NoSnapshot
  BY DEF Agreement, TypeOK
<1>2. /\ lastApplied' = [lastApplied EXCEPT ![i] = s.index]
      /\ UNCHANGED <<chosen, states, taken>> /\ UNCHANGED snapshot
  BY DEF Restart
<1>3. CASE s \in taken
  <2>1. /\ Restore(NewStore, s.bytes) = states[s.index]
        /\ s.index \in 0 .. Len(chosen)
        /\ s.bytes # <<>>
    BY <1>3, NewStoreGrows, SnapshotRestored, Zenon
  <2>2. kv' = [kv EXCEPT ![i] = states[s.index]]
    BY <2>1 DEF Restart
  <2>. HIDE DEF s
  <2>. QED  BY <1>2, <2>1, <2>2, AgreementMove, Zenon
<1>4. CASE s = NoSnapshot
  <2>1. s.index = 0 /\ s.bytes = <<>>
    BY <1>4 DEF NoSnapshot
  <2>2. 0 \in 0 .. Len(chosen)
    BY DEF Agreement, TypeOK
  <2>3. states[0] = NewStore
    BY DEF Agreement, StartsEmpty
  <2>4. kv' = [kv EXCEPT ![i] = states[0]]
    BY <2>1, <2>3 DEF Restart
  <2>5. lastApplied' = [lastApplied EXCEPT ![i] = 0]
    BY <1>2, <2>1
  <2>. QED  BY <1>2, <2>2, <2>4, <2>5, AgreementMove, Zenon
<1>. QED  BY <1>1, <1>3, <1>4

\* A replica that compacts has its present state on its disk.
LEMMA checkSnapshotAgrees ==
  ASSUME Agreement, NEW i \in Replica, checkSnapshot(i)
  PROVE  Agreement'
<1>. DEFINE s == [index |-> lastApplied[i], bytes |-> Snapshot(kv[i])]
<1>1. /\ snapshot' = [snapshot EXCEPT ![i] = s]
      /\ taken' = taken \cup {s}
      /\ UNCHANGED <<chosen, states, kv, lastApplied>>
  BY DEF checkSnapshot
<1>2. snapshot[i].index \in Nat
  BY DEF Agreement, TypeOK, NoSnapshot
<1>3. s.index \in 1 .. Len(chosen)
  <2>1. lastApplied[i] \in 0 .. Len(chosen) /\ Len(chosen) \in Nat
    BY DEF Agreement, TypeOK
  <2>2. lastApplied[i] > snapshot[i].index
    BY DEF checkSnapshot
  <2>. QED  BY <1>2, <2>1, <2>2
<1>4. s.bytes = Snapshot(states[s.index])
  BY DEF Agreement, ReplicasAgree
<1>. HIDE DEF s
<1>5. TypeOK'
  BY <1>1, <1>3 DEF Agreement, TypeOK
<1>6. SnapshotsAgree'
  BY <1>1, <1>4 DEF Agreement, SnapshotsAgree
<1>7. StartsEmpty' /\ ChosenInOrder' /\ StatesGrow' /\ ReplicasAgree'
  BY <1>1 DEF Agreement, StartsEmpty, ChosenInOrder, StatesGrow, ReplicasAgree
<1>. QED  BY <1>5, <1>6, <1>7 DEF Agreement

\* A replica receives a snapshot that is the state of another one.
LEMMA InstallSnapshotAgrees ==
  ASSUME Agreement, NEW i \in Replica, NEW s \in taken, InstallSnapshot(i, s)
  PROVE  Agreement'
<1>1. /\ snapshot' = [snapshot EXCEPT ![i] = s]
      /\ UNCHANGED <<chosen, states, kv, lastApplied, taken>>
  BY DEF InstallSnapshot
<1>2. TypeOK'
  BY <1>1 DEF Agreement, TypeOK
<1>3. /\ StartsEmpty' /\ ChosenInOrder' /\ StatesGrow'
      /\ SnapshotsAgree' /\ ReplicasAgree'
  BY <1>1 DEF Agreement, StartsEmpty, ChosenInOrder, StatesGrow, SnapshotsAgree,
              ReplicasAgree
<1>. QED  BY <1>2, <1>3 DEF Agreement

\* One step per action of a replica and of the log.
LEMMA AgreementNext == Agreement /\ [Next]_vars => Agreement'
<1>. SUFFICES ASSUME Agreement, [Next]_vars PROVE Agreement'
  OBVIOUS
<1>1. ASSUME NEW op \in Op, Choose(op) PROVE Agreement'
  BY <1>1, ChooseAgrees
<1>2. ASSUME NEW i \in Replica, handleCommand(i) PROVE Agreement'
  BY <1>2, handleCommandAgrees
<1>3. ASSUME NEW i \in Replica, checkSnapshot(i) PROVE Agreement'
  BY <1>3, checkSnapshotAgrees
<1>4. ASSUME NEW i \in Replica, NEW s \in taken, InstallSnapshot(i, s)
      PROVE  Agreement'
  BY <1>4, InstallSnapshotAgrees
<1>5. ASSUME NEW i \in Replica, NEW s \in taken, handleSnapshot(i, s)
      PROVE  Agreement'
  BY <1>5, handleSnapshotAgrees
<1>6. ASSUME NEW i \in Replica, Restart(i) PROVE Agreement'
  BY <1>6, RestartAgrees
<1>7. CASE UNCHANGED vars
  BY <1>7, Zenon DEF vars, Agreement, TypeOK, StartsEmpty, ChosenInOrder, StatesGrow,
              SnapshotsAgree, ReplicasAgree
<1>. QED  BY <1>1, <1>2, <1>3, <1>4, <1>5, <1>6, <1>7 DEF Next

\* The invariant of module Replicas holds of every behaviour.
THEOREM AgreementInvariant == Spec => []Agreement
BY AgreementInit, AgreementNext, PTL DEF Spec

\* Replicas that have applied equally many commands hold equal maps, the one
\* those commands lead to, whichever of them they applied themselves and
\* whichever came with a snapshot that Restore merged into their map.
THEOREM ReplicasHoldTheSame == Spec => []ReplicasAgree
<1>1. Agreement => ReplicasAgree
  BY DEF Agreement
<1>. QED  BY <1>1, AgreementInvariant, PTL

\* Nothing but a restart takes a key or a version from a replica's map, the
\* installation of a snapshot included.
THEOREM VersionsNeverFall == Spec => VersionsGrow
<1>. DEFINE Grow == \A i \in Replica : Restart(i) \/ grows(kv[i], kv'[i])
<1>1. ASSUME Agreement, Agreement', [Next]_vars PROVE [Grow]_vars
  <2>. SUFFICES ASSUME Next, NEW i \in Replica, ~ Restart(i)
               PROVE  grows(kv[i], kv'[i])
    BY <1>1
  <2>0. isMap(kv[i]) /\ grows(kv[i], kv[i])
    <3>1. isMap(kv[i])
      BY <1>1, Zenon DEF Agreement, TypeOK, ReplicasAgree
    <3>. QED  BY <3>1 DEF isMap, grows
  <2>1. CASE kv'[i] = kv[i]
    BY <2>0, <2>1
  <2>2. CASE handleCommand(i)
    <3>1. kv'[i] = DoOp(kv[i], chosen[lastApplied[i] + 1])
      BY <1>1, <2>2 DEF handleCommand, Agreement, TypeOK
    <3>. QED  BY <2>0, <3>1, DoOpGrows
  <2>3. ASSUME NEW s \in taken, handleSnapshot(i, s)
        PROVE  grows(kv[i], kv'[i])
    <3>1. /\ lastApplied[i] \in 0 .. Len(chosen)
          /\ s.index \in 0 .. Len(chosen)
          /\ lastApplied[i] <= s.index
      BY <1>1, <2>3 DEF Agreement, TypeOK, handleSnapshot, newer
    <3>2. kv'[i] = states[s.index]
      <4>1. grows(kv[i], states[s.index])
        BY <1>1, <3>1 DEF Agreement, ReplicasAgree, StatesGrow
      <4>2. kv'[i] = Restore(kv[i], s.bytes)
        BY <1>1, <2>3 DEF handleSnapshot, Agreement, TypeOK
      <4>. QED  BY <1>1, <4>1, <4>2, SnapshotRestored
    <3>. QED  BY <1>1, <3>1, <3>2 DEF Agreement, ReplicasAgree, StatesGrow
  <2>4. CASE \E j \in Replica : j # i /\ (\/ handleCommand(j) \/ Restart(j)
                                        \/ \E s \in taken : handleSnapshot(j, s))
    <3>1. kv'[i] = kv[i]
      BY <1>1, <2>4 DEF handleCommand, handleSnapshot, Restart, Agreement, TypeOK
    <3>. QED  BY <2>1, <3>1
  <2>5. CASE \/ \E op \in Op : Choose(op)
             \/ \E j \in Replica : checkSnapshot(j) \/ \E s \in taken : InstallSnapshot(j, s)
    <3>1. kv'[i] = kv[i]
      BY <2>5 DEF Choose, checkSnapshot, InstallSnapshot
    <3>. QED  BY <2>1, <3>1
  <2>. QED  BY <2>2, <2>3, <2>4, <2>5 DEF Next
<1>. QED  BY <1>1, AgreementInvariant, PTL DEF Spec, VersionsGrow

=============================================================================
