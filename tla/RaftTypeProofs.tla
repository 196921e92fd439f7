--------------------------- MODULE RaftTypeProofs ---------------------------
(***************************************************************************)
(* Theorems about Raft, for every cluster and every value of the bounds.   *)
(***************************************************************************)
EXTENDS Raft, TLAPS

-----------------------------------------------------------------------------
(* Largest and smallest elements of bounded sets of numbers                *)

\* The natural numbers are well ordered: a fact about numbers the lemmas below
\* take as a hypothesis, proved where the theorems are put together.
Least == \A S \in SUBSET Nat : S # {} => \E x \in S : \A y \in S : x <= y

\* A non-empty set of natural numbers has a least element.
LEMMA MinExists ==
  ASSUME Least, NEW S \in SUBSET Nat, S # {}
  PROVE  Min(S) \in S /\ \A k \in S : Min(S) <= k
BY Zenon DEF Least, Min

\* So has a largest element any such set below a bound.
LEMMA MaxExists ==
  ASSUME Least, NEW S \in SUBSET Nat, S # {}, NEW b \in Nat, \A k \in S : k <= b
  PROVE  Max(S) \in S /\ \A k \in S : Max(S) >= k
<1> DEFINE T == {b - k : k \in S}
<1>1. T \in SUBSET Nat /\ T # {}
  <2>1. \A k \in S : k \in Nat /\ k <= b  OBVIOUS
  <2>2. \A k \in S : b - k \in Nat  BY <2>1
  <2> QED  BY <2>2, Zenon
<1>2. PICK t \in T : \A y \in T : t <= y  BY <1>1, Zenon DEF Least
<1>3. PICK k \in S : t = b - k  OBVIOUS
<1>4. ASSUME NEW y \in S  PROVE k >= y
  <2>1. b - y \in T /\ k \in Nat /\ y \in Nat  OBVIOUS
  <2> HIDE DEF T
  <2> QED  BY <1>2, <1>3, <2>1
<1> QED  BY <1>4, Zenon DEF Max

\* The smaller of two numbers.
LEMMA MinOfTwo ==
  ASSUME NEW a \in Nat, NEW b \in Nat
  PROVE  Min({a, b}) = IF a <= b THEN a ELSE b
BY DEF Min

\* The larger of two numbers.
LEMMA MaxOfTwo ==
  ASSUME NEW a \in Nat, NEW b \in Nat
  PROVE  Max({a, b}) = IF a >= b THEN a ELSE b
BY DEF Max

-----------------------------------------------------------------------------
(* Sequences of entries that carry their own position                      *)

\* Sequences of one element or more.
LEMMA NotEmpty ==
  ASSUME NEW S, NEW q \in Seq(S), Len(q) \in Nat \ {0}
  PROVE  q # <<>>
OBVIOUS

\* One sequence after another.
LEMMA ConcatLen ==
  ASSUME NEW S, NEW p \in Seq(S), NEW q \in Seq(S)
  PROVE  Len(p \o q) = Len(p) + Len(q) /\ Len(q) \in Nat
OBVIOUS

\* What the reader takes from the channel, and what it leaves there.
LEMMA HeadTail ==
  ASSUME NEW S, NEW q \in Seq(S), q # <<>>
  PROVE  Head(q) \in S /\ Tail(q) \in Seq(S)
OBVIOUS

\* The positions of a sequence in place.
LEMMA InPlaceElement ==
  ASSUME NEW q \in Seq(Entry), NEW base \in Nat, inPlace(q, base)
  PROVE  \A k \in 1 .. Len(q) : q[k] \in Entry /\ q[k].index = base + k - 1
<1>1. DOMAIN q = 1 .. Len(q)  OBVIOUS
<1>2. \A k \in 1 .. Len(q) : q[k] \in Entry  OBVIOUS
<1> QED  BY <1>1, <1>2, Zenon DEF inPlace

\* A sequence whose positions are right is in place.
LEMMA InPlaceIntro ==
  ASSUME NEW q \in Seq(Entry), NEW base \in Nat,
         \A k \in 1 .. Len(q) : q[k].index = base + k - 1
  PROVE  inPlace(q, base)
BY DEF inPlace

\* The part of a sequence from a position on.
LEMMA Suffix ==
  ASSUME NEW q \in Seq(Entry), NEW f \in Nat, f >= 1, f <= Len(q) + 1
  PROVE  /\ SubSeq(q, f, Len(q)) \in Seq(Entry)
         /\ Len(SubSeq(q, f, Len(q))) = Len(q) - f + 1
         /\ \A k \in 1 .. Len(q) - f + 1 :
              /\ SubSeq(q, f, Len(q))[k] = q[f + k - 1]
              /\ f + k - 1 \in 1 .. Len(q)
<1>1. Len(q) \in Nat /\ f \in Int /\ Len(q) \in Int  OBVIOUS
<1>2. \A k \in f .. Len(q) : q[k] \in Entry
  <2> TAKE k \in f .. Len(q)
  <2>1. k \in 1 .. Len(q)  BY <1>1
  <2> QED  BY <2>1
<1>3. /\ SubSeq(q, f, Len(q)) \in Seq(Entry)
      /\ Len(SubSeq(q, f, Len(q))) = IF f <= Len(q) THEN Len(q) - f + 1 ELSE 0
      /\ \A k \in 1 .. Len(q) - f + 1 : SubSeq(q, f, Len(q))[k] = q[f + k - 1]
  BY <1>1, <1>2
<1>4. (IF f <= Len(q) THEN Len(q) - f + 1 ELSE 0) = Len(q) - f + 1
  BY <1>1
<1>5. \A k \in 1 .. Len(q) - f + 1 : f + k - 1 \in 1 .. Len(q)
  BY <1>1
<1> QED  BY <1>3, <1>4, <1>5

\* It stays in place.
LEMMA InPlaceSuffix ==
  ASSUME NEW q \in Seq(Entry), NEW base \in Nat, inPlace(q, base),
         NEW f \in Nat, f >= 1, f <= Len(q) + 1
  PROVE  inPlace(SubSeq(q, f, Len(q)), base + f - 1)
<1> DEFINE s == SubSeq(q, f, Len(q))
<1>1. /\ s \in Seq(Entry) /\ Len(s) = Len(q) - f + 1 /\ Len(q) \in Nat
      /\ \A k \in 1 .. Len(s) : s[k] = q[f + k - 1] /\ f + k - 1 \in 1 .. Len(q)
  BY Suffix
<1> HIDE DEF s
<1>2. ASSUME NEW k \in 1 .. Len(s)  PROVE s[k].index = (base + f - 1) + k - 1
  <2>1. q[f + k - 1].index = base + (f + k - 1) - 1  BY <1>1, InPlaceElement
  <2> QED  BY <1>1, <2>1
<1>3. base + f - 1 \in Nat  OBVIOUS
<1> QED  BY <1>1, <1>2, <1>3, InPlaceIntro, Zenon DEF s

\* So does a non-empty part up to a position.
LEMMA InPlacePrefix ==
  ASSUME NEW q \in Seq(Entry), NEW base \in Nat, inPlace(q, base),
         NEW n \in Nat, n <= Len(q)
  PROVE  /\ SubSeq(q, 1, n) \in Seq(Entry) /\ Len(SubSeq(q, 1, n)) = n
         /\ inPlace(SubSeq(q, 1, n), base)
         /\ \A k \in 1 .. n : SubSeq(q, 1, n)[k] = q[k]
<1> DEFINE s == SubSeq(q, 1, n)
<1>1. Len(q) \in Nat  OBVIOUS
<1>2. \A k \in 1 .. n : k \in 1 .. Len(q) /\ q[k] \in Entry
  BY <1>1, InPlaceElement
<1>3. /\ s \in Seq(Entry)
      /\ Len(s) = IF 1 <= n THEN n - 1 + 1 ELSE 0
      /\ \A k \in 1 .. n - 1 + 1 : s[k] = q[1 + k - 1]
  BY <1>2
<1> HIDE DEF s
<1>4. Len(s) = n /\ \A k \in 1 .. n : s[k] = q[k]
  BY <1>3
<1>5. \A k \in 1 .. Len(s) : s[k].index = base + k - 1
  BY <1>2, <1>4, InPlaceElement, Zenon
<1> QED  BY <1>3, <1>4, <1>5, InPlaceIntro, Zenon DEF s

\* Two sequences of which the second continues the first.
LEMMA InPlaceConcat ==
  ASSUME NEW p \in Seq(Entry), NEW q \in Seq(Entry), NEW base \in Nat,
         inPlace(p, base), inPlace(q, base + Len(p))
  PROVE  p \o q \in Seq(Entry) /\ inPlace(p \o q, base)
<1> DEFINE s == p \o q
<1>1. /\ Len(p) \in Nat /\ Len(q) \in Nat
      /\ s \in Seq(Entry) /\ Len(s) = Len(p) + Len(q)
      /\ \A k \in 1 .. Len(s) : s[k] = IF k <= Len(p) THEN p[k] ELSE q[k - Len(p)]
  OBVIOUS
<1> HIDE DEF s
<1>2. ASSUME NEW k \in 1 .. Len(s)  PROVE s[k].index = base + k - 1
  <2>1. CASE k <= Len(p)
    <3>1. k \in 1 .. Len(p) /\ s[k] = p[k]  BY <1>1, <2>1
    <3> QED  BY <3>1, InPlaceElement
  <2>2. CASE k > Len(p)
    <3>1. k - Len(p) \in 1 .. Len(q) /\ s[k] = q[k - Len(p)]  BY <1>1, <2>2
    <3>2. base + Len(p) \in Nat  BY <1>1
    <3>3. q[k - Len(p)].index = (base + Len(p)) + (k - Len(p)) - 1
      BY <3>1, <3>2, InPlaceElement
    <3> QED  BY <1>1, <3>1, <3>3
  <2> QED  BY <1>1, <2>1, <2>2
<1> QED  BY <1>1, <1>2, InPlaceIntro, Zenon DEF s

-----------------------------------------------------------------------------
(* Type correctness                                                        *)

\* A group of variables a step leaves alone keeps its types.
LEMMA SameTypes ==
  ASSUME TypeOK
  PROVE  /\ UNCHANGED termVars => TermTypes'
         /\ UNCHANGED logVars => LogTypes'
         /\ UNCHANGED roleVars => RoleTypes'
         /\ UNCHANGED peerVars => PeerTypes'
         /\ UNCHANGED <<commitIndex, committed>> => CommitTypes'
         /\ UNCHANGED applyVars => ApplyTypes'
         /\ UNCHANGED diskVars => DiskTypes'
         /\ UNCHANGED <<msgs, restarts>> => EnvTypes'
         /\ UNCHANGED termLog => TermLogTypes'
<1>1. UNCHANGED termVars => TermTypes'  BY DEF TypeOK, termVars, TermTypes
<1>2. UNCHANGED logVars => LogTypes'  BY DEF TypeOK, logVars, LogTypes
<1>3. UNCHANGED roleVars => RoleTypes'  BY DEF TypeOK, roleVars, RoleTypes
<1>4. UNCHANGED peerVars => PeerTypes'  BY DEF TypeOK, peerVars, PeerTypes
<1>5. UNCHANGED <<commitIndex, committed>> => CommitTypes'
  BY DEF TypeOK, CommitTypes
<1>6. UNCHANGED applyVars => ApplyTypes'  BY DEF TypeOK, applyVars, ApplyTypes
<1>7. UNCHANGED diskVars => DiskTypes'  BY DEF TypeOK, diskVars, DiskTypes
<1>8. UNCHANGED <<msgs, restarts>> => EnvTypes'  BY DEF TypeOK, EnvTypes
<1>9. UNCHANGED termLog => TermLogTypes'  BY DEF TypeOK, TermLogTypes
<1> QED  BY <1>1, <1>2, <1>3, <1>4, <1>5, <1>6, <1>7, <1>8, <1>9

\* What the log operators return.
LEMMA LogFacts ==
  ASSUME TypeInv, NEW i \in Node
  PROVE  /\ logs[i] \in Seq(Entry) /\ Len(logs[i]) \in Nat \ {0}
         /\ lastIncludedIndex[i] \in Nat
         /\ getLen(i) \in Nat /\ getLen(i) > lastIncludedIndex[i]
         /\ getLastLog(i) \in Entry
         /\ getLastLog(i).index = getLen(i) - 1
         /\ \A n \in lastIncludedIndex[i] .. getLen(i) - 1 :
              /\ n \in Nat
              /\ n - lastIncludedIndex[i] + 1 \in 1 .. Len(logs[i])
              /\ getLog(i, n) \in Entry
              /\ getLog(i, n).index = n
<1>1. logs[i] \in Seq(Entry) /\ logs[i] # <<>> /\ lastIncludedIndex[i] \in Nat
  BY DEF TypeInv, TypeOK, LogTypes
<1>2. Len(logs[i]) \in Nat \ {0} /\ DOMAIN logs[i] = 1 .. Len(logs[i])
  BY <1>1
<1>3. \A k \in 1 .. Len(logs[i]) :
        logs[i][k] \in Entry /\ logs[i][k].index = lastIncludedIndex[i] + k - 1
  BY <1>1, <1>2 DEF TypeInv, EntriesInPlace, inPlace
<1>4. /\ getLen(i) \in Nat /\ getLen(i) > lastIncludedIndex[i]
      /\ getLastLog(i) \in Entry /\ getLastLog(i).index = getLen(i) - 1
  BY <1>1, <1>2, <1>3 DEF getLen, getLastLog
<1>5. ASSUME NEW n \in lastIncludedIndex[i] .. getLen(i) - 1
      PROVE  /\ n \in Nat
             /\ n - lastIncludedIndex[i] + 1 \in 1 .. Len(logs[i])
             /\ getLog(i, n) \in Entry
             /\ getLog(i, n).index = n
  <2>1. n \in Nat /\ n - lastIncludedIndex[i] + 1 \in 1 .. Len(logs[i])
    BY <1>1, <1>2 DEF getLen
  <2> QED  BY <1>1, <1>2, <1>3, <2>1 DEF getLog
<1> QED
  BY <1>1, <1>2, <1>4, <1>5

\* Values of the six kinds of message are told apart by their type.
LEMMA MessageKinds ==
  ASSUME TypeInv, NEW m \in msgs
  PROVE  /\ m.type = "RequestVote" => m \in RequestVoteArgs
         /\ m.type = "RequestVoteReply" => m \in RequestVoteReplies
         /\ m.type = "AppendEntries" => m \in AppendEntriesArgs
         /\ m.type = "AppendEntriesReply" => m \in AppendEntriesReplies
         /\ m.type = "InstallSnapshot" => m \in InstallSnapshotArgs
         /\ m.type = "InstallSnapshotReply" => m \in InstallSnapshotReplies
BY DEF TypeInv, TypeOK, LogTypes, EnvTypes, Message, RequestVoteArgs, RequestVoteReplies,
       AppendEntriesArgs, AppendEntriesReplies, InstallSnapshotArgs,
       InstallSnapshotReplies

\* The end of a log, from an index that is in it.
LEMMA LogSuffix ==
  ASSUME TypeInv, NEW i \in Node, NEW n \in Nat,
         n >= lastIncludedIndex[i], n <= getLen(i)
  PROVE  LET s == SubSeq(logs[i], n - lastIncludedIndex[i] + 1, Len(logs[i])) IN
         /\ s \in Seq(Entry)
         /\ inPlace(s, n)
         /\ n < getLen(i) => s # <<>> /\ Head(s) = getLog(i, n)
<1> DEFINE f == n - lastIncludedIndex[i] + 1
           s == SubSeq(logs[i], f, Len(logs[i]))
<1>1. /\ logs[i] \in Seq(Entry) /\ Len(logs[i]) \in Nat
      /\ lastIncludedIndex[i] \in Nat /\ inPlace(logs[i], lastIncludedIndex[i])
  BY LogFacts DEF TypeInv, EntriesInPlace
<1>2. f \in Nat /\ f >= 1 /\ f <= Len(logs[i]) + 1 /\ lastIncludedIndex[i] + f - 1 = n
  BY <1>1 DEF getLen
<1>3. s \in Seq(Entry) /\ inPlace(s, n)
  <2> HIDE DEF f
  <2> QED  BY <1>1, <1>2, Suffix, InPlaceSuffix
<1>4. ASSUME n < getLen(i)
      PROVE  s # <<>> /\ Head(s) = getLog(i, n)
  <2>1. f \in 1 .. Len(logs[i]) /\ Len(logs[i]) \in f .. Len(logs[i])
    BY <1>1, <1>2, <1>4 DEF getLen
  <2>2. Head(s) = logs[i][f]
    <3> HIDE DEF f
    <3> QED  BY <1>1, <2>1
  <2>3. Len(s) = Len(logs[i]) - f + 1
    <3> HIDE DEF f
    <3> QED  BY <1>1, <1>2, Suffix
  <2>4. s # <<>>
    <3> HIDE DEF s, f
    <3> QED  BY <1>1, <2>1, <2>3
  <2> QED  BY <2>2, <2>4, Zenon DEF getLog
<1> QED  BY <1>3, <1>4

\* What appendNewEntries leaves, for entries that follow one the node has.
LEMMA AppendNewEntriesInPlace ==
  ASSUME Least, TypeInv, NEW i \in Node, NEW entries \in Seq(Entry), NEW prev \in Nat,
         InBounds(i, prev), inPlace(entries, prev + 1)
  PROVE  LET new == appendNewEntries(i, entries) IN
         new \in Seq(Entry) \ {<<>>} /\ inPlace(new, lastIncludedIndex[i])
<1> DEFINE differs == {k \in DOMAIN entries :
                         \/ entries[k].index >= getLen(i)
                         \/ getLog(i, entries[k].index).term # entries[k].term}
           base == lastIncludedIndex[i]
<1>1. /\ logs[i] \in Seq(Entry) /\ Len(logs[i]) \in Nat \ {0} /\ base \in Nat
      /\ logs[i] # <<>> /\ inPlace(logs[i], base)
      /\ getLen(i) = base + Len(logs[i]) /\ prev >= base /\ prev < getLen(i)
  BY LogFacts DEF TypeInv, TypeOK, LogTypes, EntriesInPlace, InBounds, getLen
<1>2. CASE differs = {}
  BY <1>1, <1>2, Zenon DEF appendNewEntries
<1>3. CASE differs # {}
  <2>1. DOMAIN entries = 1 .. Len(entries) /\ Len(entries) \in Nat
    OBVIOUS
  <2>2. differs \in SUBSET Nat  BY <2>1
  <2>3. PICK k : k = Min(differs)  BY Zenon
  <2>4. k \in differs /\ \A l \in differs : k <= l
    <3> HIDE DEF differs
    <3> QED  BY <1>3, <2>2, <2>3, MinExists
  <2>5. k \in 1 .. Len(entries)  BY <2>1, <2>4
  <2>6. \A l \in 1 .. Len(entries) : entries[l].index = prev + l
    <3>1. \A l \in 1 .. Len(entries) : entries[l].index = (prev + 1) + l - 1
      BY InPlaceElement
    <3> QED  BY <2>1, <3>1
  <2>7. entries[k].index = prev + k  BY <2>5, <2>6
  <2>8. entries[k].index <= getLen(i)
    <3> SUFFICES ASSUME prev + k > getLen(i)  PROVE FALSE
      BY <1>1, <2>1, <2>5, <2>7
    <3>1. k - 1 \in 1 .. Len(entries) /\ prev + (k - 1) >= getLen(i)
      BY <1>1, <2>1, <2>5
    <3>2. entries[k - 1].index = prev + (k - 1)  BY <2>6, <3>1
    <3>3. k - 1 \in differs  BY <2>1, <3>1, <3>2
    <3> QED  BY <2>1, <2>4, <2>5, <3>3
  <2> DEFINE cut == entries[k].index - base
             kept == IF entries[k].index < getLen(i)
                     THEN SubSeq(logs[i], 1, cut) ELSE logs[i]
             rest == SubSeq(entries, k, Len(entries))
  <2>9. cut \in Nat /\ cut >= 1 /\ cut <= Len(logs[i])
        /\ (~ (entries[k].index < getLen(i)) => cut = Len(logs[i]))
        /\ base + cut = (prev + 1) + k - 1
    BY <1>1, <2>1, <2>5, <2>7, <2>8
  <2>10. appendNewEntries(i, entries) = kept \o rest
    BY <1>3, <2>3, Zenon DEF appendNewEntries
  <2>11. rest \in Seq(Entry) /\ inPlace(rest, base + cut)
    <3>1. k \in Nat /\ k >= 1 /\ k <= Len(entries) + 1 /\ prev + 1 \in Nat
      BY <2>1, <2>5
    <3> HIDE DEF cut
    <3> QED  BY <2>9, <3>1, Suffix, InPlaceSuffix
  <2>12. kept \in Seq(Entry) /\ inPlace(kept, base) /\ Len(kept) = cut
    <3> HIDE DEF cut
    <3> QED  BY <1>1, <2>9, InPlacePrefix
  <2> HIDE DEF kept, rest, cut
  <2>13. kept \o rest \in Seq(Entry) /\ inPlace(kept \o rest, base)
    BY <1>1, <2>11, <2>12, InPlaceConcat, Zenon
  <2>14. Len(kept \o rest) = Len(kept) + Len(rest) /\ Len(rest) \in Nat
    BY <2>11, <2>12, ConcatLen, Zenon
  <2>15. kept \o rest # <<>>
    <3>1. Len(kept \o rest) \in Nat \ {0}  BY <2>9, <2>12, <2>14
    <3> QED  BY <2>13, <3>1, NotEmpty, Zenon
  <2> QED  BY <2>10, <2>13, <2>15
<1> QED  BY <1>2, <1>3

\* What a step of one node that ends in persist or Save leaves on disk.
LEMMA Persisted ==
  ASSUME TypeInv, NEW i \in Node,
         currentTerm' \in [Node -> Nat],
         votedFor' \in [Node -> Node \cup {Nil}],
         logs' \in [Node -> Seq(Entry) \ {<<>>}],
         lastIncludedIndex' \in [Node -> Nat],
         lastIncludedTerm' \in [Node -> Nat],
         raftState' = [raftState EXCEPT ![i] = encodeState(i)'],
         \A j \in Node \ {i} : encodeState(j)' = encodeState(j),
         inPlace(logs'[i], lastIncludedIndex'[i])
  PROVE  /\ raftState' \in [Node -> PersistentState]
         /\ \A j \in Node : /\ inPlace(logs'[j], lastIncludedIndex'[j])
                            /\ raftState'[j] = encodeState(j)'
<1>1. \A j \in Node : encodeState(j)' \in PersistentState
  BY DEF encodeState, PersistentState
<1>2. raftState' \in [Node -> PersistentState]
  BY <1>1 DEF TypeInv, TypeOK, DiskTypes
<1>3. ASSUME NEW j \in Node \ {i}
      PROVE  inPlace(logs'[j], lastIncludedIndex'[j]) /\ raftState'[j] = encodeState(j)'
  <2>1. logs'[j] = logs[j] /\ lastIncludedIndex'[j] = lastIncludedIndex[j]
    BY Zenon DEF encodeState
  <2>2. raftState'[j] = raftState[j]  BY DEF TypeInv, TypeOK, DiskTypes
  <2> QED  BY <2>1, <2>2 DEF TypeInv, EntriesInPlace
<1>4. raftState'[i] = encodeState(i)'  BY Zenon DEF TypeInv, TypeOK, DiskTypes
<1> QED  BY <1>2, <1>3, <1>4, Zenon

\* A node that starts from well-formed files is well-formed.
LEMMA BootType ==
  ASSUME TypeInv, NEW i \in Node, NEW rs \in PersistentState,
         inPlace(rs.logs, rs.lastIncludedIndex), Boot(i, rs, snapshot[i])
  PROVE  TypeInv'
<1> USE DEF Boot
<1>1. TypeOK'
  <2>1. /\ currentTerm' \in [Node -> Nat]
        /\ votedFor' \in [Node -> Node \cup {Nil}]
        /\ logs' \in [Node -> Seq(Entry) \ {<<>>}]
        /\ lastIncludedIndex' \in [Node -> Nat]
        /\ lastIncludedTerm' \in [Node -> Nat]
    BY DEF TypeInv, TypeOK, TermTypes, LogTypes, PersistentState
  <2>2. /\ state' \in [Node -> {"Follower", "Candidate", "Leader"}]
        /\ currentLeader' \in [Node -> Node \cup {Nil}]
        /\ grantedVotes' \in [Node -> SUBSET Node]
        /\ nextIndex' \in [Node -> [Node -> Nat]]
        /\ matchIndex' \in [Node -> [Node -> Nat]]
    BY DEF TypeInv, TypeOK, RoleTypes, PeerTypes
  <2>3. /\ commitIndex' \in [Node -> Nat]
        /\ lastApplied' \in [Node -> Nat]
        /\ rsmLastApplied' \in [Node -> Nat]
    BY DEF TypeInv, TypeOK, CommitTypes, ApplyTypes, PersistentState
  <2>4. /\ applyCh' \in [Node -> Seq(ApplyMsg)]
        /\ applied' \in [Node -> ServiceState]
    BY DEF TypeInv, TypeOK, ApplyTypes, DiskTypes
  <2>5. checking' \in [Node -> BOOLEAN]
    BY DEF TypeInv, TypeOK, ApplyTypes
  <2>6. /\ raftState' \in [Node -> PersistentState]
        /\ restarts' \in [Node -> Nat]
        /\ snapshot' \in [Node -> ServiceState]
        /\ msgs' \in SUBSET Message
        /\ committed' \in SUBSET Entry
    BY DEF TypeInv, TypeOK, CommitTypes, DiskTypes, EnvTypes
  <2>7. TermLogTypes'  BY SameTypes DEF TypeInv
  <2> QED
    BY <2>1, <2>2, <2>3, <2>4, <2>5, <2>6, <2>7
    DEF TypeOK, TermTypes, LogTypes, RoleTypes, PeerTypes, CommitTypes,
        ApplyTypes, DiskTypes, EnvTypes
<1>2. ASSUME NEW j \in Node
      PROVE  inPlace(logs'[j], lastIncludedIndex'[j]) /\ raftState'[j] = encodeState(j)'
  <2>1. CASE j = i
    <3>1. /\ currentTerm'[i] = rs.currentTerm /\ votedFor'[i] = rs.votedFor
          /\ logs'[i] = rs.logs /\ lastIncludedIndex'[i] = rs.lastIncludedIndex
          /\ lastIncludedTerm'[i] = rs.lastIncludedTerm /\ raftState'[i] = rs
      BY DEF TypeInv, TypeOK, TermTypes, LogTypes, DiskTypes
    <3>2. rs = [currentTerm |-> rs.currentTerm, votedFor |-> rs.votedFor,
                logs |-> rs.logs, lastIncludedIndex |-> rs.lastIncludedIndex,
                lastIncludedTerm |-> rs.lastIncludedTerm]
      BY Zenon DEF PersistentState
    <3> QED  BY <2>1, <3>1, <3>2, Zenon DEF encodeState
  <2>2. CASE j # i
    <3>1. /\ currentTerm'[j] = currentTerm[j] /\ votedFor'[j] = votedFor[j]
          /\ logs'[j] = logs[j] /\ lastIncludedIndex'[j] = lastIncludedIndex[j]
          /\ lastIncludedTerm'[j] = lastIncludedTerm[j] /\ raftState'[j] = raftState[j]
      BY <2>2, Zenon DEF TypeInv, TypeOK, TermTypes, LogTypes, DiskTypes
    <3> QED  BY <3>1, Zenon DEF TypeInv, EntriesInPlace, encodeState
  <2> QED  BY <2>1, <2>2
<1> QED  BY <1>1, <1>2, Zenon DEF TypeInv, EntriesInPlace

\* The state with a log cut at an index it has, as Snapshot saves it.
LEMMA SnapshotDueFacts ==
  ASSUME TypeInv, NEW i \in Node, snapshotDue(i)
  PROVE  /\ rsmLastApplied[i] \in Nat
         /\ logsFrom(i, rsmLastApplied[i]) \in Seq(Entry) \ {<<>>}
         /\ inPlace(logsFrom(i, rsmLastApplied[i]), rsmLastApplied[i])
         /\ Head(logsFrom(i, rsmLastApplied[i])).term \in Nat
<1> DEFINE n == rsmLastApplied[i]
<1>1. n \in Nat /\ n >= lastIncludedIndex[i] /\ n < getLen(i)
      /\ n \in lastIncludedIndex[i] .. getLen(i) - 1
  BY LogFacts DEF snapshotDue, InBounds, TypeInv, TypeOK, LogTypes, CommitTypes, ApplyTypes, DiskTypes
<1>2. n <= getLen(i)  BY <1>1, LogFacts
<1>3. getLog(i, n) \in Entry  BY <1>1, LogFacts
<1> HIDE DEF n
<1>4. /\ logsFrom(i, n) \in Seq(Entry) \ {<<>>} /\ inPlace(logsFrom(i, n), n)
      /\ Head(logsFrom(i, n)) = getLog(i, n)
  BY <1>1, <1>2, LogSuffix DEF logsFrom
<1> QED  BY <1>1, <1>3, <1>4 DEF n, Entry

\* The log InstallSnapshot keeps.
LEMMA TruncateInPlace ==
  ASSUME TypeInv, NEW i \in Node, NEW n \in Nat, NEW t \in Nat,
         n > lastIncludedIndex[i]
  PROVE  /\ truncateLogWithSnapshot(i, n, t) \in Seq(Entry) \ {<<>>}
         /\ inPlace(truncateLogWithSnapshot(i, n, t), n)
<1>1. lastIncludedIndex[i] \in Nat /\ getLen(i) \in Nat  BY LogFacts, Zenon
<1>2. CASE n < getLen(i) /\ getLog(i, n).term = t
  <2>1. n >= lastIncludedIndex[i] /\ n <= getLen(i)  BY <1>1, <1>2
  <2> QED  BY <1>2, <2>1, LogSuffix DEF truncateLogWithSnapshot
<1>3. CASE ~ (n < getLen(i) /\ getLog(i, n).term = t)
  <2> DEFINE e == [index |-> n, term |-> t, cmd |-> Nil]
  <2>1. e \in Entry /\ e.index = n  BY DEF Entry
  <2> HIDE DEF e
  <2>2. <<e>> \in Seq(Entry) \ {<<>>} /\ Len(<<e>>) = 1 /\ <<e>>[1] = e
    BY <2>1
  <2>3. inPlace(<<e>>, n)
    <3>1. \A k \in 1 .. Len(<<e>>) : <<e>>[k].index = n + k - 1
      BY <2>1, <2>2
    <3> QED  BY <2>2, <3>1, InPlaceIntro, Zenon
  <2>4. truncateLogWithSnapshot(i, n, t) = <<e>>
    BY <1>3, Zenon DEF truncateLogWithSnapshot, e
  <2> QED  BY <2>2, <2>3, <2>4
<1> QED  BY <1>2, <1>3

\* Steps that leave what is logged and persisted alone, and send no entries.
LEMMA FrameInPlace ==
  ASSUME TypeInv, UNCHANGED <<termVars, logVars, raftState>>,
         \A m \in msgs' : m.type = "AppendEntries" => m \in msgs
  PROVE  EntriesInPlace'
<1>1. \A i \in Node : encodeState(i)' = encodeState(i)
  BY Zenon DEF encodeState, termVars, logVars
<1> QED  BY <1>1, Zenon DEF TypeInv, EntriesInPlace, termVars, logVars

\* A step that adopts a term and ends in persist, with the log as it was.
LEMMA PersistTermType ==
  ASSUME TypeInv, NEW i \in Node, NEW t \in Nat, NEW v \in Node \cup {Nil},
         currentTerm' = [currentTerm EXCEPT ![i] = t],
         votedFor' = [votedFor EXCEPT ![i] = v],
         UNCHANGED logVars, persist(i),
         \A m \in msgs' : m.type = "AppendEntries" => m \in msgs
  PROVE  /\ currentTerm' \in [Node -> Nat]
         /\ votedFor' \in [Node -> Node \cup {Nil}]
         /\ raftState' \in [Node -> PersistentState]
         /\ EntriesInPlace'
<1>1. currentTerm' \in [Node -> Nat] /\ votedFor' \in [Node -> Node \cup {Nil}]
  BY DEF TypeInv, TypeOK, TermTypes
<1>2. /\ logs' = logs /\ lastIncludedIndex' = lastIncludedIndex
      /\ lastIncludedTerm' = lastIncludedTerm
  BY Zenon DEF logVars
<1>3. \A j \in Node \ {i} : encodeState(j)' = encodeState(j)
  BY <1>2, Zenon DEF encodeState, TypeInv, TypeOK, TermTypes, LogTypes
<1>4. inPlace(logs'[i], lastIncludedIndex'[i])
  BY <1>2 DEF TypeInv, EntriesInPlace
<1>5. /\ raftState' \in [Node -> PersistentState]
      /\ \A j \in Node : /\ inPlace(logs'[j], lastIncludedIndex'[j])
                         /\ raftState'[j] = encodeState(j)'
  BY <1>1, <1>2, <1>3, <1>4, Persisted, Zenon DEF TypeInv, TypeOK, LogTypes, DiskTypes, persist
<1> QED  BY <1>1, <1>5 DEF TypeInv, EntriesInPlace

\* A candidacy keeps the types: the requests sent carry the end of the log.
LEMMA ElectionTimeoutType ==
  ASSUME TypeInv, NEW i \in Node, ElectionTimeout(i)
  PROVE  TypeInv'
<1> USE DEF ElectionTimeout, becomeCandidate, startElection
<1>1. currentTerm[i] + 1 \in Nat /\ currentTerm'[i] \in Nat
  BY DEF TypeInv, TypeOK, TermTypes
<1>2. getLastLog(i).index \in Nat /\ getLastLog(i).term \in Nat
  BY LogFacts, Zenon DEF Entry
<1>3. \A peer \in Node : genRequestVoteArgs(i, peer) \in RequestVoteArgs
  BY <1>1, <1>2 DEF genRequestVoteArgs, RequestVoteArgs
<1>4. msgs' \in SUBSET Message
  BY <1>3, Zenon DEF TypeInv, TypeOK, EnvTypes, Message
<1>5. \A m \in msgs' : m.type = "AppendEntries" => m \in msgs
  BY <1>3 DEF RequestVoteArgs
<1>6. /\ currentTerm' \in [Node -> Nat]
      /\ votedFor' \in [Node -> Node \cup {Nil}]
      /\ raftState' \in [Node -> PersistentState]
      /\ EntriesInPlace'
  BY <1>1, <1>5, PersistTermType, Zenon
<1>7. RoleTypes' /\ EnvTypes'
  BY <1>4, Zenon DEF TypeInv, TypeOK, RoleTypes, EnvTypes
<1>8. TypeOK'
  BY <1>6, <1>7, SameTypes DEF persist, TypeInv, TypeOK, TermTypes, DiskTypes
<1> QED  BY <1>6, <1>8 DEF TypeInv

\* Answering a vote request keeps the types; the log is not touched.
LEMMA RequestVoteType ==
  ASSUME TypeInv, NEW m \in msgs, RequestVote(m)
  PROVE  TypeInv'
<1> DEFINE i == m.to
<1>0. UNCHANGED <<peerVars, commitIndex, applyVars, restarts, committed, termLog>>
  BY Zenon DEF RequestVote
<1>1. m \in RequestVoteArgs
  BY MessageKinds DEF RequestVote
<1>2. i \in Node /\ m.from \in Node /\ m.term \in Nat
  BY <1>1 DEF RequestVoteArgs
<1>3. /\ currentTerm[i] \in Nat /\ votedFor[i] \in Node \cup {Nil}
      /\ voteBefore(i, m.term) \in Node \cup {Nil}
  BY <1>2 DEF TypeInv, TypeOK, TermTypes, voteBefore
<1>4. /\ msgs' \in SUBSET Message
      /\ \A x \in msgs' : x.type = "AppendEntries" => x \in msgs
  <2>1. PICK g \in BOOLEAN : msgs' = msgs \cup
          {[type |-> "RequestVoteReply", from |-> i, to |-> m.from,
            term |-> m.term, replyTerm |-> currentTerm[i], voteGranted |-> g]}
    BY Zenon DEF RequestVote
  <2>2. [type |-> "RequestVoteReply", from |-> i, to |-> m.from, term |-> m.term,
         replyTerm |-> currentTerm[i], voteGranted |-> g] \in RequestVoteReplies
    BY <1>2, <1>3 DEF RequestVoteReplies
  <2> QED  BY <2>1, <2>2 DEF TypeInv, TypeOK, EnvTypes, Message, RequestVoteReplies
<1>5. CASE m.term < currentTerm[i]
  <2>1. UNCHANGED <<termVars, roleVars, logVars, diskVars>>
    BY <1>2, <1>3, <1>5 DEF RequestVote
  <2>2. EntriesInPlace'
    BY <1>4, <2>1, FrameInPlace DEF diskVars
  <2>3. TypeOK'
    BY <1>0, <1>4, <2>1, SameTypes DEF TypeInv, TypeOK, EnvTypes
  <2> QED  BY <2>2, <2>3, Zenon DEF TypeInv
<1>6. CASE m.term >= currentTerm[i]
  <2>1. PICK v \in Node \cup {Nil} :
          /\ currentTerm' = [currentTerm EXCEPT ![i] = m.term]
          /\ votedFor' = [votedFor EXCEPT ![i] = v]
          /\ state' = [state EXCEPT
               ![i] = IF m.term > currentTerm[i] THEN "Follower" ELSE @]
          /\ UNCHANGED <<currentLeader, grantedVotes, logVars>>
          /\ persist(i)
    BY <1>2, <1>3, <1>6 DEF RequestVote
  <2>2. /\ currentTerm' \in [Node -> Nat]
        /\ votedFor' \in [Node -> Node \cup {Nil}]
        /\ raftState' \in [Node -> PersistentState]
        /\ EntriesInPlace'
    BY <1>2, <1>4, <2>1, PersistTermType, Zenon
  <2>3. state' \in [Node -> {"Follower", "Candidate", "Leader"}]
    BY <2>1, Zenon DEF TypeInv, TypeOK, RoleTypes
  <2>4. TypeOK'
    BY <1>0, <1>4, <2>1, <2>2, <2>3, SameTypes
    DEF persist, TypeInv, TypeOK, TermTypes, RoleTypes, DiskTypes, EnvTypes
  <2> QED  BY <2>2, <2>4, Zenon DEF TypeInv
<1> QED  BY <1>2, <1>3, <1>5, <1>6

\* Stepping down on a reply from a later term.
LEMMA HigherTermType ==
  ASSUME TypeInv, NEW i \in Node, NEW t \in Nat, handleHigherTerm(i, t),
         UNCHANGED <<peerVars, commitIndex, applyVars, msgs, restarts, committed, termLog>>
  PROVE  TypeInv'
<1>1. msgs' = msgs  OBVIOUS
<1>2. /\ currentTerm' \in [Node -> Nat]
      /\ votedFor' \in [Node -> Node \cup {Nil}]
      /\ raftState' \in [Node -> PersistentState]
      /\ EntriesInPlace'
  BY <1>1, PersistTermType, Zenon DEF handleHigherTerm
<1>3. state' \in [Node -> {"Follower", "Candidate", "Leader"}]
  BY Zenon DEF TypeInv, TypeOK, RoleTypes, handleHigherTerm
<1>4. TypeOK'
  BY <1>2, <1>3, SameTypes DEF handleHigherTerm, persist, TypeInv, TypeOK, TermTypes,
                               RoleTypes, DiskTypes
<1> QED  BY <1>2, <1>4 DEF TypeInv

\* A complete log is a sequence of entries.
LEMMA WholeLogType ==
  ASSUME TypeInv, NEW i \in Node
  PROVE  wholeLog(i) \in Seq(Entry)
<1>1. snapshot[i] \in Seq(Entry) /\ logs[i] \in Seq(Entry) /\ logs[i] # <<>>
  BY Zenon DEF TypeInv, TypeOK, LogTypes, DiskTypes, ServiceState
<1>2. Tail(logs[i]) \in Seq(Entry)  BY <1>1
<1> QED  BY <1>1, <1>2 DEF wholeLog

\* The log of a new leader is recorded for its term.
LEMMA BecomeLeaderTermLog ==
  ASSUME TypeInv, NEW i \in Node,
         termLog' = [t \in DOMAIN termLog \cup {currentTerm[i]} |->
                       IF t = currentTerm[i] THEN wholeLog(i) ELSE termLog[t]]
  PROVE  TermLogTypes'
<1>1. currentTerm[i] \in Nat  BY DEF TypeInv, TypeOK, TermTypes
<1>2. DOMAIN termLog' = DOMAIN termLog \cup {currentTerm[i]}  OBVIOUS
<1>3. \A t \in DOMAIN termLog' : termLog'[t] \in Seq(Entry)
  BY <1>2, WholeLogType DEF TypeInv, TypeOK, TermLogTypes
<1> QED  BY <1>1, <1>2, <1>3, Zenon DEF TypeInv, TypeOK, TermLogTypes

\* So is what it appends.
LEMMA StartTermLog ==
  ASSUME TypeInv, NEW i \in Node, NEW e \in Entry,
         termLog' = [termLog EXCEPT ![currentTerm[i]] = Append(@, e)]
  PROVE  TermLogTypes'
<1>1. DOMAIN termLog' = DOMAIN termLog  OBVIOUS
<1>2. \A t \in DOMAIN termLog : termLog'[t] \in Seq(Entry)
  BY DEF TypeInv, TypeOK, TermLogTypes
<1> QED  BY <1>1, <1>2, Zenon DEF TypeInv, TypeOK, TermLogTypes

\* Counting a vote, becoming leader or stepping down keeps the types.
LEMMA RequestVoteReplyType ==
  ASSUME TypeInv, NEW m \in msgs, RequestVoteReply(m)
  PROVE  TypeInv'
<1> DEFINE i == m.to
<1>0. UNCHANGED <<commitIndex, applyVars, msgs, restarts, committed>>
  BY Zenon DEF RequestVoteReply
<1>1. m \in RequestVoteReplies
  BY MessageKinds, Zenon DEF RequestVoteReply
<1>2. i \in Node /\ m.from \in Node /\ m.replyTerm \in Nat
  BY <1>1, Zenon DEF RequestVoteReplies
<1>3. CASE handleHigherTerm(i, m.replyTerm) /\ UNCHANGED <<peerVars, termLog>>
  BY <1>0, <1>2, <1>3, HigherTermType
<1>4. CASE /\ grantedVotes' = [grantedVotes EXCEPT ![i] = grantedVotes[i] \cup {m.from}]
           /\ \/ becomeLeader(i)
              \/ UNCHANGED <<state, currentLeader, peerVars, termLog>>
           /\ UNCHANGED <<termVars, logVars, diskVars>>
  <2>1. EntriesInPlace'
    BY <1>0, <1>4, FrameInPlace, Zenon DEF diskVars
  <2>2. grantedVotes' \in [Node -> SUBSET Node]
    BY <1>2, <1>4 DEF TypeInv, TypeOK, RoleTypes
  <2>3. /\ state' \in [Node -> {"Follower", "Candidate", "Leader"}]
        /\ currentLeader' \in [Node -> Node \cup {Nil}]
        /\ nextIndex' \in [Node -> [Node -> Nat]]
        /\ matchIndex' \in [Node -> [Node -> Nat]]
    <3>1. CASE becomeLeader(i)
      <4>1. getLastLog(i).index \in Nat /\ lastIncludedIndex[i] \in Nat
        BY <1>2, LogFacts DEF Entry
      <4>2. /\ [j \in Node |-> getLastLog(i).index + 1] \in [Node -> Nat]
            /\ [j \in Node |-> initialMatchIndex(i, j)] \in [Node -> Nat]
        BY <4>1 DEF initialMatchIndex
      <4> QED  BY <1>2, <3>1, <4>2, Zenon DEF becomeLeader, TypeInv, TypeOK, RoleTypes, PeerTypes
    <3>2. CASE UNCHANGED <<state, currentLeader, peerVars, termLog>>
      BY <3>2 DEF TypeInv, TypeOK, RoleTypes, PeerTypes, peerVars
    <3> QED  BY <1>4, <3>1, <3>2, Zenon
  <2>4. TermLogTypes'
    <3>1. CASE becomeLeader(i)
      BY <1>2, <3>1, BecomeLeaderTermLog DEF becomeLeader
    <3>2. CASE UNCHANGED termLog
      BY <3>2, SameTypes, Zenon DEF TypeInv
    <3> QED  BY <1>4, <3>1, <3>2, Zenon
  <2>5. TypeOK'
    BY <1>0, <1>4, <2>2, <2>3, <2>4, SameTypes DEF TypeInv, TypeOK, RoleTypes, PeerTypes
  <2> QED  BY <2>1, <2>5 DEF TypeInv
<1> QED  BY <1>3, <1>4 DEF RequestVoteReply

\* The entry Start appends takes the index that follows the log.
LEMMA StartType ==
  ASSUME TypeInv, NEW i \in Node, Start(i)
  PROVE  TypeInv'
<1> DEFINE e == [index |-> getLen(i), term |-> currentTerm[i], cmd |-> i]
<1>1. /\ logs[i] \in Seq(Entry) /\ Len(logs[i]) \in Nat /\ lastIncludedIndex[i] \in Nat
      /\ inPlace(logs[i], lastIncludedIndex[i])
      /\ getLen(i) = lastIncludedIndex[i] + Len(logs[i])
  BY LogFacts, Zenon DEF TypeInv, EntriesInPlace, getLen
<1>2. e \in Entry /\ e.index = getLen(i)
  BY <1>1, LogFacts DEF Entry, TypeInv, TypeOK, TermTypes
<1> HIDE DEF e
<1>3. /\ Append(logs[i], e) \in Seq(Entry) \ {<<>>}
      /\ inPlace(Append(logs[i], e), lastIncludedIndex[i])
  <2> DEFINE s == Append(logs[i], e)
  <2>1. /\ s \in Seq(Entry) /\ s # <<>> /\ Len(s) = Len(logs[i]) + 1
        /\ \A k \in 1 .. Len(logs[i]) : s[k] = logs[i][k]
        /\ s[Len(logs[i]) + 1] = e
    BY <1>1, <1>2
  <2> HIDE DEF s
  <2>2. \A k \in 1 .. Len(s) : s[k].index = lastIncludedIndex[i] + k - 1
    <3> TAKE k \in 1 .. Len(s)
    <3>1. CASE k \in 1 .. Len(logs[i])
      BY <1>1, <2>1, <3>1, InPlaceElement, Zenon
    <3>2. CASE k = Len(logs[i]) + 1
      BY <1>1, <1>2, <2>1, <3>2
    <3> QED  BY <1>1, <2>1, <3>1, <3>2
  <2> QED  BY <1>1, <2>1, <2>2, InPlaceIntro, Zenon DEF s
<1>4. /\ logs' = [logs EXCEPT ![i] = Append(logs[i], e)]
      /\ UNCHANGED <<currentTerm, votedFor, lastIncludedIndex, lastIncludedTerm>>
      /\ persist(i) /\ msgs' = msgs
      /\ UNCHANGED <<termVars, roleVars, peerVars, commitIndex, applyVars, restarts, committed>>
      /\ termLog' = [termLog EXCEPT ![currentTerm[i]] = Append(@, e)]
  BY Zenon DEF Start, e, termVars
<1>5. logs' \in [Node -> Seq(Entry) \ {<<>>}]
  BY <1>3, <1>4, Zenon DEF TypeInv, TypeOK, LogTypes
<1>6. \A j \in Node \ {i} : encodeState(j)' = encodeState(j)
  BY <1>4 DEF encodeState, TypeInv, TypeOK, TermTypes, LogTypes
<1>7. inPlace(logs'[i], lastIncludedIndex'[i])
  BY <1>3, <1>4 DEF TypeInv, TypeOK, LogTypes
<1>8. /\ raftState' \in [Node -> PersistentState]
      /\ \A j \in Node : /\ inPlace(logs'[j], lastIncludedIndex'[j])
                         /\ raftState'[j] = encodeState(j)'
  BY <1>4, <1>5, <1>6, <1>7, Persisted, Zenon DEF TypeInv, TypeOK, TermTypes, LogTypes, persist
<1>9. EntriesInPlace'
  BY <1>4, <1>8 DEF TypeInv, EntriesInPlace
<1>10. TermLogTypes'  BY <1>2, <1>4, StartTermLog, Zenon
<1>11. TypeOK'
  BY <1>4, <1>5, <1>8, <1>10, SameTypes, Zenon DEF persist, TypeInv, TypeOK, LogTypes, DiskTypes
<1> QED  BY <1>9, <1>11, Zenon DEF TypeInv

\* What a leader sends is a suffix of its log, in place after prevLogIndex,
\* or its snapshot.
LEMMA ReplicateType ==
  ASSUME TypeInv, NEW i \in Node, NEW peer \in Node, replicateToPeer(i, peer)
  PROVE  TypeInv'
<1>0. UNCHANGED <<termVars, logVars, roleVars, peerVars, commitIndex, applyVars,
                  diskVars, restarts, committed, termLog>>
  BY Zenon DEF replicateToPeer
<1>1. /\ lastIncludedIndex[i] \in Nat /\ lastIncludedTerm[i] \in Nat
      /\ restarts[i] \in Nat /\ currentTerm[i] \in Nat /\ commitIndex[i] \in Nat
      /\ snapshot[i] \in ServiceState
      /\ nextIndex[i][peer] \in Nat
  BY DEF TypeInv, TypeOK, TermTypes, LogTypes, PeerTypes, CommitTypes, DiskTypes, EnvTypes
<1>2. /\ msgs' \in SUBSET Message
      /\ \A m \in msgs' : m.type = "AppendEntries"
                            => inPlace(m.entries, m.prevLogIndex + 1)
  <2>1. CASE msgs' = msgs \cup {genInstallSnapshotArgs(i, peer)}
    <3>1. genInstallSnapshotArgs(i, peer) \in InstallSnapshotArgs
      BY <1>1, Zenon DEF genInstallSnapshotArgs, InstallSnapshotArgs
    <3> QED  BY <2>1, <3>1, Zenon DEF TypeInv, TypeOK, LogTypes, EnvTypes, EntriesInPlace, Message,
                               InstallSnapshotArgs
  <2>2. CASE /\ InBounds(i, nextIndex[i][peer] - 1)
             /\ msgs' = msgs \cup {genAppendEntriesArgs(i, peer, nextIndex[i][peer] - 1)}
    <3> DEFINE prev == nextIndex[i][peer] - 1
               args == genAppendEntriesArgs(i, peer, prev)
    <3>1. /\ prev \in Nat /\ prev + 1 >= lastIncludedIndex[i] /\ prev + 1 <= getLen(i)
          /\ getLog(i, prev) \in Entry
          /\ prev - lastIncludedIndex[i] + 2 = (prev + 1) - lastIncludedIndex[i] + 1
      <4>1. getLen(i) \in Nat  BY LogFacts, Zenon
      <4>2. prev \in lastIncludedIndex[i] .. getLen(i) - 1  BY <2>2, Zenon DEF InBounds
      <4>3. getLog(i, prev) \in Entry  BY <4>2, LogFacts, Zenon
      <4> HIDE DEF prev
      <4>4. prev \in Int /\ prev >= lastIncludedIndex[i] /\ prev <= getLen(i) - 1
        BY <1>1, <4>1, <4>2
      <4>5. prev \in Nat  BY <1>1, <4>4
      <4>6. prev + 1 >= lastIncludedIndex[i] /\ prev + 1 <= getLen(i)
        BY <1>1, <4>1, <4>4
      <4>7. prev - lastIncludedIndex[i] + 2 = (prev + 1) - lastIncludedIndex[i] + 1
        BY <1>1, <4>4
      <4> QED  BY <4>3, <4>5, <4>6, <4>7, Zenon
    <3>2. entriesAfter(i, prev) \in Seq(Entry) /\ inPlace(entriesAfter(i, prev), prev + 1)
      <4>1. prev + 1 \in Nat  BY <3>1
      <4> HIDE DEF prev
      <4> QED  BY <3>1, <4>1, LogSuffix, Zenon DEF entriesAfter
    <3>3. args \in AppendEntriesArgs /\ args.entries = entriesAfter(i, prev)
          /\ args.prevLogIndex = prev
      <4> HIDE DEF prev
      <4> QED  BY <1>1, <3>1, <3>2, Zenon DEF genAppendEntriesArgs, AppendEntriesArgs, Entry
    <3>4. msgs' = msgs \cup {args}  BY <2>2
    <3> HIDE DEF args, prev
    <3> QED  BY <3>2, <3>3, <3>4 DEF TypeInv, TypeOK, EnvTypes, EntriesInPlace, Message
  <2> QED  BY <2>1, <2>2, Zenon DEF replicateToPeer
<1>3. TypeOK'
  BY <1>0, <1>2, SameTypes, Zenon DEF TypeInv, TypeOK, EnvTypes
<1>4. EntriesInPlace'
  BY <1>0, <1>2, Zenon DEF TypeInv, EntriesInPlace, encodeState, termVars, logVars, diskVars
<1> QED  BY <1>3, <1>4 DEF TypeInv

\* What a request of a leader does to the role and term of its receiver.
LEMMA FollowLeaderType ==
  ASSUME TypeInv, NEW m, m.to \in Node, m.from \in Node, m.term \in Nat,
         followLeader(m)
  PROVE  /\ voteBefore(m.to, m.term) \in Node \cup {Nil}
         /\ currentTerm' \in [Node -> Nat]
         /\ votedFor' \in [Node -> Node \cup {Nil}]
         /\ currentLeader' \in [Node -> Node \cup {Nil}]
         /\ state' \in [Node -> {"Follower", "Candidate", "Leader"}]
         /\ grantedVotes' \in [Node -> SUBSET Node]
<1>1. voteBefore(m.to, m.term) \in Node \cup {Nil}
  BY DEF TypeInv, TypeOK, TermTypes, voteBefore
<1> QED  BY <1>1 DEF followLeader, TypeInv, TypeOK, TermTypes, RoleTypes

=============================================================================
