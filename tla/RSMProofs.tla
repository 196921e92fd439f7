------------------------------ MODULE RSMProofs ------------------------------
(***************************************************************************)
(* Proofs about RSM, for any number of calls and any bounds: what a Submit *)
(* returns, what the state machine holds, and who can still be woken.      *)
(***************************************************************************)
EXTENDS RSM, TLAPS

Message ==
  [type : {"Command"}, entry : Entry] \cup
  [type : {"Snapshot"}, index : Nat, data : Seq(Entry)]
Result == [id : Calls \cup {Other, Nil}, val : Seq(Entry) \cup {Nil}]
Answer == {Nil, ErrWrongLeader} \cup [err : {"OK"}, val : Seq(Entry) \cup {Nil}]
Call ==
  [pc : {"idle", "waiting", "timedOut", "leaving", "returned"},
   index : 0 .. MaxIndex, term : 0 .. MaxTerm, answer : Answer]
Reader ==
  [pc : {"ready", "received", "applied", "sending", "outdating", "waking",
         "ended"},
   msg : Message \cup {Nil}, res : Result \cup {Nil}, todo : SUBSET Index]

\* The types of everything, apart from the bounds by the length of the log
TypeInv ==
  /\ term \in 0 .. MaxTerm /\ role \in {"Follower", "Candidate", "Leader"}
  /\ log \in Seq(Entry) /\ applied \in Seq(Entry) /\ applyCh \in Seq(Message)
  /\ commitIndex \in Nat /\ lastIncludedIndex \in Nat
  /\ lastApplied \in Nat /\ rsmLastApplied \in Nat
  /\ pending \in [Index -> Calls \cup {Nil}]
  /\ closed \subseteq Calls
  /\ call \in [Calls -> Call]
  /\ reader \in Reader
  /\ mu = IF reader.pc \in {"sending", "outdating", "waking"} THEN "reader"
          ELSE Nil

\* The log: entries in place, and how far Raft has come with them
LogInv ==
  /\ \A n \in 1 .. Len(log) : log[n].index = n
  /\ commitIndex <= Len(log)
  /\ lastIncludedIndex <= commitIndex /\ lastApplied <= commitIndex

isCommand(msg) == msg.type = "Command"

\* Where the state machine will be once the reader has handled its message
reached == IF reader.pc # "received" THEN Len(applied)
           ELSE IF isCommand(reader.msg) THEN Len(applied) + 1
           ELSE reader.msg.index

\* What is on its way from the log to the state machine continues it.
HandoverInv ==
  /\ applyCh = <<>> => lastApplied = reached
  /\ applyCh # <<>> =>
       \/ /\ lastApplied = reached + Len(applyCh)
          /\ \A k \in 1 .. Len(applyCh) :
               /\ isCommand(applyCh[k])
               /\ applyCh[k].entry = log[reached + k]
       \/ /\ Len(applyCh) = 1
          /\ ~ isCommand(applyCh[1])
          /\ applyCh[1].index = lastApplied /\ lastApplied > reached
          /\ applyCh[1].data = SubSeq(log, 1, lastApplied)
  /\ reader.pc = "received" =>
       /\ reader.msg \in Message
       /\ reached <= commitIndex /\ reached > Len(applied)
       /\ isCommand(reader.msg) => reader.msg.entry = log[reached]
       /\ ~ isCommand(reader.msg) => reader.msg.data = SubSeq(log, 1, reached)

\* The state machine, and the result the reader is about to pass on
AppliedInv ==
  /\ AppliedIsCommitted
  /\ reader.pc \in {"applied", "sending"} =>
       /\ reader.msg \in Message /\ isCommand(reader.msg)
       /\ applied # <<>> /\ reader.msg.entry = log[Len(applied)]
       /\ \/ reader.res = [id |-> reader.msg.entry.cmd, val |-> applied]
          \/ reader.pc = "sending" /\ reader.res = failure

inSubmit(c) == call[c].pc \in {"waiting", "timedOut", "leaving"}

\* Whoever is in pending is in Submit and was given that index; the reader
\* sends to nobody else.
PendingInv ==
  /\ \A c \in Calls : call[c].pc = "idle" => call[c].index = 0
  /\ \A c \in Calls :
       inSubmit(c) \/ call[c].answer \notin {Nil, ErrWrongLeader}
         => call[c].index \in Index
  /\ \A n \in Index : pending[n] # Nil =>
       inSubmit(pending[n]) /\ call[pending[n]].index = n
  /\ reader.pc = "sending" => pending[reader.msg.entry.index] # Nil
  /\ reader.pc = "waking" => \A n \in reader.todo : pending[n] # Nil

\* Whoever waits can be woken, and will be once its index is applied.
WaitInv ==
  /\ WaitingIsPending
  /\ closed # {} => reader.pc = "ended"
  /\ \A c \in Calls : waiting(c) /\ call[c].index <= rsmLastApplied =>
       \/ shared(c)
       \/ reader.pc \in {"applied", "sending", "outdating", "ended"}
       \/ reader.pc = "waking" /\ call[c].index \in reader.todo

Inv ==
  /\ TypeInv /\ LogInv /\ HandoverInv /\ AppliedInv /\ PendingInv /\ WaitInv
  /\ OwnResult

-----------------------------------------------------------------------------
(* Prefixes of logs                                                        *)

\* Sequences with the same first m elements have the same prefixes up to m.
LEMMA SamePrefix ==
  ASSUME NEW S, NEW s \in Seq(S), NEW t \in Seq(S), NEW m \in Nat,
         m <= Len(s), m <= Len(t), \A k \in 1 .. m : t[k] = s[k],
         NEW n \in 0 .. m
  PROVE  SubSeq(t, 1, n) = SubSeq(s, 1, n)
<1>1. /\ SubSeq(s, 1, n) = [k \in 1 .. n |-> s[k]]
      /\ SubSeq(t, 1, n) = [k \in 1 .. n |-> t[k]]
  OBVIOUS
<1>2. \A k \in 1 .. n : t[k] = s[k]
  OBVIOUS
<1> QED
  BY <1>1, <1>2

\* Sequences with the same elements are the same.
LEMMA SameSeq ==
  ASSUME NEW S, NEW s \in Seq(S), NEW t \in Seq(S), Len(s) = Len(t),
         \A k \in 1 .. Len(s) : s[k] = t[k]
  PROVE  s = t
OBVIOUS

\* The converse of SamePrefix
LEMMA SameElements ==
  ASSUME NEW S, NEW s \in Seq(S), NEW t \in Seq(S), NEW m \in Nat,
         m <= Len(s), m <= Len(t), SubSeq(t, 1, m) = SubSeq(s, 1, m)
  PROVE  \A k \in 1 .. m : t[k] = s[k]
<1> SUFFICES ASSUME NEW k \in 1 .. m PROVE t[k] = s[k]
  OBVIOUS
<1>1. SubSeq(s, 1, m)[k] = s[k] /\ SubSeq(t, 1, m)[k] = t[k]
  OBVIOUS
<1> QED
  BY <1>1

\* What no step does to the log: it keeps what is committed.
LogKept ==
  /\ log' \in Seq(Entry)
  /\ \A n \in 1 .. Len(log') : log'[n].index = n
  /\ commitIndex' \in Nat
  /\ commitIndex <= commitIndex' /\ commitIndex' <= Len(log')
  /\ \A n \in 1 .. commitIndex : log'[n] = log[n]

\* A step that does not touch the log keeps it.
LEMMA SameLog ==
  ASSUME TypeInv, LogInv, UNCHANGED <<log, commitIndex>>
  PROVE  LogKept
<1>1. /\ log \in Seq(Entry) /\ commitIndex \in Nat /\ commitIndex <= Len(log)
      /\ \A n \in 1 .. Len(log) : log[n].index = n
  BY Zenon DEF TypeInv, LogInv
<1>2. commitIndex <= commitIndex
  BY <1>1
<1> QED
  BY <1>1, <1>2, Zenon DEF LogKept

\* The logs another leader may give this node have entries in place.
LEMMA LogsOf ==
  ASSUME TypeInv, NEW t \in 0 .. MaxTerm, NEW l \in logsOf(t)
  PROVE  l \in Seq(Entry) /\ \A n \in 1 .. Len(l) : l[n].index = n
<1> DEFINE started == {entry(call[c].index, call[c].term, c) :
                         c \in {d \in Calls : call[d].index > 0}}
           known == Range(log) \cup started \cup {entry(n, t, Other) : n \in Index}
<1>1. Range(log) \subseteq Entry
  BY DEF TypeInv, Range
<1>2. started \subseteq Entry
  BY CallAssumption DEF TypeInv, Call, entry, Entry, Index
<1>3. {entry(n, t, Other) : n \in Index} \subseteq Entry
  BY CallAssumption DEF entry, Entry, Index
<1>4. PICK m \in 0 .. MaxIndex : /\ l \in [1 .. m -> known]
                                 /\ \A n \in 1 .. m : l[n].index = n
  BY DEF logsOf
<1>5. known \subseteq Entry
  BY <1>1, <1>2, <1>3
<1>6. l \in [1 .. m -> Entry]
  BY <1>4, <1>5
<1>7. l \in Seq(Entry) /\ Len(l) = m
  BY <1>6, CallAssumption
<1> QED
  BY <1>4, <1>7

-----------------------------------------------------------------------------
(* What Raft does to its log                                               *)

\* Appending to the log keeps all of it.
LEMMA AppendKeeps ==
  ASSUME TypeInv, LogInv, NEW e \in Entry, e.index = Len(log) + 1,
         log' = Append(log, e), commitIndex' = commitIndex
  PROVE  LogKept
<1>1. log' \in Seq(Entry) /\ Len(log') = Len(log) + 1
  BY DEF TypeInv
<1>2. \A n \in 1 .. Len(log) : log'[n] = log[n]
  BY DEF TypeInv
<1>3. log'[Len(log) + 1] = e
  BY DEF TypeInv
<1>4. ASSUME NEW n \in 1 .. Len(log') PROVE log'[n].index = n
  <2>1. CASE n = Len(log) + 1
    BY <1>3, <2>1
  <2>2. CASE n \in 1 .. Len(log)
    BY <1>2, <2>2 DEF LogInv
  <2> QED
    BY <1>1, <2>1, <2>2 DEF TypeInv
<1> QED
  BY <1>1, <1>2, <1>4 DEF LogKept, TypeInv, LogInv

\* A node that follows another leader keeps what it knows to be committed.
LEMMA FollowingKeeps ==
  ASSUME TypeInv, LogInv, Raft!Following,
         term' \in 0 .. MaxTerm, log' \in logsOf(term')
  PROVE  LogKept
<1>1. log' \in Seq(Entry) /\ \A n \in 1 .. Len(log') : log'[n].index = n
  BY LogsOf
<1>2. /\ commitIndex' \in commitIndex .. Len(log')
      /\ SubSeq(log', 1, commitIndex) = SubSeq(log, 1, commitIndex)
  BY Zenon DEF Raft!Following, Raft!prefix
<1>3. \A n \in 1 .. commitIndex : log'[n] = log[n]
  <2> commitIndex <= Len(log) /\ commitIndex <= Len(log')
    BY <1>1, <1>2 DEF TypeInv, LogInv
  <2> QED
    BY <1>1, <1>2, SameElements DEF TypeInv
<1> QED
  BY <1>1, <1>2, <1>3 DEF LogKept, TypeInv

\* What the other nodes do leaves log and state as the service needs them.
LEMMA RaftStepKeeps ==
  ASSUME TypeInv, LogInv, RaftStep
  PROVE  /\ LogKept
         /\ term' \in 0 .. MaxTerm /\ role' \in {"Follower", "Candidate", "Leader"}
         /\ lastIncludedIndex' \in Nat /\ lastIncludedIndex' <= commitIndex'
         /\ UNCHANGED <<lastApplied, applyCh, rsmVars, call, closed, reader>>
<1> USE CallAssumption
<1>0. /\ term \in 0 .. MaxTerm /\ lastIncludedIndex \in Nat
      /\ lastIncludedIndex <= commitIndex
  BY Zenon DEF TypeInv, LogInv
<1>1. CASE NewTerm
  <2>1. /\ term' \in term + 1 .. MaxTerm /\ role' = "Follower"
        /\ UNCHANGED <<log, commitIndex, lastIncludedIndex, lastApplied, applyCh>>
        /\ UNCHANGED <<rsmVars, call, closed, reader>>
    BY <1>1, Zenon DEF NewTerm, Raft!NewTerm, others
  <2>2. term' \in 0 .. MaxTerm
    BY <1>0, <2>1
  <2> QED
    BY <1>0, <2>1, <2>2, SameLog, Zenon
<1>2. CASE StartElection
  <2>1. /\ term < MaxTerm /\ term' = term + 1 /\ role' = "Candidate"
        /\ UNCHANGED <<log, commitIndex, lastIncludedIndex, lastApplied, applyCh>>
        /\ UNCHANGED <<rsmVars, call, closed, reader>>
    BY <1>2, Zenon DEF StartElection, Raft!StartElection, others
  <2>2. term' \in 0 .. MaxTerm
    BY <1>0, <2>1
  <2> QED
    BY <1>0, <2>1, <2>2, SameLog, Zenon
<1>3. CASE Win
  <2>1. /\ role' = "Leader"
        /\ UNCHANGED <<term, log, commitIndex, lastIncludedIndex, lastApplied, applyCh>>
        /\ UNCHANGED <<rsmVars, call, closed, reader>>
    BY <1>3, Zenon DEF Win, Raft!Win, others
  <2> QED
    BY <1>0, <2>1, SameLog, Zenon
<1>4. CASE Commit
  BY <1>4 DEF Commit, Raft!Commit, others, rsmVars, LogKept, TypeInv, LogInv
<1>5. CASE Follow
  <2>1. Raft!Following /\ term' \in 0 .. MaxTerm /\ log' \in logsOf(term')
    BY <1>5 DEF Follow, Raft!Follow, TypeInv
  <2>2. LogKept
    BY <2>1, FollowingKeeps
  <2> QED
    BY <1>5, <2>1, <2>2 DEF Follow, others, rsmVars, LogKept, TypeInv, LogInv
<1>6. CASE Install
  <2>1. Raft!Following /\ term' \in 0 .. MaxTerm /\ log' \in logsOf(term')
    BY <1>6 DEF Install, Raft!Install, TypeInv
  <2>2. LogKept
    BY <2>1, FollowingKeeps
  <2>3. lastIncludedIndex' \in Nat /\ lastIncludedIndex' <= commitIndex'
    BY <1>6, <2>2 DEF Install, LogKept, TypeInv, LogInv
  <2> QED
    BY <1>6, <2>1, <2>2, <2>3 DEF Install, others, rsmVars
<1> QED
  BY <1>1, <1>2, <1>3, <1>4, <1>5, <1>6 DEF RaftStep

-----------------------------------------------------------------------------
(* From the log to the state machine                                       *)

\* The prefixes of what is committed stay.
LEMMA PrefixesKept ==
  ASSUME TypeInv, LogInv, LogKept
  PROVE  \A n \in 0 .. commitIndex : SubSeq(log', 1, n) = SubSeq(log, 1, n)
BY SamePrefix DEF LogKept, LogInv, TypeInv

\* What is on its way and what is applied is committed, and so stays what it is
\* while the log changes behind it.
LEMMA DataKept ==
  ASSUME TypeInv, LogInv, HandoverInv, AppliedInv, LogKept,
         lastIncludedIndex' \in Nat, lastIncludedIndex' <= commitIndex',
         UNCHANGED <<lastApplied, applyCh, rsmLastApplied, applied, reader>>
  PROVE  LogInv' /\ HandoverInv' /\ AppliedInv'
<1>1. LogInv'
  BY DEF LogKept, LogInv, TypeInv
<1>2. \A n \in 0 .. commitIndex : SubSeq(log', 1, n) = SubSeq(log, 1, n)
  BY PrefixesKept
<1>3. reached' = reached /\ reached \in Nat
  BY DEF reached, isCommand, HandoverInv, TypeInv, Message
<1>4. HandoverInv'
  <2>1. (applyCh = <<>> => lastApplied = reached)'
    BY <1>3 DEF HandoverInv
  <2>2. ASSUME applyCh # <<>>, lastApplied = reached + Len(applyCh),
               \A k \in 1 .. Len(applyCh) :
                 isCommand(applyCh[k]) /\ applyCh[k].entry = log[reached + k]
        PROVE  (/\ lastApplied = reached + Len(applyCh)
                /\ \A k \in 1 .. Len(applyCh) :
                     /\ isCommand(applyCh[k])
                     /\ applyCh[k].entry = log[reached + k])'
    <3> SUFFICES ASSUME NEW k \in 1 .. Len(applyCh)
                 PROVE  log'[reached + k] = log[reached + k]
      BY <1>3, <2>2, Zenon DEF isCommand
    <3> reached + k \in 1 .. commitIndex
      BY <1>3, <2>2 DEF LogInv, TypeInv
    <3> QED
      BY DEF LogKept
  <2>3. ASSUME Len(applyCh) = 1, ~ isCommand(applyCh[1]),
               applyCh[1].index = lastApplied, lastApplied > reached,
               applyCh[1].data = SubSeq(log, 1, lastApplied)
        PROVE  (/\ Len(applyCh) = 1
                /\ ~ isCommand(applyCh[1])
                /\ applyCh[1].index = lastApplied /\ lastApplied > reached
                /\ applyCh[1].data = SubSeq(log, 1, lastApplied))'
    <3> lastApplied \in 0 .. commitIndex
      BY DEF LogInv, TypeInv
    <3> QED
      BY <1>2, <1>3, <2>3 DEF isCommand
  <2>4. ASSUME reader.pc = "received"
        PROVE  (/\ reader.msg \in Message
                /\ reached <= commitIndex /\ reached > Len(applied)
                /\ isCommand(reader.msg) => reader.msg.entry = log[reached]
                /\ ~ isCommand(reader.msg) =>
                     reader.msg.data = SubSeq(log, 1, reached))'
    <3> reached \in 1 .. commitIndex
      BY <1>3, <2>4 DEF HandoverInv, LogInv, TypeInv
    <3>1. log'[reached] = log[reached] /\ SubSeq(log', 1, reached) = SubSeq(log, 1, reached)
      BY <1>2 DEF LogKept
    <3>2. reached' <= commitIndex'
      BY <1>3 DEF LogKept, TypeInv
    <3> QED
      BY <1>3, <2>4, <3>1, <3>2 DEF HandoverInv, isCommand
  <2> QED
    BY <2>1, <2>2, <2>3, <2>4 DEF HandoverInv
<1>5. AppliedInv'
  <2> Len(applied) \in Nat /\ commitIndex \in Nat
    BY DEF TypeInv
  <2>1. Len(applied) \in 0 .. commitIndex
    BY DEF AppliedInv, AppliedIsCommitted
  <2>2. SubSeq(log', 1, Len(applied)) = SubSeq(log, 1, Len(applied))
    BY <1>2, <2>1
  <2>3. AppliedIsCommitted'
    <3> commitIndex' \in Nat /\ commitIndex <= commitIndex'
      BY DEF LogKept
    <3> QED
      BY <2>1, <2>2 DEF AppliedInv, AppliedIsCommitted
  <2>4. applied # <<>> => log'[Len(applied)] = log[Len(applied)]
    BY <2>1 DEF LogKept, TypeInv
  <2> QED
    BY <2>3, <2>4 DEF AppliedInv, isCommand, failure
<1> QED
  BY <1>1, <1>4, <1>5

\* The answers given stay right while the log changes behind them.
LEMMA OwnResultKept ==
  ASSUME TypeInv, LogInv, PendingInv, OwnResult, LogKept,
         \A c \in Calls :
           \/ call'[c].answer \in {Nil, ErrWrongLeader}
           \/ call'[c].answer = call[c].answer /\ call'[c].index = call[c].index
  PROVE  OwnResult'
<1> SUFFICES ASSUME NEW c \in Calls, call'[c].answer \notin {Nil, ErrWrongLeader}
             PROVE  /\ call'[c].index <= commitIndex'
                    /\ log'[call'[c].index].cmd = c
                    /\ call'[c].answer.val = SubSeq(log', 1, call'[c].index)
  BY DEF OwnResult
<1>1. call'[c].answer = call[c].answer /\ call'[c].index = call[c].index
  OBVIOUS
<1>2. /\ call[c].index <= commitIndex
      /\ log[call[c].index].cmd = c
      /\ call[c].answer.val = SubSeq(log, 1, call[c].index)
  BY <1>1, Zenon DEF OwnResult
<1>3. PICK n : n = call[c].index
  BY Zenon
<1>4. commitIndex \in Nat /\ commitIndex' \in Nat /\ commitIndex <= commitIndex'
  BY Zenon DEF LogKept, TypeInv
<1>5. n \in 1 .. commitIndex /\ n \in 0 .. commitIndex /\ n <= commitIndex'
  <2>1. n \in Index
    BY <1>1, <1>3, Zenon DEF PendingInv
  <2>2. n <= commitIndex
    BY <1>2, <1>3, Zenon
  <2> QED
    BY <1>4, <2>1, <2>2 DEF Index
<1>6. SubSeq(log', 1, n) = SubSeq(log, 1, n)
  BY <1>5, PrefixesKept, Zenon
<1>7. log'[n] = log[n]
  BY <1>5, Zenon DEF LogKept
<1> QED
  BY <1>1, <1>2, <1>3, <1>5, <1>6, <1>7, Zenon

-----------------------------------------------------------------------------
(* The invariant                                                           *)

\* A server that has just started, with or without a snapshot
LEMMA InitInv == Init => Inv
<1> SUFFICES ASSUME Init PROVE Inv
  OBVIOUS
<1> USE CallAssumption
<1>1. log \in Seq(Entry) /\ \A n \in 1 .. Len(log) : log[n].index = n
  <2>1. CASE log = <<>>
    BY <2>1
  <2>2. CASE log = <<entry(1, 0, Other)>>
    BY <2>2 DEF entry, Entry, Index
  <2> QED
    BY <2>1, <2>2 DEF Init
<1>2. \A c \in Calls : call[c] = Idle
  BY DEF Init
<1>3. TypeInv
  <2>1. call \in [Calls -> Call]
    BY DEF Init, Idle, Call, Answer
  <2>2. reader \in Reader
    BY DEF Init, Ready, Reader
  <2>3. Len(log) \in Nat
    BY <1>1
  <2> QED
    BY <1>1, <2>1, <2>2, <2>3 DEF Init, Raft!Init, TypeInv, Ready
<1>4. LogInv
  BY <1>1 DEF Init, Raft!Init, LogInv
<1>5. HandoverInv
  BY DEF Init, Raft!Init, HandoverInv, reached, Ready
<1>6. AppliedInv
  <2> SubSeq(log, 1, Len(log)) = log /\ Len(log) \in Nat
    BY <1>1
  <2> QED
    BY DEF Init, AppliedInv, AppliedIsCommitted, Ready
<1>7. PendingInv
  BY <1>2 DEF Init, PendingInv, Idle, inSubmit, Ready
<1>8. WaitInv
  BY <1>2, Zenon DEF Init, WaitInv, WaitingIsPending, waiting, Idle
<1>9. OwnResult
  BY <1>2 DEF OwnResult, Idle
<1> QED
  BY <1>3, <1>4, <1>5, <1>6, <1>7, <1>8, <1>9 DEF Inv

\* Steps that leave the calls and the reader alone
LEMMA QuietInv ==
  ASSUME Inv, LogKept,
         term' \in 0 .. MaxTerm, role' \in {"Follower", "Candidate", "Leader"},
         lastIncludedIndex' \in Nat, lastIncludedIndex' <= commitIndex',
         UNCHANGED <<lastApplied, applyCh, rsmVars, call, closed, reader>>
  PROVE  Inv'
<1>1. TypeInv'
  BY DEF Inv, TypeInv, LogKept, rsmVars
<1>2. LogInv' /\ HandoverInv' /\ AppliedInv'
  BY DataKept DEF Inv, rsmVars
<1>3. PendingInv'
  BY DEF Inv, PendingInv, inSubmit, rsmVars
<1>4. WaitInv'
  BY DEF Inv, WaitInv, WaitingIsPending, waiting, shared, rsmVars
<1>5. OwnResult'
  BY OwnResultKept DEF Inv
<1> QED
  BY <1>1, <1>2, <1>3, <1>4, <1>5 DEF Inv

-----------------------------------------------------------------------------
(* The steps of a call                                                     *)

\* What a step that moves a call on does to the calls
LEMMA CallMoves ==
  ASSUME call \in [Calls -> Call], NEW c \in Calls,
         NEW p \in {"idle", "waiting", "timedOut", "leaving", "returned"},
         NEW a \in Answer,
         call' = [call EXCEPT ![c].pc = p, ![c].answer = a]
  PROVE  /\ call' \in [Calls -> Call]
         /\ call'[c].pc = p /\ call'[c].answer = a
         /\ call'[c].index = call[c].index
         /\ \A d \in Calls \ {c} : call'[d] = call[d]
<1>1. call' = [call EXCEPT ![c] = [call[c] EXCEPT !.pc = p, !.answer = a]]
  BY Zenon
<1> DEFINE moved == [call[c] EXCEPT !.pc = p, !.answer = a]
<1>2. /\ moved \in Call
      /\ moved.pc = p /\ moved.answer = a /\ moved.index = call[c].index
  <2> call[c] \in Call
    OBVIOUS
  <2> QED
    BY Zenon DEF Call
<1> HIDE DEF moved
<1>3. call' = [call EXCEPT ![c] = moved]
  BY Zenon, <1>1 DEF moved
<1>4. /\ call' \in [Calls -> Call] /\ call'[c] = moved
      /\ \A d \in Calls \ {c} : call'[d] = call[d]
  BY <1>2, <1>3, Zenon
<1> QED
  BY <1>2, <1>4, Zenon

\* Start and the registration in pending are one step: no index is applied
\* between the two.
LEMMA SubmitInv ==
  ASSUME Inv, NEW c \in Calls, Submit(c)
  PROVE  Inv'
<1> USE CallAssumption
<1> DEFINE index == Len(log) + 1
<1>a. TypeInv /\ LogInv /\ PendingInv /\ WaitInv
  BY DEF Inv
<1>b. call[c].pc = "idle" /\ mu = Nil
  BY DEF Submit
<1>1. CASE ~ isLeader /\ UNCHANGED <<raftVars, pending>>
           /\ call' = [call EXCEPT ![c].pc = "returned",
                                   ![c].answer = ErrWrongLeader]
  <2>1. LogKept
    BY <1>a, <1>1, SameLog DEF raftVars
  <2>2. /\ call' \in [Calls -> Call]
        /\ call'[c].pc = "returned" /\ call'[c].answer = ErrWrongLeader
        /\ call'[c].index = call[c].index
        /\ \A d \in Calls \ {c} : call'[d] = call[d]
    BY <1>a, <1>1, CallMoves, Zenon DEF TypeInv, Answer
  <2>a. UNCHANGED <<term, role, log, commitIndex, lastIncludedIndex,
                    lastApplied, applyCh, mu, rsmLastApplied, applied, pending,
                    closed, reader>>
    BY <1>1, Zenon DEF Submit, raftVars
  <2>3. TypeInv'
    BY <1>a, <2>2, <2>a, Zenon DEF TypeInv
  <2>4. LogInv' /\ HandoverInv' /\ AppliedInv'
    <3> lastIncludedIndex' \in Nat /\ lastIncludedIndex' <= commitIndex'
      BY <1>a, <2>a, Zenon DEF TypeInv, LogInv
    <3> QED
      BY <2>1, <2>a, DataKept, Zenon DEF Inv
  <2>5. PendingInv'
    <3>1. \A n \in Index : pending[n] # c
      BY <1>a, <1>b DEF PendingInv, inSubmit
    <3>2. UNCHANGED <<pending, reader>>
      BY <1>1 DEF Submit
    <3>3. \A d \in Calls : inSubmit(d)' => inSubmit(d)
      BY <2>2 DEF inSubmit
    <3>4. \A n \in Index : pending[n] # Nil =>
             call'[pending[n]] = call[pending[n]]
      BY <1>a, <2>2, <3>1 DEF TypeInv
    <3> QED
      BY <1>a, <2>2, <3>2, <3>3, <3>4 DEF PendingInv, inSubmit
  <2>6. WaitInv'
    <3>1. \A d \in Calls : call'[d].index = call[d].index
                          /\ (waiting(d)' => waiting(d))
      BY <2>2, Zenon DEF waiting
    <3>2. \A d \in Calls : shared(d)' <=> shared(d)
      BY <3>1, Zenon DEF shared
    <3> QED
      BY <1>a, <2>a, <3>1, <3>2, Zenon DEF WaitInv, WaitingIsPending
  <2>7. OwnResult'
    BY <2>1, <2>2, OwnResultKept DEF Inv
  <2> QED
    BY <2>3, <2>4, <2>5, <2>6, <2>7 DEF Inv
<1>2. CASE /\ index <= MaxIndex
           /\ Raft!Start(entry(index, term, c))
           /\ pending' = [pending EXCEPT ![index] = c]
           /\ call' = [call EXCEPT ![c] = [pc |-> "waiting", index |-> index,
                                           term |-> term, answer |-> Nil]]
  <2>0. index \in Index /\ entry(index, term, c) \in Entry
    BY <1>a, <1>2 DEF TypeInv, Index, entry, Entry
  <2>1. LogKept
    BY <1>a, <1>2, <2>0, AppendKeeps DEF Raft!Start, entry
  <2>2. /\ call' \in [Calls -> Call]
        /\ call'[c].pc = "waiting" /\ call'[c].answer = Nil
        /\ call'[c].index = index
        /\ \A d \in Calls \ {c} : call'[d] = call[d]
    <3> DEFINE started == [pc |-> "waiting", index |-> index, term |-> term,
                           answer |-> Nil]
    <3>1. /\ started \in Call /\ started.pc = "waiting"
          /\ started.answer = Nil /\ started.index = index
      BY <1>a, <2>0 DEF TypeInv, Call, Answer, Index
    <3>2. call' = [call EXCEPT ![c] = started] /\ call \in [Calls -> Call]
      BY <1>a, <1>2, Zenon DEF TypeInv
    <3> HIDE DEF started
    <3>3. /\ call' \in [Calls -> Call] /\ call'[c] = started
          /\ \A d \in Calls \ {c} : call'[d] = call[d]
      BY <3>1, <3>2, Zenon
    <3> QED
      BY <3>1, <3>3, Zenon
  <2>3. /\ pending' \in [Index -> Calls \cup {Nil}]
        /\ pending'[index] = c
        /\ \A n \in Index \ {index} : pending'[n] = pending[n]
    BY <1>a, <1>2, <2>0 DEF TypeInv
  <2>4. TypeInv'
    <3>1. UNCHANGED <<term, role, commitIndex, lastIncludedIndex, lastApplied,
                      applyCh, mu, rsmLastApplied, applied, closed, reader>>
      BY <1>2, Zenon DEF Submit, Raft!Start
    <3>2. log' \in Seq(Entry)
      BY <2>1, Zenon DEF LogKept
    <3> QED
      BY <1>a, <2>2, <2>3, <3>1, <3>2, Zenon DEF TypeInv
  <2>5. LogInv' /\ HandoverInv' /\ AppliedInv'
    BY Zenon, <1>2, <2>1, DataKept DEF Inv, Submit, Raft!Start, TypeInv, LogInv
  <2>6. PendingInv'
    <3>1. \A n \in Index : pending[n] # c
      BY <1>a, <1>b DEF PendingInv, inSubmit
    <3>2. reader.pc \notin {"sending", "waking"}
      BY <1>a, <1>b DEF TypeInv
    <3>3. reader' = reader
      BY DEF Submit
    <3>4. ASSUME NEW n \in Index, pending'[n] # Nil
          PROVE  inSubmit(pending[n])' /\ call'[pending'[n]].index = n
      <4>1. CASE n = index
        BY <2>2, <2>3, <4>1, Zenon DEF inSubmit
      <4>2. CASE n # index
        <5> pending'[n] = pending[n] /\ pending[n] \in Calls \ {c}
          BY <1>a, <2>3, <3>1, <3>4, <4>2, Zenon DEF TypeInv
        <5> QED
          BY <1>a, <2>2 DEF PendingInv, inSubmit
      <4> QED
        BY <4>1, <4>2
    <3>5. ASSUME NEW d \in Calls
          PROVE  /\ call'[d].pc = "idle" => call'[d].index = 0
                 /\ inSubmit(d)' \/ call'[d].answer \notin {Nil, ErrWrongLeader}
                      => call'[d].index \in Index
      BY <1>a, <2>0, <2>2 DEF PendingInv, inSubmit
    <3> QED
      BY <3>2, <3>3, <3>4, <3>5 DEF PendingInv, inSubmit
  <2>7. WaitInv'
    <3>1. ASSUME NEW d \in Calls \ {c}, waiting(d), shared(d)
          PROVE  shared(d)'
      <4> call[d].index # 0 /\ call[c].index = 0
        BY <1>a, <1>b, <3>1 DEF PendingInv, inSubmit, waiting, Index
      <4> QED
        BY <2>2, <3>1 DEF shared
    <3>2. WaitingIsPending'
      <4> SUFFICES ASSUME NEW d \in Calls, waiting(d)'
                   PROVE  (pending[call[d].index] = d \/ d \in closed \/ shared(d))'
        BY DEF WaitingIsPending
      <4>1. CASE d = c
        BY <2>2, <2>3, <4>1
      <4>2. CASE d # c /\ call[d].index = index
        BY <2>2, <4>2 DEF shared
      <4>3. CASE d # c /\ call[d].index # index
        <5>1. waiting(d) /\ call[d].index \in Index
          BY <1>a, <2>2, <4>3, Zenon DEF waiting, PendingInv, inSubmit
        <5>2. pending[call[d].index] = d \/ d \in closed \/ shared(d)
          BY <1>a, <5>1 DEF WaitInv, WaitingIsPending
        <5> QED
          BY <2>2, <2>3, <3>1, <4>3, <5>1, <5>2 DEF Submit
      <4> QED
        BY <4>1, <4>2, <4>3
    <3>3. rsmLastApplied < index /\ UNCHANGED <<rsmLastApplied, reader, closed>>
      <4>1. /\ log \in Seq(Entry) /\ applied \in Seq(Entry)
            /\ commitIndex \in Nat /\ rsmLastApplied \in Nat
            /\ Len(applied) <= commitIndex /\ commitIndex <= Len(log)
            /\ rsmLastApplied # 0 => rsmLastApplied = Len(applied)
        BY Zenon DEF Inv, TypeInv, LogInv, AppliedInv, AppliedIsCommitted
      <4>2. rsmLastApplied < index
        BY <4>1
      <4> QED
        BY <4>2, Zenon DEF Submit
    <3>4. \A d \in Calls : (waiting(d) /\ call[d].index <= rsmLastApplied)' =>
              d # c /\ waiting(d) /\ call[d].index <= rsmLastApplied
      BY <1>a, <2>2, <3>3 DEF waiting, TypeInv
    <3> QED
      BY <1>a, <2>2, <3>1, <3>2, <3>3, <3>4 DEF WaitInv
  <2>8. OwnResult'
    BY <2>1, <2>2, OwnResultKept, Zenon DEF Inv
  <2> QED
    BY <2>4, <2>5, <2>6, <2>7, <2>8 DEF Inv
<1> QED
  BY <1>1, <1>2 DEF Submit

\* A call that leaves its select takes nobody's place and stays in pending.
LEMMA LeaveInv ==
  ASSUME Inv, NEW c \in Calls, call[c].pc \in {"waiting", "timedOut"},
         call' \in [Calls -> Call], call'[c].pc \in {"timedOut", "leaving"},
         call'[c].index = call[c].index,
         call'[c].answer \in {call[c].answer, ErrWrongLeader},
         \A d \in Calls \ {c} : call'[d] = call[d],
         UNCHANGED <<raftVars, applierVars, rsmVars, closed, reader>>
  PROVE  Inv'
<1>a. TypeInv /\ LogInv /\ PendingInv /\ WaitInv
  BY DEF Inv
<1>1. LogKept
  BY <1>a, SameLog, Zenon DEF raftVars
<1>2. TypeInv'
  BY <1>a, Zenon DEF TypeInv, raftVars, rsmVars
<1>3. LogInv' /\ HandoverInv' /\ AppliedInv'
  BY <1>1, DataKept DEF Inv, raftVars, rsmVars, TypeInv, LogInv
<1>4. \A d \in Calls : /\ inSubmit(d)' <=> inSubmit(d)
                       /\ call'[d].index = call[d].index
                       /\ waiting(d)' => waiting(d)
                       /\ call'[d].pc = "idle" => call[d].pc = "idle"
                       /\ call'[d].answer \in {call[d].answer, ErrWrongLeader}
  BY Zenon DEF inSubmit, waiting
<1>5. PendingInv'
  <2> UNCHANGED <<pending, reader>>
    BY Zenon DEF rsmVars
  <2> QED
    BY <1>a, <1>4, Zenon DEF PendingInv, TypeInv
<1>6. WaitInv'
  <2>1. \A d \in Calls : shared(d) => shared(d)'
    BY <1>4, Zenon DEF shared, rsmVars
  <2>2. UNCHANGED <<pending, reader, closed, rsmLastApplied>>
    BY Zenon DEF rsmVars
  <2> QED
    BY <1>a, <1>4, <2>1, <2>2, Zenon DEF WaitInv, WaitingIsPending
<1>7. OwnResult'
  BY <1>1, <1>4, OwnResultKept DEF Inv
<1> QED
  BY <1>2, <1>3, <1>5, <1>6, <1>7 DEF Inv

\* The timer that wins the select leaves the call in pending.
LEMMA SubmitTimeoutInv ==
  ASSUME Inv, NEW c \in Calls, SubmitTimeout(c)
  PROVE  Inv'
<1>1. call \in [Calls -> Call] /\ call[c] \in Call
  BY DEF Inv, TypeInv
<1>2. /\ call' \in [Calls -> Call] /\ call'[c].pc = "timedOut"
      /\ call'[c].index = call[c].index /\ call'[c].answer = call[c].answer
      /\ \A d \in Calls \ {c} : call'[d] = call[d]
  BY <1>1 DEF SubmitTimeout, Step, Call
<1> QED
  BY <1>2, LeaveInv DEF SubmitTimeout, Step

\* So do the lock of a timed-out call and a receive from a closed channel.
LEMMA DumpPendingInv ==
  ASSUME Inv, NEW c \in Calls, dumpPending(c) \/ ReceiveClosed(c)
  PROVE  Inv'
<1>1. call' = [call EXCEPT ![c].pc = "leaving", ![c].answer = ErrWrongLeader]
  BY DEF dumpPending, ReceiveClosed
<1>2. /\ call' \in [Calls -> Call]
      /\ call'[c].pc = "leaving" /\ call'[c].answer = ErrWrongLeader
      /\ call'[c].index = call[c].index
      /\ \A d \in Calls \ {c} : call'[d] = call[d]
  BY <1>1, CallMoves, Zenon DEF Inv, TypeInv, Answer
<1>3. /\ call[c].pc \in {"waiting", "timedOut"}
      /\ UNCHANGED <<raftVars, applierVars, rsmVars, closed, reader>>
  BY DEF dumpPending, ReceiveClosed, waiting
<1> QED
  BY <1>2, <1>3, LeaveInv

\* The deferred delete may remove the entry of another call, which then shares
\* the index.
LEMMA ReturnInv ==
  ASSUME Inv, NEW c \in Calls, Return(c)
  PROVE  Inv'
<1> USE CallAssumption
<1>a. TypeInv /\ LogInv /\ PendingInv /\ WaitInv
  BY DEF Inv
<1>b. /\ mu = Nil /\ call[c].pc = "leaving"
      /\ UNCHANGED <<raftVars, applierVars, mu, rsmLastApplied, applied, closed,
                     reader>>
  BY DEF Return, Step
<1>1. /\ call' \in [Calls -> Call] /\ call'[c].pc = "returned"
      /\ call'[c].index = call[c].index /\ call'[c].answer = call[c].answer
      /\ \A d \in Calls \ {c} : call'[d] = call[d]
  <2> call \in [Calls -> Call] /\ call[c] \in Call
    BY <1>a DEF TypeInv
  <2> QED
    BY DEF Return, Step, Call
<1>2. call[c].index \in Index
  BY <1>a, <1>b DEF PendingInv, inSubmit
<1>3. /\ pending' \in [Index -> Calls \cup {Nil}]
      /\ pending'[call[c].index] = Nil
      /\ \A n \in Index \ {call[c].index} : pending'[n] = pending[n]
  BY <1>a, <1>2 DEF Return, pendingWithout, TypeInv
<1>4. LogKept
  BY <1>a, <1>b, SameLog DEF raftVars
<1>5. TypeInv'
  BY <1>a, <1>b, <1>1, <1>3, Zenon DEF TypeInv, raftVars
<1>6. LogInv' /\ HandoverInv' /\ AppliedInv'
  BY <1>b, <1>4, DataKept, Zenon DEF Inv, raftVars, TypeInv, LogInv
<1>7. PendingInv'
  <2>1. reader.pc \notin {"sending", "waking"}
    BY <1>a, <1>b, Zenon DEF TypeInv
  <2>2. ASSUME NEW n \in Index, pending'[n] # Nil
        PROVE  inSubmit(pending[n])' /\ call'[pending'[n]].index = n
    <3>1. n # call[c].index /\ pending'[n] = pending[n]
      BY <1>3, <2>2, Zenon
    <3>2. inSubmit(pending[n]) /\ call[pending[n]].index = n
      BY <1>a, <2>2, <3>1 DEF PendingInv
    <3>3. pending[n] \in Calls \ {c}
      BY <1>a, <2>2, <3>1, <3>2, Zenon DEF TypeInv
    <3> QED
      BY <1>1, <3>1, <3>2, <3>3, Zenon DEF inSubmit
  <2>3. ASSUME NEW d \in Calls
        PROVE  /\ call'[d].pc = "idle" => call'[d].index = 0
               /\ inSubmit(d)' \/ call'[d].answer \notin {Nil, ErrWrongLeader}
                    => call'[d].index \in Index
    BY <1>a, <1>1, <1>2 DEF PendingInv, inSubmit
  <2> QED
    BY <1>b, <2>1, <2>2, <2>3 DEF PendingInv, inSubmit
<1>8. WaitInv'
  <2>1. \A d \in Calls : shared(d) => shared(d)'
    BY <1>1 DEF shared
  <2>2. \A d \in Calls : waiting(d)' =>
           d # c /\ waiting(d) /\ call'[d].index = call[d].index
    BY <1>1 DEF waiting
  <2>3. ASSUME NEW d \in Calls, waiting(d)'
        PROVE  (pending[call[d].index] = d \/ d \in closed \/ shared(d))'
    <3>1. call[d].index \in Index
      BY <1>a, <2>2, <2>3 DEF PendingInv, inSubmit, waiting
    <3>2. pending[call[d].index] = d \/ d \in closed \/ shared(d)
      BY <1>a, <2>2, <2>3 DEF WaitInv, WaitingIsPending
    <3>3. CASE call[d].index = call[c].index
      BY <1>1, <2>2, <2>3, <3>3, Zenon DEF shared
    <3>4. CASE call[d].index # call[c].index
      BY <1>b, <1>3, <2>1, <2>2, <2>3, <3>1, <3>2, <3>4
    <3> QED
      BY <3>3, <3>4
  <2> QED
    BY <1>a, <1>b, <2>1, <2>2, <2>3 DEF WaitInv, WaitingIsPending
<1>9. OwnResult'
  BY <1>1, <1>4, OwnResultKept DEF Inv
<1> QED
  BY <1>5, <1>6, <1>7, <1>8, <1>9 DEF Inv

-----------------------------------------------------------------------------
(* The steps of applier and reader                                         *)

\* What the applier takes continues what the reader has got.
LEMMA ApplierTakeInv ==
  ASSUME Inv, applierTake
  PROVE  Inv'
<1>a. TypeInv /\ LogInv /\ HandoverInv /\ AppliedInv
  BY Zenon DEF Inv
<1>b. /\ applyCh = <<>> /\ lastApplied < commitIndex
      /\ UNCHANGED <<term, role, log, commitIndex, lastIncludedIndex, rsmVars,
                     call, closed, reader>>
  BY Zenon DEF applierTake, Raft!applier
<1>c. reached = lastApplied /\ reached' = reached
  BY <1>a, <1>b DEF HandoverInv, reached, isCommand, rsmVars
<1>d. AppliedInv' /\ PendingInv' /\ WaitInv' /\ OwnResult'
  <2>1. AppliedInv'
    BY <1>a, <1>b, Zenon DEF AppliedInv, AppliedIsCommitted, isCommand, failure, rsmVars
  <2>2. PendingInv'
    BY <1>b, Zenon DEF Inv, PendingInv, inSubmit, rsmVars
  <2>3. WaitInv'
    BY <1>b, Zenon DEF Inv, WaitInv, WaitingIsPending, waiting, shared, rsmVars
  <2>4. OwnResult'
    BY <1>b, Zenon DEF Inv, OwnResult
  <2> QED
    BY <2>1, <2>2, <2>3, <2>4
<1>1. CASE lastApplied < lastIncludedIndex
  <2> DEFINE msg == [type |-> "Snapshot", index |-> lastIncludedIndex,
                     data |-> SubSeq(log, 1, lastIncludedIndex)]
  <2>1. lastApplied' = lastIncludedIndex /\ applyCh' = <<msg>>
    BY <1>1, Zenon DEF applierTake, Raft!applier, Raft!prefix
  <2>2. SubSeq(log, 1, lastIncludedIndex) \in Seq(Entry)
    BY <1>a DEF TypeInv, LogInv
  <2>3. msg \in Message
    BY <1>a, <2>2 DEF Message, TypeInv
  <2>4. /\ applyCh' \in Seq(Message) /\ applyCh' # <<>> /\ Len(applyCh') = 1
        /\ applyCh'[1] = msg
    BY <2>1, <2>3
  <2>5. lastApplied' \in Nat /\ lastApplied' <= commitIndex'
    BY <1>a, <1>b, <2>1, Zenon DEF TypeInv, LogInv
  <2>6. HandoverInv'
    <3> ~ isCommand(msg) /\ msg.index = lastIncludedIndex
        /\ msg.data = SubSeq(log, 1, lastIncludedIndex)
      BY Zenon DEF isCommand
    <3> QED
      BY <1>a, <1>b, <1>c, <1>1, <2>1, <2>4 DEF HandoverInv, isCommand, rsmVars
  <2>7. TypeInv' /\ LogInv'
    BY <1>a, <1>b, <2>4, <2>5, Zenon DEF TypeInv, LogInv, rsmVars
  <2> QED
    BY <1>d, <2>6, <2>7 DEF Inv
<1>2. CASE ~ (lastApplied < lastIncludedIndex)
  <2> DEFINE count == commitIndex - lastApplied
             msg(k) == [type |-> "Command", entry |-> log[lastApplied + k]]
  <2>1. lastApplied' = commitIndex /\ applyCh' = [k \in 1 .. count |-> msg(k)]
    BY <1>2, Zenon DEF applierTake, Raft!applier
  <2>2. count \in Nat /\ count >= 1
    BY <1>a, <1>b DEF TypeInv
  <2>3. \A k \in 1 .. count : msg(k) \in Message
    <3> SUFFICES ASSUME NEW k \in 1 .. count PROVE log[lastApplied + k] \in Entry
      BY DEF Message
    <3> lastApplied + k \in 1 .. Len(log)
      BY <1>a, <1>b, <2>2 DEF TypeInv, LogInv
    <3> QED
      BY <1>a DEF TypeInv
  <2>4. applyCh' \in Seq(Message) /\ Len(applyCh') = count /\ applyCh' # <<>>
    BY <2>1, <2>2, <2>3
  <2>5. lastApplied' \in Nat /\ lastApplied' <= commitIndex'
    BY <1>a, <1>b, <2>1 DEF TypeInv
  <2>6. HandoverInv'
    <3>1. \A k \in 1 .. Len(applyCh') :
            /\ isCommand(applyCh'[k])
            /\ applyCh'[k].entry = log'[reached' + k]
      BY Zenon, <1>b, <1>c, <2>1, <2>4 DEF isCommand
    <3>2. lastApplied' = reached' + Len(applyCh')
      BY <1>a, <1>c, <2>1, <2>4 DEF TypeInv
    <3> QED
      BY <1>a, <1>b, <1>c, <2>4, <3>1, <3>2 DEF HandoverInv, isCommand, rsmVars
  <2>7. TypeInv' /\ LogInv'
    BY <1>a, <1>b, <2>4, <2>5 DEF TypeInv, LogInv, rsmVars
  <2> QED
    BY <1>d, <2>6, <2>7 DEF Inv
<1> QED
  BY <1>1, <1>2

\* The reader takes the first message; what is left continues it.
LEMMA ReceiveMsgInv ==
  ASSUME Inv, ReceiveMsg
  PROVE  Inv'
<1> USE CallAssumption
<1>a. TypeInv /\ LogInv /\ HandoverInv /\ AppliedInv /\ PendingInv /\ WaitInv
  BY DEF Inv
<1>b. /\ reader.pc = "ready" /\ applyCh # <<>> /\ applyCh' = Tail(applyCh)
      /\ UNCHANGED <<term, role, log, commitIndex, lastIncludedIndex,
                     lastApplied, rsmVars, call, closed>>
  BY DEF ReceiveMsg, Raft!Receive
<1> DEFINE msg == Head(applyCh)
<1>c. /\ msg \in Message /\ msg = applyCh[1] /\ Len(applyCh) \in Nat \ {0}
      /\ applyCh' \in Seq(Message) /\ Len(applyCh') = Len(applyCh) - 1
      /\ \A k \in 1 .. Len(applyCh') : applyCh'[k] = applyCh[k + 1]
  BY <1>a, <1>b DEF TypeInv
<1>d. reader' = [reader EXCEPT !.pc = "received", !.msg = msg]
  BY DEF ReceiveMsg
<1>e. reader' \in Reader /\ reader'.pc = "received" /\ reader'.msg = msg
  BY Zenon, <1>a, <1>c, <1>d DEF TypeInv, Reader
<1>f. reached = Len(applied) /\ Len(applied) \in Nat
  BY <1>a, <1>b DEF reached, TypeInv
<1>1. TypeInv'
  BY <1>a, <1>b, <1>c, <1>e, Zenon DEF TypeInv, rsmVars
<1>2. LogInv'
  BY <1>a, <1>b, Zenon DEF LogInv
<1>3. HandoverInv'
  <2>1. CASE /\ lastApplied = reached + Len(applyCh)
             /\ \A k \in 1 .. Len(applyCh) :
                  isCommand(applyCh[k]) /\ applyCh[k].entry = log[reached + k]
    <3>1. isCommand(msg) /\ msg.entry = log[reached + 1]
      BY <1>c, <2>1
    <3>2. reached' = reached + 1
      BY <1>b, <1>e, <1>f, <3>1 DEF reached, rsmVars, isCommand
    <3>3. lastApplied' = reached' + Len(applyCh')
      BY <1>b, <1>c, <1>f, <2>1, <3>2
    <3>4. ASSUME NEW k \in 1 .. Len(applyCh')
          PROVE  isCommand(applyCh'[k]) /\ applyCh'[k].entry = log'[reached' + k]
      <4> k + 1 \in 1 .. Len(applyCh) /\ reached' + k = reached + (k + 1)
        BY <1>c, <1>f, <3>2
      <4> QED
        BY <1>b, <1>c, <2>1
    <3>5. applyCh' = <<>> => Len(applyCh') = 0
      OBVIOUS
    <3>6. reached' <= commitIndex' /\ reached' > Len(applied')
      BY <1>a, <1>b, <1>c, <1>f, <2>1, <3>2 DEF LogInv, TypeInv, rsmVars
    <3>7. (/\ reader.msg \in Message /\ isCommand(reader.msg)
           /\ reader.msg.entry = log[reached])'
      BY <1>b, <1>c, <1>e, <3>1, <3>2 DEF isCommand
    <3>8. applyCh' = <<>> => lastApplied' = reached'
      BY <1>f, <3>2, <3>3, <3>5
    <3> QED
      BY <3>3, <3>4, <3>6, <3>7, <3>8, Zenon DEF HandoverInv, isCommand
  <2>2. CASE /\ Len(applyCh) = 1
             /\ ~ isCommand(applyCh[1])
             /\ applyCh[1].index = lastApplied /\ lastApplied > reached
             /\ applyCh[1].data = SubSeq(log, 1, lastApplied)
    <3>1. applyCh' = <<>>
      BY <1>c, <2>2
    <3>2. reached' = lastApplied
      BY <1>c, <1>e, <2>2 DEF reached, isCommand
    <3>3. lastApplied <= commitIndex
      BY <1>a, Zenon DEF LogInv
    <3> QED
      BY <1>b, <1>c, <1>e, <1>f, <2>2, <3>1, <3>2, <3>3
         DEF HandoverInv, isCommand, rsmVars
  <2> QED
    BY <1>a, <1>b, <2>1, <2>2, Zenon DEF HandoverInv
<1>4. AppliedInv'
  BY <1>a, <1>b, <1>e, Zenon DEF AppliedInv, AppliedIsCommitted, rsmVars
<1>5. PendingInv'
  BY <1>a, <1>b, <1>e, Zenon DEF PendingInv, inSubmit, rsmVars
<1>6. WaitInv'
  BY <1>a, <1>b, <1>e, Zenon DEF WaitInv, WaitingIsPending, waiting, shared, rsmVars
<1>7. OwnResult'
  BY <1>b DEF Inv, OwnResult
<1> QED
  BY <1>1, <1>2, <1>3, <1>4, <1>5, <1>6, <1>7 DEF Inv

\* The command received is the next one: it is never skipped, and the state
\* machine has executed the log up to it.
LEMMA HandleCommandInv ==
  ASSUME Inv, handleCommand
  PROVE  Inv'
<1> USE CallAssumption
<1>a. TypeInv /\ LogInv /\ HandoverInv /\ AppliedInv /\ PendingInv /\ WaitInv
  BY DEF Inv
<1> DEFINE e == reader.msg.entry
           n == Len(applied) + 1
<1>b. /\ reader.pc = "received" /\ mu = Nil /\ isCommand(reader.msg)
      /\ UNCHANGED <<raftVars, applierVars, mu, pending, call, closed>>
  BY Zenon DEF handleCommand, isCommand
<1>c. reached = n /\ Len(applied) \in Nat /\ n \in 1 .. commitIndex
      /\ n \in 1 .. Len(log)
  BY <1>a, <1>b DEF reached, HandoverInv, TypeInv, LogInv
<1>d. e = log[n] /\ e \in Entry /\ e.index = n
  BY <1>a, <1>b, <1>c DEF HandoverInv, TypeInv, LogInv
<1>e. ~ (e.index <= rsmLastApplied)
  BY <1>a, <1>c, <1>d DEF AppliedInv, AppliedIsCommitted, TypeInv
<1>f. /\ rsmLastApplied' = n /\ applied' = Append(applied, e)
      /\ reader' = [reader EXCEPT !.pc = "applied",
                      !.res = [id |-> e.cmd, val |-> applied']]
  BY <1>d, <1>e DEF handleCommand
<1>g. applied' \in Seq(Entry) /\ Len(applied') = n /\ applied' # <<>>
  BY <1>a, <1>d, <1>f DEF TypeInv
<1>h. applied' = SubSeq(log, 1, n)
  <2>1. SubSeq(log, 1, n) \in Seq(Entry) /\ Len(SubSeq(log, 1, n)) = n
    BY <1>a, <1>c DEF TypeInv
  <2>2. \A k \in 1 .. Len(applied) : applied[k] = log[k]
    <3> applied = SubSeq(log, 1, Len(applied)) /\ Len(applied) <= Len(log)
      BY <1>a, <1>c DEF AppliedInv, AppliedIsCommitted
    <3> QED
      BY <1>a, <1>c DEF TypeInv
  <2>3. \A k \in 1 .. n : applied'[k] = log[k]
    <3> SUFFICES ASSUME NEW k \in 1 .. n PROVE applied'[k] = log[k]
      OBVIOUS
    <3>1. CASE k = n
      BY <1>a, <1>d, <1>f, <3>1 DEF TypeInv
    <3>2. CASE k \in 1 .. Len(applied)
      BY <1>a, <1>f, <2>2, <3>2 DEF TypeInv
    <3> QED
      BY <1>c, <3>1, <3>2
  <2>4. \A k \in 1 .. n : SubSeq(log, 1, n)[k] = log[k]
    BY <1>a, <1>c DEF TypeInv
  <2> QED
    BY <1>c, <1>g, <2>1, <2>3, <2>4, SameSeq
<1>i. [id |-> e.cmd, val |-> applied'] \in Result
  BY <1>d, <1>g DEF Result, Entry
<1>j. /\ reader' \in Reader /\ reader'.pc = "applied"
      /\ reader'.msg = reader.msg
      /\ reader'.res = [id |-> e.cmd, val |-> applied']
  BY Zenon, <1>a, <1>f, <1>i DEF TypeInv, Reader
<1>1. TypeInv'
  <2>1. UNCHANGED <<term, role, log, commitIndex, lastIncludedIndex,
                    lastApplied, applyCh, mu, pending, call, closed>>
    BY <1>b, Zenon DEF raftVars
  <2>2. rsmLastApplied' \in Nat
    BY <1>c, <1>f
  <2>3. mu' = IF reader'.pc \in {"sending", "outdating", "waking"} THEN "reader"
              ELSE Nil
    BY <1>b, <1>j, <2>1
  <2> QED
    BY <1>a, <1>g, <1>j, <2>1, <2>2, <2>3, Zenon DEF TypeInv
<1>2. LogInv'
  BY <1>a, <1>b DEF LogInv, raftVars
<1>3. HandoverInv'
  <2>1. reached' = reached
    BY <1>c, <1>g, <1>j, Zenon DEF reached
  <2> QED
    BY <1>a, <1>b, <1>j, <2>1, Zenon DEF HandoverInv, raftVars, isCommand
<1>4. AppliedInv'
  <2>1. AppliedIsCommitted'
    BY <1>b, <1>c, <1>f, <1>g, <1>h DEF AppliedIsCommitted, raftVars
  <2>2. reader'.msg \in Message /\ isCommand(reader'.msg)
    BY <1>a, <1>b, <1>j, Zenon DEF HandoverInv, isCommand
  <2>3. reader'.msg.entry = log'[Len(applied')]
    BY <1>b, <1>d, <1>g, <1>j, Zenon DEF raftVars
  <2> QED
    BY <1>g, <1>j, <2>1, <2>2, <2>3 DEF AppliedInv, isCommand
<1>5. PendingInv'
  BY <1>a, <1>b, <1>j, Zenon DEF PendingInv, inSubmit
<1>6. WaitInv'
  BY <1>a, <1>b, <1>j, Zenon DEF WaitInv, WaitingIsPending, waiting, shared
<1>7. OwnResult'
  BY <1>b DEF Inv, OwnResult, raftVars
<1> QED
  BY <1>1, <1>2, <1>3, <1>4, <1>5, <1>6, <1>7 DEF Inv

\* A restored snapshot is the log up to its index, executed.
LEMMA HandleSnapshotInv ==
  ASSUME Inv, handleSnapshot
  PROVE  Inv'
<1> USE CallAssumption
<1>a. TypeInv /\ LogInv /\ HandoverInv /\ AppliedInv /\ PendingInv /\ WaitInv
  BY DEF Inv
<1>b. /\ reader.pc = "received" /\ mu' = "reader" /\ ~ isCommand(reader.msg)
      /\ applied' = reader.msg.data /\ rsmLastApplied' = reader.msg.index
      /\ UNCHANGED <<raftVars, applierVars, pending, call, closed>>
  BY DEF handleSnapshot, restored, isCommand
<1>c. reader' \in Reader /\ reader'.pc = "outdating"
  BY Zenon, <1>a DEF handleSnapshot, TypeInv, Reader
<1>d. reached = reader.msg.index /\ reached \in Nat /\ reached <= commitIndex
      /\ reached <= Len(log)
  <2>1. reader.msg \in Message /\ reached <= commitIndex
    BY <1>a, <1>b DEF HandoverInv
  <2>2. reader.msg.index \in Nat
    BY <1>b, <2>1, Zenon DEF Message, isCommand
  <2>3. reached = reader.msg.index
    BY <1>b, Zenon DEF reached
  <2> QED
    BY <1>a, <2>1, <2>2, <2>3 DEF TypeInv, LogInv
<1>e. applied' = SubSeq(log, 1, reached)
  BY <1>a, <1>b, Zenon DEF HandoverInv
<1>f. applied' \in Seq(Entry) /\ Len(applied') = reached
  BY <1>a, <1>d, <1>e DEF TypeInv
<1>1. TypeInv'
  BY <1>a, <1>b, <1>c, <1>d, <1>f, Zenon DEF TypeInv, raftVars
<1>2. LogInv'
  BY <1>a, <1>b, Zenon DEF LogInv, raftVars
<1>3. HandoverInv'
  <2>1. reached' = reached
    BY <1>c, <1>f, Zenon DEF reached
  <2> QED
    BY <1>a, <1>b, <1>c, <2>1, Zenon DEF HandoverInv, raftVars, isCommand
<1>4. AppliedInv'
  BY <1>b, <1>c, <1>d, <1>e, <1>f, Zenon DEF AppliedInv, AppliedIsCommitted, raftVars
<1>5. PendingInv'
  BY <1>a, <1>b, <1>c, Zenon DEF PendingInv, inSubmit
<1>6. WaitInv'
  BY <1>a, <1>b, <1>c, Zenon DEF WaitInv, WaitingIsPending, waiting, shared
<1>7. OwnResult'
  BY <1>b DEF Inv, OwnResult, raftVars
<1> QED
  BY <1>1, <1>2, <1>3, <1>4, <1>5, <1>6, <1>7 DEF Inv

\* Only a result with the id of the call at its index is passed on.
LEMMA NotifyPendingInv ==
  ASSUME Inv, notifyPending
  PROVE  Inv'
<1> USE CallAssumption
<1>a. TypeInv /\ LogInv /\ HandoverInv /\ AppliedInv /\ PendingInv /\ WaitInv
  BY DEF Inv
<1>b. /\ reader.pc = "applied" /\ mu' = "reader"
      /\ UNCHANGED <<raftVars, applierVars, pending, rsmLastApplied, applied,
                     call, closed>>
  BY DEF notifyPending
<1>c. failure \in Result
  BY Zenon DEF failure, Result
<1>d. /\ reader' \in Reader /\ reader'.msg = reader.msg
      /\ \/ reader'.pc = "outdating"
         \/ /\ reader'.pc = "sending" /\ pending[reader.msg.entry.index] # Nil
            /\ reader'.res \in {reader.res, failure}
  <2>1. CASE pending[reader.msg.entry.index] = Nil
    BY Zenon, <1>a, <2>1 DEF notifyPending, TypeInv, Reader
  <2>2. CASE pending[reader.msg.entry.index] # Nil
    BY Zenon, <1>a, <1>c, <2>2 DEF notifyPending, TypeInv, Reader
  <2> QED
    BY <2>1, <2>2
<1>1. TypeInv'
  BY <1>a, <1>b, <1>d DEF TypeInv, raftVars
<1>2. LogInv'
  BY <1>a, <1>b, Zenon DEF LogInv, raftVars
<1>3. HandoverInv'
  <2>1. reached' = reached
    BY <1>b, <1>d, Zenon DEF reached
  <2> QED
    BY <1>a, <1>b, <1>d, <2>1, Zenon DEF HandoverInv, raftVars, isCommand
<1>4. AppliedInv'
  BY <1>a, <1>b, <1>d, Zenon DEF AppliedInv, AppliedIsCommitted, raftVars, isCommand,
                          failure
<1>5. PendingInv'
  BY <1>a, <1>b, <1>d, Zenon DEF PendingInv, inSubmit
<1>6. WaitInv'
  BY <1>a, <1>b, <1>d, Zenon DEF WaitInv, WaitingIsPending, waiting, shared
<1>7. OwnResult'
  BY <1>b DEF Inv, OwnResult, raftVars
<1> QED
  BY <1>1, <1>2, <1>3, <1>4, <1>5, <1>6, <1>7 DEF Inv

\* Whoever waits at an applied index is among those to wake.
LEMMA NotifyOutdatedInv ==
  ASSUME Inv, notifyOutdated
  PROVE  Inv'
<1> USE CallAssumption
<1>a. TypeInv /\ LogInv /\ HandoverInv /\ AppliedInv /\ PendingInv /\ WaitInv
  BY DEF Inv
<1> DEFINE todo == {n \in Index : pending[n] # Nil /\ outdated(n, rsmLastApplied)}
<1>b. /\ reader.pc = "outdating"
      /\ UNCHANGED <<raftVars, applierVars, rsmVars, call, closed>>
  BY DEF notifyOutdated
<1>c. /\ reader' \in Reader /\ reader'.msg = reader.msg
      /\ reader'.pc = "waking" /\ reader'.todo = todo
  BY Zenon, <1>a DEF notifyOutdated, TypeInv, Reader
<1>1. TypeInv'
  BY <1>a, <1>b, <1>c, Zenon DEF TypeInv, raftVars, rsmVars
<1>2. LogInv'
  BY <1>a, <1>b, Zenon DEF LogInv, raftVars
<1>3. HandoverInv'
  <2>1. reached' = reached
    BY <1>b, <1>c, Zenon DEF reached, rsmVars
  <2> QED
    BY <1>a, <1>b, <1>c, <2>1, Zenon DEF HandoverInv, raftVars, isCommand, rsmVars
<1>4. AppliedInv'
  BY <1>a, <1>b, <1>c DEF AppliedInv, AppliedIsCommitted, raftVars, rsmVars
<1>5. PendingInv'
  BY <1>a, <1>b, <1>c, Zenon DEF PendingInv, inSubmit, rsmVars
<1>6. WaitInv'
  <2>1. ASSUME NEW c \in Calls, waiting(c), call[c].index <= rsmLastApplied
        PROVE  shared(c) \/ call[c].index \in todo
    <3>1. call[c].index \in Index
      BY <1>a, <2>1, Zenon DEF PendingInv, inSubmit, waiting
    <3>2. pending[call[c].index] = c \/ shared(c)
      BY <1>a, <1>b, <2>1, Zenon DEF WaitInv, WaitingIsPending
    <3> QED
      BY <2>1, <3>1, <3>2, Zenon DEF outdated
  <2> QED
    BY <1>a, <1>b, <1>c, <2>1
       DEF WaitInv, WaitingIsPending, waiting, shared, rsmVars
<1>7. OwnResult'
  BY <1>b DEF Inv, OwnResult, raftVars
<1> QED
  BY <1>1, <1>2, <1>3, <1>4, <1>5, <1>6, <1>7 DEF Inv

\* What sending res to the call at index n does, whatever the reader does next
Sent(n, res) ==
  LET p == pending[n] IN
  /\ p \in Calls /\ waiting(p) /\ call[p].index = n
  /\ call' \in [Calls -> Call]
  /\ call'[p].pc = "leaving" /\ call'[p].answer = answerTo(p, res)
  /\ call'[p].index = n
  /\ \A d \in Calls \ {p} : call'[d] = call[d]
  /\ pending' \in [Index -> Calls \cup {Nil}] /\ pending'[n] = Nil
  /\ \A m \in Index \ {n} : pending'[m] = pending[m]
  /\ \A d \in Calls : waiting(d)' =>
       d # p /\ waiting(d) /\ call'[d].index = call[d].index
  /\ \A d \in Calls : shared(d) => shared(d)'
  /\ \A d \in Calls : waiting(d)' /\ call[d].index = n => shared(d)'
  /\ WaitingIsPending'
  /\ \A d \in Calls :
       /\ call'[d].pc = "idle" => call'[d].index = 0
       /\ inSubmit(d)' \/ call'[d].answer \notin {Nil, ErrWrongLeader}
            => call'[d].index \in Index
  /\ \A m \in Index : pending'[m] # Nil =>
       inSubmit(pending[m])' /\ call'[pending'[m]].index = m

\* Sending does that.
LEMMA SendKeeps ==
  ASSUME Inv, NEW n \in Index, NEW res \in Result, pending[n] # Nil,
         Send(pending[n], res), pending' = pendingAfterSend(n),
         UNCHANGED <<raftVars, rsmLastApplied, applied, closed>>
  PROVE  Sent(n, res)
<1> USE CallAssumption
<1>a. TypeInv /\ PendingInv /\ WaitInv
  BY DEF Inv
<1> DEFINE p == pending[n]
<1>1. p \in Calls /\ waiting(p) /\ call[p].index = n
  BY <1>a DEF TypeInv, PendingInv, Send
<1>2. answerTo(p, res) \in Answer
  BY Zenon DEF answerTo, Answer, OK, Result
<1>3. /\ call' \in [Calls -> Call]
      /\ call'[p].pc = "leaving" /\ call'[p].answer = answerTo(p, res)
      /\ call'[p].index = call[p].index
      /\ \A d \in Calls \ {p} : call'[d] = call[d]
  BY Zenon, <1>a, <1>1, <1>2, CallMoves DEF TypeInv, Send
<1>4. /\ pending' \in [Index -> Calls \cup {Nil}] /\ pending'[n] = Nil
      /\ \A m \in Index \ {n} : pending'[m] = pending[m]
  BY <1>a, Zenon DEF pendingAfterSend, TypeInv
<1>5. \A d \in Calls : waiting(d)' =>
        d # p /\ waiting(d) /\ call'[d].index = call[d].index
  BY <1>3, Zenon DEF waiting
<1>6. \A d \in Calls : shared(d) => shared(d)'
  BY <1>3 DEF shared
<1>7. \A d \in Calls : waiting(d)' /\ call[d].index = n => shared(d)'
  BY <1>1, <1>3, <1>5, Zenon DEF shared
<1>8. WaitingIsPending'
  <2> SUFFICES ASSUME NEW d \in Calls, waiting(d)'
               PROVE  (pending[call[d].index] = d \/ d \in closed \/ shared(d))'
    BY Zenon DEF WaitingIsPending
  <2>1. waiting(d) /\ call[d].index \in Index
    BY <1>a, <1>5 DEF PendingInv, inSubmit, waiting
  <2>2. pending[call[d].index] = d \/ d \in closed \/ shared(d)
    BY Zenon, <1>a, <2>1 DEF WaitInv, WaitingIsPending
  <2> QED
    BY <1>4, <1>5, <1>6, <1>7, <2>1, <2>2, Zenon
<1>9. \A d \in Calls :
        /\ call'[d].pc = "idle" => call'[d].index = 0
        /\ inSubmit(d)' \/ call'[d].answer \notin {Nil, ErrWrongLeader}
             => call'[d].index \in Index
  <2> SUFFICES ASSUME NEW d \in Calls
               PROVE  /\ call'[d].pc = "idle" => call'[d].index = 0
                      /\ inSubmit(d)' \/ call'[d].answer \notin {Nil, ErrWrongLeader}
                           => call'[d].index \in Index
    BY Zenon
  <2>1. CASE d = p
    BY <1>1, <1>3, <2>1, Zenon DEF inSubmit
  <2>2. CASE d # p
    <3>1. /\ call[d].pc = "idle" => call[d].index = 0
          /\ inSubmit(d) \/ call[d].answer \notin {Nil, ErrWrongLeader}
               => call[d].index \in Index
      BY <1>a, Zenon DEF PendingInv
    <3>2. call'[d] = call[d]
      BY <1>3, <2>2
    <3> QED
      BY Zenon, <3>1, <3>2 DEF inSubmit
  <2> QED
    BY <2>1, <2>2, Zenon
<1>10. ASSUME NEW m \in Index, pending'[m] # Nil
       PROVE  inSubmit(pending[m])' /\ call'[pending'[m]].index = m
  <2>1. pending'[m] = pending[m] /\ m # n
    BY <1>4, <1>10, Zenon
  <2>2. inSubmit(pending[m]) /\ call[pending[m]].index = m
    BY <1>a, <1>10, <2>1, Zenon DEF PendingInv
  <2>3. pending[m] \in Calls \ {p}
    BY <1>a, <1>1, <1>10, <2>1, <2>2, Zenon DEF TypeInv
  <2> QED
    BY Zenon, <1>3, <2>1, <2>2, <2>3 DEF inSubmit
<1> QED
  BY Zenon, <1>1, <1>3, <1>4, <1>5, <1>6, <1>7, <1>8, <1>9, <1>10 DEF Sent

\* A call that receives a result with its own id receives the result of its own
\* entry, which is the last one applied.
LEMMA SendResultInv ==
  ASSUME Inv, sendResult
  PROVE  Inv'
<1> USE CallAssumption
<1>a. TypeInv /\ LogInv /\ HandoverInv /\ AppliedInv /\ PendingInv /\ WaitInv
  BY DEF Inv
<1> DEFINE n == reader.msg.entry.index
           p == pending[n]
<1>b. /\ reader.pc = "sending" /\ Send(p, reader.res)
      /\ pending' = pendingAfterSend(n)
      /\ UNCHANGED <<raftVars, applierVars, mu, rsmLastApplied, applied, closed>>
  BY DEF sendResult
<1>c. /\ reader' \in Reader /\ reader'.msg = reader.msg
      /\ reader'.pc = "outdating"
  BY Zenon, <1>a DEF sendResult, TypeInv, Reader
<1>d. /\ Len(applied) \in 1 .. commitIndex /\ Len(applied) \in 1 .. Len(log)
      /\ log[Len(applied)] = reader.msg.entry /\ n = Len(applied)
      /\ reader.msg.entry \in Entry
  <2>1. Len(applied) \in Nat \ {0}
    BY <1>a, <1>b DEF AppliedInv, TypeInv
  <2>2. Len(applied) \in 1 .. commitIndex /\ Len(applied) \in 1 .. Len(log)
    <3>1. Len(applied) <= commitIndex
      BY <1>a, Zenon DEF AppliedInv, AppliedIsCommitted
    <3>2. commitIndex \in Nat /\ commitIndex <= Len(log) /\ Len(log) \in Nat
      BY <1>a DEF TypeInv, LogInv
    <3> QED
      BY <2>1, <3>1, <3>2
  <2>3. log[Len(applied)] = reader.msg.entry
    BY <1>a, <1>b, Zenon DEF AppliedInv
  <2>4. log[Len(applied)] \in Entry /\ log[Len(applied)].index = Len(applied)
    BY <1>a, <2>2 DEF TypeInv, LogInv
  <2> QED
    BY <2>2, <2>3, <2>4, Zenon
<1>e. n \in Index /\ p # Nil
  BY <1>a, <1>b, <1>d, Zenon DEF PendingInv, Entry
<1>f. reader.res \in Result
  <2>1. failure \in Result
    BY DEF failure, Result
  <2>2. [id |-> reader.msg.entry.cmd, val |-> applied] \in Result
    BY <1>a, <1>d DEF Result, Entry, TypeInv
  <2> QED
    BY <1>a, <1>b, <2>1, <2>2, Zenon DEF AppliedInv
<1>s. Sent(n, reader.res)
  BY <1>b, <1>e, <1>f, SendKeeps, Zenon
<1>g. /\ p \in Calls /\ call' \in [Calls -> Call]
      /\ call'[p].answer = answerTo(p, reader.res) /\ call'[p].index = n
      /\ \A d \in Calls \ {p} : call'[d] = call[d]
  BY Zenon, <1>s DEF Sent
<1>h. /\ pending' \in [Index -> Calls \cup {Nil}]
      /\ \A d \in Calls : waiting(d)' =>
           d # p /\ waiting(d) /\ call'[d].index = call[d].index
      /\ \A d \in Calls : shared(d) => shared(d)'
      /\ WaitingIsPending'
  BY Zenon, <1>s DEF Sent
<1>i. /\ \A d \in Calls :
           /\ call'[d].pc = "idle" => call'[d].index = 0
           /\ inSubmit(d)' \/ call'[d].answer \notin {Nil, ErrWrongLeader}
                => call'[d].index \in Index
      /\ \A m \in Index : pending'[m] # Nil =>
           inSubmit(pending[m])' /\ call'[pending'[m]].index = m
  BY Zenon, <1>s DEF Sent
<1>1. TypeInv'
  BY Zenon, <1>a, <1>b, <1>c, <1>g, <1>h DEF TypeInv, raftVars
<1>2. LogInv'
  BY Zenon, <1>a, <1>b DEF LogInv, raftVars
<1>3. HandoverInv'
  <2>1. reached' = reached
    BY <1>b, <1>c, Zenon DEF reached
  <2> QED
    BY <1>a, <1>b, <1>c, <2>1, Zenon DEF HandoverInv, raftVars, isCommand
<1>4. AppliedInv'
  BY Zenon, <1>a, <1>b, <1>c DEF AppliedInv, AppliedIsCommitted, raftVars
<1>5. PendingInv'
  BY <1>c, <1>i DEF PendingInv, inSubmit
<1>6. WaitInv'
  BY Zenon, <1>a, <1>b, <1>c, <1>h DEF WaitInv
<1>7. OwnResult'
  <2> SUFFICES ASSUME NEW c \in Calls, call'[c].answer \notin {Nil, ErrWrongLeader}
               PROVE  /\ call'[c].index <= commitIndex
                      /\ log[call'[c].index].cmd = c
                      /\ call'[c].answer.val = SubSeq(log, 1, call'[c].index)
    BY <1>b, Zenon DEF OwnResult, raftVars
  <2>1. CASE c # p
    BY <1>g, <2>1, Zenon DEF Inv, OwnResult
  <2>2. CASE c = p
    <3>1. reader.res.id = p
      BY Zenon, <1>g, <2>2 DEF answerTo
    <3>2. failure.id # p
      BY <1>g, Zenon DEF failure
    <3>3. reader.res = [id |-> reader.msg.entry.cmd, val |-> applied]
      BY Zenon, <1>a, <1>b, <3>1, <3>2 DEF AppliedInv
    <3>4. reader.res.id = reader.msg.entry.cmd /\ reader.res.val = applied
      BY <3>3
    <3>6. call'[p].answer = OK(applied)
      BY <1>g, <3>1, <3>4 DEF answerTo
    <3>7. OK(applied).val = applied
      BY Zenon DEF OK
    <3>5. applied = SubSeq(log, 1, n) /\ log[n].cmd = p /\ n <= commitIndex
      BY <1>a, <1>d, <3>1, <3>4 DEF AppliedInv, AppliedIsCommitted
    <3> QED
      BY Zenon, <1>g, <2>2, <3>5, <3>6, <3>7
  <2> QED
    BY <2>1, <2>2, Zenon
<1> QED
  BY <1>1, <1>2, <1>3, <1>4, <1>5, <1>6, <1>7 DEF Inv

\* Who is woken gets no result, and the others are still to be woken.
LEMMA SendOutdatedInv ==
  ASSUME Inv, NEW n \in Index, sendOutdated(n)
  PROVE  Inv'
<1> USE CallAssumption
<1>a. TypeInv /\ LogInv /\ HandoverInv /\ AppliedInv /\ PendingInv /\ WaitInv
  BY DEF Inv
<1> DEFINE p == pending[n]
<1>b. /\ reader.pc = "waking" /\ n \in reader.todo /\ Send(p, failure)
      /\ pending' = pendingAfterSend(n)
      /\ UNCHANGED <<raftVars, applierVars, mu, rsmLastApplied, applied, closed>>
  BY DEF sendOutdated
<1>c. /\ reader' \in Reader /\ reader'.msg = reader.msg
      /\ reader'.pc = "waking" /\ reader'.todo = reader.todo \ {n}
  BY Zenon, <1>a, <1>b DEF sendOutdated, TypeInv, Reader
<1>d. failure \in Result /\ p # Nil
  BY <1>a, <1>b DEF failure, Result, PendingInv
<1>s. Sent(n, failure)
  BY Zenon, <1>b, <1>d, SendKeeps
<1>g. /\ p \in Calls
      /\ call' \in [Calls -> Call] /\ call'[p].answer = answerTo(p, failure)
      /\ \A d \in Calls \ {p} : call'[d] = call[d]
      /\ pending' \in [Index -> Calls \cup {Nil}]
      /\ \A m \in Index \ {n} : pending'[m] = pending[m]
  BY Zenon, <1>s DEF Sent
<1>h. /\ \A d \in Calls : waiting(d)' =>
           d # p /\ waiting(d) /\ call'[d].index = call[d].index
      /\ \A d \in Calls : shared(d) => shared(d)'
      /\ \A d \in Calls : waiting(d)' /\ call[d].index = n => shared(d)'
      /\ WaitingIsPending'
  BY Zenon, <1>s DEF Sent
<1>i. /\ \A d \in Calls :
           /\ call'[d].pc = "idle" => call'[d].index = 0
           /\ inSubmit(d)' \/ call'[d].answer \notin {Nil, ErrWrongLeader}
                => call'[d].index \in Index
      /\ \A m \in Index : pending'[m] # Nil =>
           inSubmit(pending[m])' /\ call'[pending'[m]].index = m
  BY <1>s, Zenon DEF Sent
<1>j. call'[p].answer = ErrWrongLeader
  BY <1>g DEF answerTo, failure
<1>1. TypeInv'
  BY Zenon, <1>a, <1>b, <1>c, <1>g DEF TypeInv, raftVars
<1>2. LogInv'
  BY Zenon, <1>a, <1>b DEF LogInv, raftVars
<1>3. HandoverInv'
  <2>1. reached' = reached
    BY Zenon, <1>b, <1>c DEF reached
  <2> QED
    BY Zenon, <1>a, <1>b, <1>c, <2>1 DEF HandoverInv, raftVars, isCommand
<1>4. AppliedInv'
  BY <1>a, <1>b, <1>c, Zenon DEF AppliedInv, AppliedIsCommitted, raftVars
<1>5. PendingInv'
  <2>1. \A m \in reader'.todo : pending'[m] # Nil
    <3> reader.todo \subseteq Index
      BY <1>a DEF TypeInv, Reader
    <3> QED
      BY Zenon, <1>a, <1>b, <1>c, <1>g DEF PendingInv
  <2> QED
    BY <1>c, <1>i, <2>1 DEF PendingInv, inSubmit
<1>6. WaitInv'
  <2>1. ASSUME NEW d \in Calls, (waiting(d) /\ call[d].index <= rsmLastApplied)'
        PROVE  shared(d)' \/ call'[d].index \in reader'.todo
    <3>1. waiting(d) /\ call'[d].index = call[d].index
          /\ call[d].index <= rsmLastApplied
      BY <1>b, <1>h, <2>1, Zenon
    <3>2. shared(d) \/ call[d].index \in reader.todo
      BY <1>a, <1>b, <3>1, Zenon DEF WaitInv
    <3> QED
      BY <1>c, <1>h, <2>1, <3>1, <3>2, Zenon
  <2> QED
    BY <1>a, <1>b, <1>c, <1>h, <2>1, Zenon DEF WaitInv
<1>7. OwnResult'
  <2> LogKept
    BY <1>a, <1>b, SameLog, Zenon DEF raftVars
  <2> QED
    BY <1>g, <1>j, OwnResultKept, Zenon DEF Inv
<1> QED
  BY <1>1, <1>2, <1>3, <1>4, <1>5, <1>6, <1>7 DEF Inv

\* The unlock: nobody is left to wake.
LEMMA CheckSnapshotInv ==
  ASSUME Inv, checkSnapshot
  PROVE  Inv'
<1> USE CallAssumption
<1>a. TypeInv /\ LogInv /\ HandoverInv /\ AppliedInv /\ PendingInv /\ WaitInv
  BY DEF Inv
<1>b. /\ reader.pc = "waking" /\ reader.todo = {} /\ mu' = Nil /\ reader' = Ready
      /\ UNCHANGED <<applierVars, pending, rsmLastApplied, applied, call, closed>>
  BY Zenon DEF checkSnapshot
<1>c. /\ UNCHANGED <<term, role, log, commitIndex, lastApplied, applyCh>>
      /\ lastIncludedIndex' \in Nat /\ lastIncludedIndex' <= commitIndex
  <2>1. /\ lastIncludedIndex \in Nat /\ lastApplied \in Nat /\ commitIndex \in Nat
        /\ lastIncludedIndex <= commitIndex /\ lastApplied <= commitIndex
    BY <1>a, Zenon DEF TypeInv, LogInv
  <2>2. CASE Raft!Snapshot(rsmLastApplied)
    <3>1. /\ UNCHANGED <<term, role, log, commitIndex, lastApplied, applyCh>>
          /\ lastIncludedIndex' \in lastIncludedIndex + 1 .. lastApplied
      BY <2>2, Zenon DEF Raft!Snapshot
    <3>2. lastIncludedIndex' \in Nat /\ lastIncludedIndex' <= commitIndex
      BY <2>1, <3>1
    <3> QED
      BY <3>1, <3>2, Zenon
  <2>3. CASE UNCHANGED raftVars
    BY <2>1, <2>3, Zenon DEF raftVars
  <2> QED
    BY <2>2, <2>3, Zenon DEF checkSnapshot
<1>d. Ready \in Reader
  BY Zenon DEF Ready, Reader
<1>1. TypeInv'
  BY <1>a, <1>b, <1>c, <1>d DEF TypeInv, Ready
<1>2. LogInv'
  BY <1>a, <1>c, Zenon DEF LogInv
<1>3. HandoverInv'
  <2>1. reached' = reached
    BY <1>b, Zenon DEF reached, Ready
  <2> QED
    BY <1>a, <1>b, <1>c, <2>1, Zenon DEF HandoverInv, isCommand, Ready
<1>4. AppliedInv'
  BY <1>a, <1>b, <1>c, Zenon DEF AppliedInv, AppliedIsCommitted, Ready
<1>5. PendingInv'
  BY <1>a, <1>b, Zenon DEF PendingInv, inSubmit, Ready
<1>6. WaitInv'
  BY <1>a, <1>b DEF WaitInv, WaitingIsPending, waiting, shared, Ready
<1>7. OwnResult'
  BY Zenon, <1>b, <1>c DEF Inv, OwnResult
<1> QED
  BY <1>1, <1>2, <1>3, <1>4, <1>5, <1>6, <1>7 DEF Inv

\* Whoever is pending finds its channel closed.
LEMMA CleanupInv ==
  ASSUME Inv, cleanup
  PROVE  Inv'
<1> USE CallAssumption
<1>a. TypeInv /\ LogInv /\ HandoverInv /\ AppliedInv /\ PendingInv /\ WaitInv
  BY DEF Inv
<1>b. /\ reader.pc = "ready" /\ closed' = closed \cup (Range(pending) \ {Nil})
      /\ pending' = [n \in Index |-> Nil]
      /\ UNCHANGED <<raftVars, applierVars, mu, rsmLastApplied, applied, call>>
  BY DEF cleanup, closedWithPending
<1>c. reader' \in Reader /\ reader'.pc = "ended"
  BY Zenon, <1>a DEF cleanup, TypeInv, Reader
<1>d. \A n \in Index : pending[n] \in Range(pending)
  BY <1>a DEF TypeInv, Range
<1>e. Range(pending) \subseteq Calls \cup {Nil}
  BY <1>a, Zenon DEF TypeInv, Range
<1>1. TypeInv'
  BY <1>a, <1>b, <1>c, <1>e DEF TypeInv, raftVars
<1>2. LogInv'
  BY Zenon, <1>a, <1>b DEF LogInv, raftVars
<1>3. HandoverInv'
  <2>1. reached' = reached
    BY <1>b, <1>c DEF reached
  <2> QED
    BY <1>a, <1>b, <1>c, <2>1, Zenon DEF HandoverInv, raftVars, isCommand
<1>4. AppliedInv'
  BY Zenon, <1>a, <1>b, <1>c DEF AppliedInv, AppliedIsCommitted, raftVars
<1>5. PendingInv'
  BY <1>a, <1>b, <1>c, Zenon DEF PendingInv, inSubmit
<1>6. WaitInv'
  <2>1. ASSUME NEW c \in Calls, waiting(c)
        PROVE  c \in closed' \/ shared(c)
    <3>1. call[c].index \in Index
      BY <1>a, <2>1, Zenon DEF PendingInv, inSubmit, waiting
    <3>2. pending[call[c].index] = c \/ c \in closed \/ shared(c)
      BY <1>a, <2>1, Zenon DEF WaitInv, WaitingIsPending
    <3> QED
      BY <1>b, <1>d, <3>1, <3>2, Zenon
  <2> QED
    BY <1>b, <1>c, <2>1, Zenon DEF WaitInv, WaitingIsPending, waiting, shared
<1>7. OwnResult'
  BY <1>b, Zenon DEF Inv, OwnResult, raftVars
<1> QED
  BY <1>1, <1>2, <1>3, <1>4, <1>5, <1>6, <1>7 DEF Inv

\* Steps that change nothing but what Kill and the applier's condition variable do
LEMMA IdleInv ==
  ASSUME Inv, UNCHANGED <<raftVars, rsmVars, call, closed, reader>>
  PROVE  Inv'
<1>1. LogKept
  BY SameLog DEF Inv, raftVars
<1> QED
  BY Zenon, <1>1, QuietInv DEF Inv, TypeInv, LogInv, raftVars

\* Every step of the server and of the nodes around it keeps the invariant.
LEMMA InvNext == Inv /\ [Next]_vars => Inv'
<1> SUFFICES ASSUME Inv, [Next]_vars PROVE Inv'
  OBVIOUS
<1>1. ASSUME NEW c \in Calls, Submit(c) \/ SubmitTimeout(c) \/ CallStep(c)
      PROVE  Inv'
  BY <1>1, SubmitInv, SubmitTimeoutInv, DumpPendingInv, ReturnInv DEF CallStep
<1>2. CASE ReaderStep
  BY <1>2, ReceiveMsgInv, HandleCommandInv, HandleSnapshotInv, NotifyPendingInv,
     SendResultInv, NotifyOutdatedInv, SendOutdatedInv, CheckSnapshotInv,
     CleanupInv DEF ReaderStep
<1>3. CASE ApplierStep
  <2>1. CASE applierTake
    BY <2>1, ApplierTakeInv
  <2>2. CASE applierTest \/ applierWait
    BY <2>2, IdleInv DEF applierTest, applierWait
  <2> QED
    BY <1>3, <2>1, <2>2 DEF ApplierStep
<1>4. CASE Kill
  BY <1>4, IdleInv DEF Kill
<1>5. CASE RaftStep
  BY <1>5, RaftStepKeeps, QuietInv DEF Inv
<1>6. CASE UNCHANGED vars
  BY <1>6, IdleInv DEF vars
<1> QED
  BY <1>1, <1>2, <1>3, <1>4, <1>5, <1>6 DEF Next

\* The invariant holds throughout.
LEMMA Invariance == Spec => []Inv
BY InitInv, InvNext, PTL DEF Spec

-----------------------------------------------------------------------------
(* The theorems                                                            *)

\* Everything has its type, no index is beyond the log, and rsm.mu is held
\* between steps by the reader alone, exactly while it wakes calls.
THEOREM TypeCorrect == Spec => []TypeOK
<1>1. Inv => TypeOK
  <2> SUFFICES ASSUME Inv PROVE TypeOK
    BY Zenon
  <2>1. TypeInv /\ LogInv /\ AppliedIsCommitted
    BY Zenon DEF Inv, AppliedInv
  <2>2. /\ commitIndex \in 0 .. Len(log) /\ lastIncludedIndex \in 0 .. Len(log)
        /\ lastApplied \in 0 .. Len(log) /\ rsmLastApplied \in 0 .. Len(log)
    <3>1. /\ log \in Seq(Entry) /\ applied \in Seq(Entry)
          /\ commitIndex \in Nat /\ lastIncludedIndex \in Nat
          /\ lastApplied \in Nat /\ rsmLastApplied \in Nat
          /\ commitIndex <= Len(log) /\ lastIncludedIndex <= commitIndex
          /\ lastApplied <= commitIndex /\ Len(applied) <= commitIndex
          /\ rsmLastApplied # 0 => rsmLastApplied = Len(applied)
      BY <2>1, Zenon DEF TypeInv, LogInv, AppliedIsCommitted
    <3> QED
      BY <3>1
  <2>3. {commitIndex, lastIncludedIndex, lastApplied, rsmLastApplied} \subseteq
           0 .. Len(log)
    BY <2>2
  <2>4. /\ term \in 0 .. MaxTerm /\ role \in {"Follower", "Candidate", "Leader"}
        /\ log \in Seq(Entry) /\ applied \in Seq(Entry)
        /\ pending \in [Index -> Calls \cup {Nil}] /\ closed \subseteq Calls
    BY <2>1, Zenon DEF TypeInv
  <2>5. mu = IF reader.pc \in {"sending", "outdating", "waking"} THEN "reader"
             ELSE Nil
    BY <2>1, Zenon DEF TypeInv
  <2> QED
    BY <2>3, <2>4, <2>5, Zenon DEF TypeOK
<1> QED
  BY <1>1, Invariance, PTL

\* A Submit that returns OK returns the result of its own command, at the index
\* Start gave it, after exactly the committed commands before it.
THEOREM SubmitReturnsItsOwnResult == Spec => []OwnResult
<1>1. Inv => OwnResult
  BY Zenon DEF Inv
<1> QED
  BY <1>1, Invariance, PTL

\* The reader has executed the committed commands in order, each once.
THEOREM StateIsWhatIsCommitted == Spec => []AppliedIsCommitted
<1>1. Inv => AppliedIsCommitted
  BY Zenon DEF Inv, AppliedInv
<1> QED
  BY <1>1, Invariance, PTL

\* The reader finds no channel in pending on which nobody will receive.
THEOREM NobodyGoneIsPending == Spec => []NoStalePending
<1>1. Inv => NoStalePending
  BY DEF Inv, PendingInv, inSubmit, NoStalePending
<1> QED
  BY <1>1, Invariance, PTL

\* A waiting Submit can be woken by the reader or by cleanup, unless another has
\* been given its index.
THEOREM WhoeverWaitsCanBeWoken == Spec => []WaitingIsPending
<1>1. Inv => WaitingIsPending
  BY Zenon DEF Inv, WaitInv
<1> QED
  BY <1>1, Invariance, PTL

\* Between two messages, nobody waits at an index that has been applied, unless
\* another Submit has been given the same index.
THEOREM WhoeverWaitsIsNotYetApplied == Spec => []AppliedIsAnswered
<1>1. Inv => AppliedIsAnswered
  <2> SUFFICES ASSUME Inv, NEW c \in Calls, reader.pc = "ready", waiting(c)
               PROVE  rsmLastApplied < call[c].index \/ shared(c)
    BY Zenon DEF AppliedIsAnswered
  <2>1. TypeInv /\ WaitInv /\ call[c] \in Call
    BY Zenon DEF Inv, TypeInv
  <2>2. call[c].index \in Nat /\ rsmLastApplied \in Nat
    BY <2>1, CallAssumption DEF TypeInv, Call
  <2> QED
    BY <2>1, <2>2 DEF WaitInv
<1> QED
  BY <1>1, Invariance, PTL

=============================================================================
