--------------------------------- MODULE RSM ---------------------------------
(***************************************************************************)
(* The replicated state machine of one server (internal/rsm): the Submit   *)
(* calls, the map pending of those that wait, the reader that applies what *)
(* comes through applyCh and wakes them, and the applier of Raft that      *)
(* feeds it.  Raft itself is the module RaftService.                       *)
(*                                                                         *)
(* rsm.mu is explicit.  A Submit holds it only inside one step; the reader *)
(* holds it while it sends on the unbuffered channels of the calls, which  *)
(* takes as long as the receiver likes.  The actions are the pieces of the *)
(* code between two points at which a goroutine can wait or at which the   *)
(* state of Raft is sampled.                                               *)
(***************************************************************************)
EXTENDS Integers, Sequences, FiniteSets, Functions

CONSTANTS
  Calls,         \* Submit calls; a call is also the id of its sm.Op
  Other,         \* the command of any entry another server has started
  Nil,           \* no entry in pending, id -1 in a result, no answer yet
  MaxTerm,       \* bound: no term beyond it
  MaxIndex,      \* bound: no log longer than this
  MaxRaftState,  \* rsm.maxRaftState, with log entries for bytes; -1: never
  Timeouts,      \* may submitTimeout pass before the answer?
  Kills          \* may Raft be killed?

ASSUME CallAssumption ==
  /\ Nil \notin Calls \cup {"reader"} /\ Other \notin Calls \cup {Nil}
  /\ MaxTerm \in Nat \ {0} /\ MaxIndex \in Nat \ {0}
  /\ MaxRaftState \in Int
  /\ Timeouts \in BOOLEAN /\ Kills \in BOOLEAN

VARIABLES
  \* Raft: see RaftService
  term, role, log, commitIndex, lastIncludedIndex, lastApplied, applyCh,
  killed, applierPc,
  \* struct RSM
  mu,              \* who holds rsm.mu between two steps: nobody or the reader
  pending,         \* index -> the call that waits there
  rsmLastApplied,
  applied,         \* rsm.sm: the entries applied to it, in order
  \* the goroutines
  call, closed, reader

raftVars == <<term, role, log, commitIndex, lastIncludedIndex, lastApplied,
              applyCh>>
applierVars == <<killed, applierPc>>
rsmVars == <<mu, pending, rsmLastApplied, applied>>
vars == <<raftVars, applierVars, rsmVars, call, closed, reader>>

Raft == INSTANCE RaftService
isLeader == Raft!isLeader

Index == 1 .. MaxIndex
Entry == [index : Index, term : 0 .. MaxTerm, cmd : Calls \cup {Other}]
entry(index, t, cmd) == [index |-> index, term |-> t, cmd |-> cmd]

(***************************************************************************)
(* A call is idle, waits in the select, has been woken by its timer        *)
(* ("timedOut"), is about to run the deferred delete ("leaving"), or has   *)
(* returned.  answer is what it returns: an error, or OK with the result.  *)
(***************************************************************************)
ErrWrongLeader == [err |-> "ErrWrongLeader"]
OK(val) == [err |-> "OK", val |-> val]

Idle == [pc |-> "idle", index |-> 0, term |-> 0, answer |-> Nil]

\* What the reader is about to do, the message it handles, what it found out
\* and whom it has yet to wake
Ready == [pc |-> "ready", msg |-> Nil, res |-> Nil, todo |-> {}]

waiting(c) == call[c].pc = "waiting"

Init ==
  /\ term = 1 /\ role = "Leader"
  /\ log \in {<<>>, <<entry(1, 0, Other)>>}
  /\ lastIncludedIndex = Len(log) /\ commitIndex = Len(log)
  /\ Raft!Init
  /\ killed = FALSE /\ applierPc = "loop"
  /\ mu = Nil
  /\ pending = [n \in Index |-> Nil]
  \* MakeRSM restores the snapshot and leaves rsm.lastApplied at 0.
  /\ rsmLastApplied = 0
  /\ applied = log
  /\ call = [c \in Calls |-> Idle]
  /\ closed = {}
  /\ reader = Ready

-----------------------------------------------------------------------------
(* Submit                                                                  *)

\* A call goes from one point of Submit to another.
Step(c, from, to) == call[c].pc = from /\ call' = [call EXCEPT ![c].pc = to]

\* Up to the select: Start and the registration are one critical section.
Submit(c) ==
  LET index == Len(log) + 1 IN
  /\ mu = Nil
  /\ call[c].pc = "idle"
  /\ \/ /\ ~ isLeader
        /\ call' = [call EXCEPT ![c].pc = "returned",
                                ![c].answer = ErrWrongLeader]
        /\ UNCHANGED <<raftVars, pending>>
     \/ /\ index <= MaxIndex
        /\ Raft!Start(entry(index, term, c))
        /\ pending' = [pending EXCEPT ![index] = c]
        /\ call' = [call EXCEPT ![c] = [pc |-> "waiting", index |-> index,
                                        term |-> term, answer |-> Nil]]
  /\ UNCHANGED <<applierVars, mu, rsmLastApplied, applied, closed, reader>>

\* Mutant: whatever comes through the channel is the result.
answerToAny(c, res) == OK(res.val)

\* The answer of a call that has received res from its channel
answerTo(c, res) == IF res.id = c THEN OK(res.val) ELSE ErrWrongLeader

\* The timer wins the select.
SubmitTimeout(c) ==
  /\ Timeouts
  /\ Step(c, "waiting", "timedOut")
  /\ UNCHANGED <<raftVars, applierVars, rsmVars, closed, reader>>

\* The timed-out call takes rsm.mu to log what is pending.
dumpPending(c) ==
  /\ mu = Nil
  /\ call[c].pc = "timedOut"
  /\ call' = [call EXCEPT ![c].pc = "leaving", ![c].answer = ErrWrongLeader]
  /\ UNCHANGED <<raftVars, applierVars, rsmVars, closed, reader>>

\* cleanup has closed the channel.
ReceiveClosed(c) ==
  /\ waiting(c)
  /\ c \in closed
  /\ call' = [call EXCEPT ![c].pc = "leaving", ![c].answer = ErrWrongLeader]
  /\ UNCHANGED <<raftVars, applierVars, rsmVars, closed, reader>>

\* Mutant: no deferred delete.
pendingAsBefore(c) == pending

\* The deferred delete: whatever is pending at the index
pendingWithout(c) == [pending EXCEPT ![call[c].index] = Nil]

Return(c) ==
  /\ mu = Nil
  /\ Step(c, "leaving", "returned")
  /\ pending' = pendingWithout(c)
  /\ UNCHANGED <<raftVars, applierVars, mu, rsmLastApplied, applied, closed,
                 reader>>

-----------------------------------------------------------------------------
(* The reader                                                              *)

\* Takes a message from applyCh.
ReceiveMsg ==
  /\ reader.pc = "ready"
  /\ Raft!Receive
  /\ reader' = [reader EXCEPT !.pc = "received", !.msg = Head(applyCh)]
  /\ UNCHANGED <<applierVars, rsmVars, call, closed>>

\* The first critical section of handleCommand, and DoOp after it, which only
\* the reader calls.  The result of a command is the state it leads to.
handleCommand ==
  LET e == reader.msg.entry IN
  /\ reader.pc = "received" /\ reader.msg.type = "Command"
  /\ mu = Nil
  /\ IF e.index <= rsmLastApplied
     THEN /\ reader' = Ready
          /\ UNCHANGED <<rsmLastApplied, applied>>
     ELSE /\ rsmLastApplied' = e.index
          /\ applied' = Append(applied, e)
          /\ reader' = [reader EXCEPT !.pc = "applied",
                          !.res = [id |-> e.cmd, val |-> applied']]
  /\ UNCHANGED <<raftVars, applierVars, mu, pending, call, closed>>

\* Mutants: Restore does nothing; rsm.mu is not taken.
restoredNothing(data) == applied
handleSnapshotUnlocked ==
  /\ reader.pc = "received" /\ reader.msg.type = "Snapshot"
  /\ applied' = reader.msg.data
  /\ rsmLastApplied' = reader.msg.index
  /\ reader' = [reader EXCEPT !.pc = "outdating"]
  /\ UNCHANGED <<raftVars, applierVars, mu, pending, call, closed>>

restored(data) == data

handleSnapshot ==
  /\ reader.pc = "received" /\ reader.msg.type = "Snapshot"
  /\ mu = Nil
  /\ mu' = "reader"
  /\ applied' = restored(reader.msg.data)
  /\ rsmLastApplied' = reader.msg.index
  /\ reader' = [reader EXCEPT !.pc = "outdating"]
  /\ UNCHANGED <<raftVars, applierVars, pending, call, closed>>

failure == [id |-> Nil, val |-> Nil]

\* The second critical section of handleCommand begins: notifyPending samples
\* State and decides what to send.
notifyPending ==
  LET c == pending[reader.msg.entry.index]
      matches == isLeader /\ reader.res.id = c
  IN
  /\ reader.pc = "applied"
  /\ mu = Nil
  /\ mu' = "reader"
  /\ reader' = IF c = Nil
               THEN [reader EXCEPT !.pc = "outdating"]
               ELSE [reader EXCEPT !.pc = "sending",
                       !.res = IF matches THEN @ ELSE failure]
  /\ UNCHANGED <<raftVars, applierVars, pending, rsmLastApplied, applied, call,
                 closed>>

\* entry.ch <- res: takes place only while the call is in its select.
Send(c, res) ==
  /\ waiting(c)
  /\ call' = [call EXCEPT ![c].pc = "leaving", ![c].answer = answerTo(c, res)]

\* Mutant: the entry stays.
pendingAfterSendKept(index) == pending

pendingAfterSend(index) == [pending EXCEPT ![index] = Nil]

sendResult ==
  LET index == reader.msg.entry.index IN
  /\ reader.pc = "sending"
  /\ Send(pending[index], reader.res)
  /\ pending' = pendingAfterSend(index)
  /\ reader' = [reader EXCEPT !.pc = "outdating"]
  /\ UNCHANGED <<raftVars, applierVars, mu, rsmLastApplied, applied, closed>>

\* Mutant: only a loss of leadership.
outdatedIfNotLeader(n, index) == ~ isLeader

\* The call at n cannot succeed any more, as far as State tells.
outdated(n, index) ==
  \/ n <= index
  \/ ~ isLeader
  \/ call[pending[n]].term # term

\* notifyOutdated samples State, and then wakes calls in the order of the map.
notifyOutdated ==
  /\ reader.pc = "outdating"
  /\ reader' = [reader EXCEPT !.pc = "waking",
       !.todo = {n \in Index : pending[n] # Nil /\ outdated(n, rsmLastApplied)}]
  /\ UNCHANGED <<raftVars, applierVars, rsmVars, call, closed>>

sendOutdated(n) ==
  /\ reader.pc = "waking" /\ n \in reader.todo
  /\ Send(pending[n], failure)
  /\ pending' = pendingAfterSend(n)
  /\ reader' = [reader EXCEPT !.todo = @ \ {n}]
  /\ UNCHANGED <<raftVars, applierVars, mu, rsmLastApplied, applied, closed>>

\* The end of a message: checkSnapshot after a command, and the unlock.
checkSnapshot ==
  /\ reader.pc = "waking" /\ reader.todo = {}
  /\ mu' = Nil
  /\ reader' = Ready
  /\ IF /\ reader.msg.type = "Command"
        /\ MaxRaftState # -1
        /\ Len(log) - lastIncludedIndex + 1 >= MaxRaftState
        /\ rsmLastApplied > lastIncludedIndex
     THEN Raft!Snapshot(rsmLastApplied)
     ELSE UNCHANGED raftVars
  /\ UNCHANGED <<applierVars, pending, rsmLastApplied, applied, call, closed>>

\* Mutant: a new map, and nobody is woken.
closedAsBefore == closed

closedWithPending == closed \cup (Range(pending) \ {Nil})

\* applyCh is closed and drained.
cleanup ==
  /\ reader.pc = "ready"
  /\ applierPc = "ended" /\ applyCh = <<>>
  /\ mu = Nil
  /\ closed' = closedWithPending
  /\ pending' = [n \in Index |-> Nil]
  /\ reader' = [reader EXCEPT !.pc = "ended"]
  /\ UNCHANGED <<raftVars, applierVars, mu, rsmLastApplied, applied, call>>

-----------------------------------------------------------------------------
(* The applier of Raft, with its condition variable                        *)

\* Mutant: commits and Kill do not signal.
unsignalled(pc) == pc

\* Signal on applyCond
signalled(pc) == IF pc = "waits" THEN "woken" ELSE pc

\* for !rf.killed(): tested without rf.mu, after all that was taken is sent
applierTest ==
  /\ applierPc = "loop"
  /\ applyCh = <<>>
  /\ applierPc' = IF killed THEN "ended" ELSE "tested"
  /\ UNCHANGED <<raftVars, killed, rsmVars, call, closed, reader>>

applierTake ==
  /\ applierPc \in {"tested", "woken"}
  /\ applierPc = "woken" => ~ killed
  /\ Raft!applier
  /\ applierPc' = "loop"
  /\ UNCHANGED <<killed, rsmVars, call, closed, reader>>


\* An applier that finds nothing to take, having just been woken or not
afterWait == IF applierPc = "woken" /\ killed THEN "ended" ELSE "waits"

applierWait ==
  /\ \/ applierPc = "tested" /\ lastApplied >= commitIndex
     \/ applierPc = "woken" /\ (killed \/ lastApplied >= commitIndex)
  /\ applierPc' = afterWait
  /\ UNCHANGED <<raftVars, killed, rsmVars, call, closed, reader>>

\* Without rf.mu: it may fall between the applier's test and its Wait.
Kill ==
  /\ Kills /\ ~ killed
  /\ killed' = TRUE
  /\ applierPc' = signalled(applierPc)
  /\ UNCHANGED <<raftVars, rsmVars, call, closed, reader>>

-----------------------------------------------------------------------------
(* What the other nodes do to this node's Raft                             *)

\* The logs another leader may give this node in term t: of what is there,
\* entries of that leader, and entries this server's calls have started.
logsOf(t) ==
  LET started == {entry(call[c].index, call[c].term, c) :
                    c \in {d \in Calls : call[d].index > 0}}
      known == Range(log) \cup started \cup {entry(n, t, Other) : n \in Index}
  IN  UNION {{l \in [1 .. m -> known] : \A n \in 1 .. m :
                l[n].index = n /\ (n > 1 => l[n - 1].term <= l[n].term)} :
             m \in 0 .. MaxIndex}

unlessCommitted == IF commitIndex' > commitIndex THEN signalled(applierPc)
                   ELSE applierPc

others == <<killed, rsmVars, call, closed, reader>>

NewTerm ==
  /\ term' \in term + 1 .. MaxTerm
  /\ role' = "Follower"
  /\ Raft!NewTerm
  /\ UNCHANGED <<applierPc, others>>

StartElection ==
  /\ term < MaxTerm
  /\ Raft!StartElection
  /\ UNCHANGED <<applierPc, others>>

Win ==
  /\ Raft!Win
  /\ UNCHANGED <<applierPc, others>>

Follow ==
  /\ term' \in term .. MaxTerm
  /\ log' \in logsOf(term')
  /\ role' = "Follower"
  /\ commitIndex' \in commitIndex .. Len(log')
  /\ UNCHANGED <<lastIncludedIndex, lastApplied, applyCh>>
  /\ Raft!Follow
  /\ applierPc' = unlessCommitted
  /\ UNCHANGED others

Install ==
  /\ term' \in term .. MaxTerm
  /\ log' \in logsOf(term')
  /\ role' = "Follower"
  /\ lastIncludedIndex' \in lastIncludedIndex + 1 .. Len(log')
  /\ commitIndex' = IF lastIncludedIndex' > commitIndex THEN lastIncludedIndex'
                    ELSE commitIndex
  /\ UNCHANGED <<lastApplied, applyCh>>
  /\ Raft!Install
  /\ applierPc' = signalled(applierPc)
  /\ UNCHANGED others

Commit ==
  /\ commitIndex' \in commitIndex + 1 .. Len(log)
  /\ Raft!Commit
  /\ applierPc' = unlessCommitted
  /\ UNCHANGED others

-----------------------------------------------------------------------------
CallStep(c) == dumpPending(c) \/ ReceiveClosed(c) \/ Return(c)

ReaderStep ==
  \/ ReceiveMsg
  \/ handleCommand \/ handleSnapshot
  \/ notifyPending \/ sendResult
  \/ notifyOutdated \/ (\E n \in Index : sendOutdated(n))
  \/ checkSnapshot
  \/ cleanup

ApplierStep == applierTest \/ applierTake \/ applierWait

RaftStep == NewTerm \/ StartElection \/ Win \/ Follow \/ Install \/ Commit

Next ==
  \/ \E c \in Calls : Submit(c) \/ SubmitTimeout(c) \/ CallStep(c)
  \/ ReaderStep
  \/ ApplierStep
  \/ Kill
  \/ RaftStep

Spec == Init /\ [][Next]_vars

\* Goroutines that can run do run, timers fire.  Nothing is assumed of the
\* other nodes.
Fairness ==
  /\ WF_vars(ReaderStep)
  /\ WF_vars(ApplierStep)
  /\ \A c \in Calls : WF_vars(CallStep(c)) /\ WF_vars(SubmitTimeout(c))

FairSpec == Spec /\ Fairness

-----------------------------------------------------------------------------
(* Properties                                                              *)

\* Everything has its type; only the reader ever holds rsm.mu between steps,
\* and exactly while it wakes calls.
TypeOK ==
  /\ term \in 0 .. MaxTerm /\ role \in {"Follower", "Candidate", "Leader"}
  /\ log \in Seq(Entry)
  /\ {commitIndex, lastIncludedIndex, lastApplied, rsmLastApplied} \subseteq
       0 .. Len(log)
  /\ applied \in Seq(Entry)
  /\ pending \in [Index -> Calls \cup {Nil}]
  /\ closed \subseteq Calls
  /\ mu = IF reader.pc \in {"sending", "outdating", "waking"} THEN "reader"
          ELSE Nil

\* A Submit that returns OK returns the result of its own command, executed
\* once, at the index Start gave it, after exactly the committed commands before
\* it: whatever the node lost, regained, skipped by a snapshot or replayed.
OwnResult ==
  \A c \in Calls : call[c].answer \notin {Nil, ErrWrongLeader} =>
    /\ call[c].index <= commitIndex
    /\ log[call[c].index].cmd = c
    /\ call[c].answer.val = SubSeq(log, 1, call[c].index)

\* The state machine has executed the committed commands in order, each once,
\* also after a restart (rsm.lastApplied is 0, the state is the snapshot's) and
\* when a snapshot overtakes commands.
AppliedIsCommitted ==
  /\ Len(applied) <= commitIndex
  /\ applied = SubSeq(log, 1, Len(applied))
  /\ rsmLastApplied # 0 => rsmLastApplied = Len(applied)

\* Another call has been given the index of c.
shared(c) == \E d \in Calls \ {c} : call[d].index = call[c].index

\* No channel in pending belongs to a Submit that has returned: the reader would
\* wait for ever to send on it.
NoStalePending ==
  \A n \in Index : pending[n] # Nil => call[pending[n]].pc # "returned"

\* A waiting Submit can still be woken: it is in pending or its channel is
\* closed, unless its index was given to another Submit as well.
WaitingIsPending ==
  \A c \in Calls : waiting(c) =>
    pending[call[c].index] = c \/ c \in closed \/ shared(c)

\* Whoever waits at an index that has been applied has been told: Start and the
\* registration in pending exclude the reader, so that no command is applied
\* between the two.
AppliedIsAnswered ==
  \A c \in Calls : reader.pc = "ready" /\ waiting(c) =>
    rsmLastApplied < call[c].index \/ shared(c)

\* Every Submit returns, at the latest when its timer fires.
EverySubmitReturns == \A c \in Calls : waiting(c) ~> call[c].pc = "returned"

\* The reader never waits for ever to send: it gets through every message.
ReaderProgress == reader.pc # "ready" ~> reader.pc \in {"ready", "ended"}

\* Whatever is committed is applied, unless Raft is killed: no signal to the
\* applier is lost.
CommittedIsApplied ==
  \A n \in Index : commitIndex >= n ~> Len(applied) >= n \/ killed


=============================================================================
