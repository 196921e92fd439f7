-------------------------------- MODULE Clerk --------------------------------
(***************************************************************************)
(* The clients of the store: the clerks of pkg/clerk (Go) and              *)
(* kvraft-client-java, which send an operation to one server after another *)
(* until one of them has executed it, and the gRPC front end they talk to  *)
(* (internal/kvserver/grpc.go).  A Go clerk serves one call at a time; the *)
(* Java clerk serves many, which share its lastLeader.                     *)
(*                                                                         *)
(* The servers are seen as RSM shows them: the leader starts a command     *)
(* that a call brings, what is started may be committed later, whether or  *)
(* not its call still waits for it, and Submit answers with the result or  *)
(* with ErrWrongLeader and the leader the server knows of.                 *)
(***************************************************************************)
EXTENDS Store, FiniteSets

CONSTANTS
  GoClients,   \* clients with a Go clerk of their own
  JavaClients, \* threads that call the one Java clerk
  Java,        \* that clerk
  Nil,
  N,           \* servers
  Keys,
  MaxFaults,   \* crashes, losses of leadership, timeouts and failed RPCs
  MaxEvents    \* calls and faults together

Client == GoClients \cup JavaClients
Server == 0 .. N - 1

ASSUME ClerkAssumption ==
  /\ N \in Nat \ {0}
  /\ MaxFaults \in Nat /\ MaxEvents \in Nat
  /\ GoClients \cap JavaClients = {}
  /\ Java \notin Client

VARIABLES
  leader,      \* the server that leads, or -1
  epoch,       \* leaders so far
  currentLeader, \* server -> the leader it knows of, or -1
  down,        \* servers that have crashed
  faults,      \* faults so far
  kv,          \* the store, after all that is committed
  started,     \* commands that are in the log of some server
  lastLeader,  \* clerk -> the server that answered last
  srv,         \* client -> the server its call talks to
  processed,   \* client -> potentiallyProcessed; ~ firstAttempt
  command,     \* client -> the command Submit waits for at srv, or Nil
  result,      \* client -> the result of command, or Nil
  attempts,    \* client -> commands its call has started
  calls,       \* calls so far
  op, effect, seen, answer,  \* the calls, as LinearizableKV sees them
  misled       \* clients told ErrWrongLeader of a command that was started

clusterVars == <<leader, epoch, currentLeader, down>>
storeVars == <<kv, effect, seen>>
clerkVars == <<lastLeader, srv, processed, command, result, attempts>>
callVars == <<calls, op, answer>>
vars == <<clusterVars, faults, storeVars, started, clerkVars, callVars, misled>>

\* What a client can tell of a key
contents(map, k) ==
  IF present(map, k) THEN map[k] ELSE [value |-> empty, version |-> 0]

clerk(c) == IF c \in JavaClients THEN Java ELSE c

Init ==
  /\ leader = 0 /\ epoch = 1 /\ down = {} /\ faults = 0
  /\ currentLeader \in [Server -> {-1, 0}] /\ currentLeader[0] = 0
  /\ kv = NewStore /\ started = {}
  /\ lastLeader = [k \in GoClients \cup {Java} |-> 0]
  /\ srv = [c \in Client |-> 0]
  /\ processed = [c \in Client |-> FALSE]
  /\ command = [c \in Client |-> Nil]
  /\ result = [c \in Client |-> Nil]
  /\ attempts = [c \in Client |-> 0]
  /\ calls = 0
  /\ op = [c \in Client |-> Nil]
  /\ effect = [c \in Client |-> FALSE]
  /\ seen = [c \in Client |-> {}]
  /\ answer = [c \in Client |-> Nil]
  /\ misled = {}

-----------------------------------------------------------------------------
(* The clerks                                                              *)

\* The operations a client calls: a Put names a version that its key has or
\* has had, and writes a value that tells this call from all others.
ops ==
  [type : {"Get"}, key : Keys] \cup
  UNION {[type : {"Put"}, key : {k}, value : {<<calls + 1>>},
          version : 0 .. versionOf(kv, k)] : k \in Keys}

\* Get and Put begin.
Invoke(c, o) ==
  /\ op[c] = Nil /\ calls + faults < MaxEvents
  /\ calls' = calls + 1
  /\ op' = [op EXCEPT ![c] = o]
  /\ seen' = [seen EXCEPT ![c] = {contents(kv, o.key)}]
  /\ answer' = [answer EXCEPT ![c] = Nil]
  /\ srv' = [srv EXCEPT ![c] = lastLeader[clerk(c)]]
  /\ UNCHANGED <<clusterVars, faults, kv, effect, started,
                 lastLeader, processed, command, result, attempts, misled>>


\* Mutant: the last server has a next one.
nextServerBeyond(s, hint) ==
  IF hint \in Server /\ hint # s THEN hint ELSE s + 1

\* Where the Go clerk turns; hint is -1 after a failed RPC.
nextServer(s, hint) ==
  IF hint \in Server /\ hint # s THEN hint ELSE (s + 1) % N

\* Where the Java clerk turns, after an answer and after a failed RPC
javaNextServer(s, hint) ==
  IF hint >= 0 /\ hint < N /\ hint # s THEN hint ELSE (s + 1) % N

pbStatusToErr(status) ==
  CASE status = "OK" -> "OK"
    [] status = "ERR_NO_KEY" -> "ErrNoKey"
    [] status = "ERR_VERSION" -> "ErrVersion"
    [] status = "ERR_MAYBE" -> "ErrMaybe"
    [] OTHER -> "ErrWrongLeader"

answered(resp, err) ==
  [err |-> err, value |-> resp.value, version |-> resp.version]

\* What Get of the Go clerk returns
getAnswer(resp) == answered(resp, pbStatusToErr(resp.status))

\* Mutant: ErrVersion, whatever became of the attempts before.
putAnswerForCertain(c, resp) == answered(resp, pbStatusToErr(resp.status))

\* What Put of the Go clerk returns
putAnswer(c, resp) ==
  LET err == pbStatusToErr(resp.status) IN
  answered(resp, IF err = "ErrVersion" /\ processed[c] THEN "ErrMaybe" ELSE err)

\* Mutant: ERR_VERSION, whatever became of the attempts before.
maybeStatusNever(c, resp) == resp

\* The response the Java clerk completes its future with
maybeStatus(c, resp) ==
  IF resp.status = "ERR_VERSION" /\ processed[c]
  THEN [resp EXCEPT !.status = "ERR_MAYBE"]
  ELSE resp

\* What the caller of the Java clerk gets: a result, or an exception that
\* holds the status, under the name the Go clerk has for it.
javaAnswer(c, resp) ==
  LET r == maybeStatus(c, resp) IN answered(r, pbStatusToErr(r.status))

answerFor(c, resp) ==
  CASE c \in JavaClients -> javaAnswer(c, resp)
    [] c \in GoClients /\ op[c].type = "Get" -> getAnswer(resp)
    [] c \in GoClients /\ op[c].type = "Put" -> putAnswer(c, resp)

\* The call returns, with the response of the server it talks to.
Finish(c, resp) ==
  /\ answer' = [answer EXCEPT ![c] = answerFor(c, resp)]
  /\ lastLeader' = [lastLeader EXCEPT ![clerk(c)] = srv[c]]
  /\ op' = [op EXCEPT ![c] = Nil]
  /\ effect' = [effect EXCEPT ![c] = FALSE]
  /\ seen' = [seen EXCEPT ![c] = {}]
  /\ command' = [command EXCEPT ![c] = Nil]
  /\ result' = [result EXCEPT ![c] = Nil]
  /\ srv' = [srv EXCEPT ![c] = 0]
  /\ processed' = [processed EXCEPT ![c] = FALSE]
  /\ attempts' = [attempts EXCEPT ![c] = 0]
  /\ misled' = misled \ {c}
  /\ UNCHANGED <<clusterVars, kv, started, calls>>

\* Mutant: a failed RPC leaves the attempt the first one.
firstAttemptStill(c, failed) == processed[c]

\* An attempt has not answered the call: has it been processed, perhaps?
potentiallyProcessed(c, failed) == processed[c] \/ failed

\* The call goes on to another server, after ErrWrongLeader with a hint or
\* after a failed RPC.
Retry(c, failed, hint) ==
  /\ srv' = [srv EXCEPT ![c] = IF c \in JavaClients
                               THEN javaNextServer(@, hint)
                               ELSE nextServer(@, hint)]
  /\ processed' = [processed EXCEPT ![c] = potentiallyProcessed(c, failed)]
  /\ command' = [command EXCEPT ![c] = Nil]
  /\ result' = [result EXCEPT ![c] = Nil]
  /\ UNCHANGED <<clusterVars, storeVars, lastLeader, callVars>>

WrongLeader(c, hint) == Retry(c, FALSE, hint)
RpcError(c) == Retry(c, TRUE, -1)

-----------------------------------------------------------------------------
(* A server and the calls that talk to it                                  *)

calling(c) == op[c] # Nil /\ command[c] = Nil
waits(c) == op[c] # Nil /\ command[c] # Nil
up(s) == s \notin down

\* Mutant: a key that is not there is no case of its own.
errToStatusWithoutNoKey(e) ==
  CASE e = "OK" -> "OK"
    [] e = "ErrVersion" -> "ERR_VERSION"
    [] OTHER -> "STATUS_UNSPECIFIED"

errToStatus(e) ==
  CASE e = "OK" -> "OK"
    [] e = "ErrNoKey" -> "ERR_NO_KEY"
    [] e = "ErrVersion" -> "ERR_VERSION"
    [] e = "ErrWrongLeader" -> "ERR_WRONG_LEADER"
    [] e = "ErrMaybe" -> "ERR_MAYBE"
    [] OTHER -> "STATUS_UNSPECIFIED"

\* What KVService makes of the reply that Submit returns
response(reply) ==
  [status |-> errToStatus(reply.err), value |-> reply.value,
   version |-> reply.version]

\* The hint that goes with ErrWrongLeader: what Submit read from Raft
leaderHint(s) == currentLeader[s]

newCommand(c) ==
  [client |-> c, attempt |-> attempts[c] + 1,
   epoch |-> epoch, op |-> op[c]]

\* KVService.Get and Put at the leader: Submit starts the command.
StartCommand(c) ==
  /\ calling(c) /\ srv[c] = leader
  /\ command' = [command EXCEPT ![c] = newCommand(c)]
  /\ started' = started \cup {newCommand(c)}
  /\ attempts' = [attempts EXCEPT ![c] = @ + 1]
  /\ UNCHANGED <<clusterVars, faults, storeVars, lastLeader, srv, processed,
                 result, callVars, misled>>

\* At a server that does not lead
Reject(c) ==
  /\ calling(c) /\ up(srv[c]) /\ srv[c] # leader
  /\ WrongLeader(c, leaderHint(srv[c]))
  /\ UNCHANGED <<faults, started, attempts, misled>>

\* Submit has the result, and KVService passes it on.
Answer(c) ==
  /\ waits(c) /\ srv[c] = leader /\ result[c] # Nil
  /\ Finish(c, response(result[c]))
  /\ UNCHANGED faults

\* Submit finds that the command may be lost: the server does not lead, or
\* not in the term in which it started the command.
GiveUp(c) ==
  /\ waits(c) /\ up(srv[c])
  /\ srv[c] # leader \/ command[c].epoch # epoch
  /\ WrongLeader(c, leaderHint(srv[c]))
  /\ misled' = misled \cup {c}
  /\ UNCHANGED <<faults, started, attempts>>

\* The server is down.
CallDown(c) ==
  /\ op[c] # Nil /\ srv[c] \in down
  /\ RpcError(c)
  /\ UNCHANGED <<faults, started, attempts, misled>>

-----------------------------------------------------------------------------
(* Faults                                                                  *)

fault ==
  /\ faults < MaxFaults /\ calls + faults < MaxEvents
  /\ faults' = faults + 1

\* Submit gives up although its server leads.
SubmitTimeout(c) ==
  /\ fault
  /\ waits(c) /\ srv[c] = leader
  /\ WrongLeader(c, leaderHint(srv[c]))
  /\ misled' = misled \cup {c}
  /\ UNCHANGED <<started, attempts>>

\* The request or its answer is lost or late; a request that is late may still
\* start its command.
LoseCall(c) ==
  /\ fault
  /\ op[c] # Nil /\ up(srv[c])
  /\ RpcError(c)
  /\ UNCHANGED misled
  /\ \/ UNCHANGED <<started, attempts>>
     \/ /\ calling(c) /\ srv[c] = leader
        /\ started' = started \cup {newCommand(c)}
        /\ attempts' = [attempts EXCEPT ![c] = @ + 1]

\* A minority of the servers may crash.
Crash(s) ==
  /\ fault
  /\ up(s) /\ 2 * (Cardinality(down) + 1) < N
  /\ down' = down \cup {s}
  /\ leader' = IF leader = s THEN -1 ELSE leader
  /\ UNCHANGED <<epoch, currentLeader, storeVars, started, clerkVars, callVars,
                 misled>>

StepDown ==
  /\ fault
  /\ leader # -1
  /\ leader' = -1
  /\ UNCHANGED <<epoch, currentLeader, down, storeVars, started, clerkVars,
                 callVars, misled>>

-----------------------------------------------------------------------------
(* What the servers do among themselves                                    *)

learn(s, l) == currentLeader' = [currentLeader EXCEPT ![s] = l]

\* becomeCandidate forgets the leader.
Campaign(s) ==
  /\ leader = -1 /\ up(s) /\ currentLeader[s] # -1
  /\ learn(s, -1)
  /\ UNCHANGED <<leader, epoch, down, faults, storeVars, started, clerkVars,
                 callVars, misled>>

Elect(s) ==
  /\ leader = -1 /\ up(s)
  /\ leader' = s
  /\ epoch' = epoch + 1
  /\ learn(s, s)
  /\ UNCHANGED <<down, faults, storeVars, started, clerkVars, callVars, misled>>

\* AppendEntries of the leader arrives.
LearnLeader(s) ==
  /\ leader # -1 /\ up(s) /\ currentLeader[s] # leader
  /\ learn(s, leader)
  /\ UNCHANGED <<leader, epoch, down, faults, storeVars, started, clerkVars,
                 callVars, misled>>

\* A command is committed and applied; a call that waits for it hears of it.
Commit(m) ==
  LET map == DoOp(kv, m.op)
      c == m.client
      executes == m.op.type = "Put" /\ matches(kv, m.op)
  IN
  /\ leader # -1 /\ m \in started
  /\ started' = started \ {m}
  /\ kv' = map
  /\ effect' = [effect EXCEPT ![c] = @ \/ (executes /\ op[c] = m.op)]
  /\ seen' = [d \in Client |->
       IF executes /\ op[d] # Nil /\ op[d].key = m.op.key
       THEN seen[d] \cup {contents(map, m.op.key)} ELSE seen[d]]
  /\ result' = IF command[c] = m
               THEN [result EXCEPT ![c] = replyOf(kv, m.op)] ELSE result
  /\ UNCHANGED <<clusterVars, faults, lastLeader, srv, processed, command,
                 attempts, callVars, misled>>

-----------------------------------------------------------------------------
ClientStep(c) ==
  StartCommand(c) \/ Reject(c) \/ Answer(c) \/ GiveUp(c) \/ CallDown(c)

Next ==
  \/ \E c \in Client :
       \/ \E o \in ops : Invoke(c, o)
       \/ ClientStep(c)
       \/ SubmitTimeout(c)
       \/ LoseCall(c)
  \/ \E s \in Server : Crash(s) \/ Campaign(s) \/ Elect(s) \/ LearnLeader(s)
  \/ StepDown
  \/ \E m \in started : Commit(m)

Spec == Init /\ [][Next]_vars

\* A call goes on, what the present leader has started is committed, a leader
\* is elected and makes itself known.
Fairness ==
  /\ \A c \in Client : WF_vars(ClientStep(c))
  /\ WF_vars(\E m \in started : m.epoch = epoch /\ Commit(m))
  /\ WF_vars(\E s \in Server : Elect(s))
  /\ WF_vars(\E s \in Server : LearnLeader(s))

FairSpec == Spec /\ Fairness

-----------------------------------------------------------------------------
(* Correctness                                                             *)

\* The servers, commands and calls are what they should be.
TypeOK ==
  /\ leader \in Server \cup {-1} /\ leader \notin down
  /\ epoch \in Nat /\ faults \in 0 .. MaxFaults
  /\ currentLeader \in [Server -> Server \cup {-1}]
  /\ down \subseteq Server
  /\ srv \in [Client -> Server]
  /\ lastLeader \in [GoClients \cup {Java} -> Server]
  /\ processed \in [Client -> BOOLEAN] /\ effect \in [Client -> BOOLEAN]
  /\ \A c \in Client : result[c] # Nil => command[c] # Nil
  /\ \A c \in Client : command[c] # Nil =>
       command[c].op = op[c] /\ (command[c] \in started <=> result[c] = Nil)

\* The calls as their clients see them
store == [k \in Keys |-> contents(kv, k)]
KV == INSTANCE LinearizableKV WITH definite <- [c \in Client |-> TRUE]
KVUnlessMisled ==
  INSTANCE LinearizableKV WITH definite <- [c \in Client |-> c \notin misled]

\* Every call takes effect at one moment between its invocation and its
\* return, and is answered accordingly; ErrVersion says that the Put has not
\* been executed, as it does in the model the tests check histories with.
Linearizable == KV!Spec

\* The same for every call but those a server has told ErrWrongLeader although
\* it had started their command: to them ErrVersion says no more than ErrMaybe
\* would.  All else holds for them too.
LinearizableUnlessMisled == KVUnlessMisled!Spec


=============================================================================
