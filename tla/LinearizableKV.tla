--------------------------- MODULE LinearizableKV ---------------------------
(***************************************************************************)
(* What the clients are promised (README: "linearizable consistency"): the *)
(* sequential store of internal/testutils/kvmodel.go, each operation of    *)
(* which takes effect at one moment between its call and its return.       *)
(*                                                                         *)
(* Only a Put that succeeds changes the store, so only its moment is a     *)
(* step (Effect); any other operation must be answered as the store was at *)
(* some moment of the call, which seen collects.                           *)
(***************************************************************************)
EXTENDS Integers

CONSTANTS Client, Nil

VARIABLES
  store,       \* key -> [value, version]; version 0: no such key
  op,          \* client -> the operation it has called, or Nil
  effect,      \* client -> has its Put been executed?
  seen,        \* client -> what its key has been since the call
  answer,      \* client -> the answer to its last call, if it has returned
  definite     \* client -> is an ErrVersion to say that its Put has not been
               \* executed?  Given from outside.

vars == <<store, op, effect, seen, answer>>

Init ==
  /\ \A k \in DOMAIN store : store[k].version = 0
  /\ op = [c \in Client |-> Nil]
  /\ effect = [c \in Client |-> FALSE]
  /\ seen = [c \in Client |-> {}]
  /\ answer = [c \in Client |-> Nil]

Invoke(c) ==
  /\ op[c] = Nil
  /\ op'[c] # Nil
  /\ op' = [op EXCEPT ![c] = op'[c]]
  /\ seen' = [seen EXCEPT ![c] = {store[op'[c].key]}]
  /\ answer' = [answer EXCEPT ![c] = Nil]
  /\ UNCHANGED <<store, effect>>

Effect(c) ==
  LET new == [value |-> op[c].value, version |-> op[c].version + 1] IN
  /\ op[c] # Nil
  /\ op[c].type = "Put" /\ ~ effect[c]
  /\ store[op[c].key].version = op[c].version
  /\ store' = [store EXCEPT ![op[c].key] = new]
  /\ effect' = [effect EXCEPT ![c] = TRUE]
  /\ seen' = [d \in Client |->
       IF op[d] # Nil /\ op[d].key = op[c].key THEN seen[d] \cup {new}
       ELSE seen[d]]
  /\ UNCHANGED <<op, answer>>

\* KvModel.Step: is a an answer the sequential store could give?
legal(c, a) ==
  LET refused == \E s \in seen[c] : s.version # op[c].version IN
  IF op[c].type = "Get"
  THEN \/ a.err = "OK" /\ [value |-> a.value, version |-> a.version] \in seen[c]
       \/ a.err = "ErrNoKey" /\ \E s \in seen[c] : s.version = 0
  ELSE \/ a.err = "OK" /\ effect[c]
       \/ a.err = "ErrVersion" /\ refused /\ (definite[c] => ~ effect[c])
       \/ a.err = "ErrMaybe" /\ (effect[c] \/ refused)

Return(c) ==
  /\ op[c] # Nil
  /\ op' = [op EXCEPT ![c] = Nil]
  /\ legal(c, answer'[c])
  /\ answer' = [answer EXCEPT ![c] = answer'[c]]
  /\ effect' = [effect EXCEPT ![c] = FALSE]
  /\ seen' = [seen EXCEPT ![c] = {}]
  /\ UNCHANGED store

Next == \E c \in Client : Invoke(c) \/ Effect(c) \/ Return(c)

Spec == Init /\ [][Next]_vars

=============================================================================
