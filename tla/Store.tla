-------------------------------- MODULE Store --------------------------------
(***************************************************************************)
(* The state machine of a replica (internal/kvserver/store.go): a map from *)
(* keys to values with versions, as a function whose domain is the set of  *)
(* keys present, and what its operations make of it.                       *)
(***************************************************************************)
EXTENDS Integers, Sequences

\* The empty string; other values are non-empty sequences.
empty == <<>>

NewStore == [k \in {} |-> 0]

\* An op is [type |-> "Get", key] or [type |-> "Put", key, value, version].
present(kv, key) == key \in DOMAIN kv

\* The version a Put must name; 0 for a key that is not there
versionOf(kv, key) == IF present(kv, key) THEN kv[key].version ELSE 0

\* Mutant: any version will do.
matchesAny(kv, op) == TRUE

matches(kv, op) == op.version = versionOf(kv, op.key)

write(kv, key, value, version) ==
  [k \in DOMAIN kv \cup {key} |->
     IF k = key THEN [value |-> value, version |-> version] ELSE kv[k]]

\* The map after DoOp
DoOp(kv, op) ==
  IF op.type = "Put" /\ matches(kv, op)
  THEN write(kv, op.key, op.value, versionOf(kv, op.key) + 1)
  ELSE kv

\* The reply of DoOp
replyOf(kv, op) ==
  LET err(e) == [err |-> e, value |-> empty, version |-> 0] IN
  CASE op.type = "Get" /\ ~ present(kv, op.key) -> err("ErrNoKey")
    [] op.type = "Get" /\ present(kv, op.key) ->
         [err |-> "OK", value |-> kv[op.key].value,
          version |-> kv[op.key].version]
    [] op.type = "Put" /\ matches(kv, op) -> err("OK")
    [] op.type = "Put" /\ ~ matches(kv, op) -> err("ErrVersion")

\* The bytes of a snapshot, as a sequence that is empty when there is none: the
\* encoding of an empty map is not empty.
Snapshot(kv) == <<kv>>

\* Mutant: keys that are there are kept.
decodedIntoMissing(kv, data) ==
  [k \in DOMAIN kv \cup DOMAIN data |->
     IF k \in DOMAIN kv THEN kv[k] ELSE data[k]]

\* Decodes a map into the one that is there: its keys are added or replaced,
\* the others stay.
decodedInto(kv, data) ==
  [k \in DOMAIN kv \cup DOMAIN data |->
     IF k \in DOMAIN data THEN data[k] ELSE kv[k]]

Restore(kv, bytes) ==
  IF bytes = <<>> THEN NewStore ELSE decodedInto(kv, bytes[1])

=============================================================================
