---------------------------- MODULE RaftElection ----------------------------
(***************************************************************************)
(* What the votes of Raft are for: a term has one leader.                  *)
(***************************************************************************)
EXTENDS Raft

\* The leaders of every term, with the former ones whose requests are around
leaderships ==
       {<<currentTerm[i], i>> : i \in {j \in Node : state[j] = "Leader"}}
  \cup {<<m.term, m.from>> : m \in
          {x \in msgs : x.type \in {"AppendEntries", "InstallSnapshot"}}}

\* A term has at most one leader, counting former leaders whose requests are
\* still around: the counter of requestVoteFromPeer reaches a majority for one
\* candidate only, whatever is persisted, lost, late or restarted.
ElectionSafety ==
  \A x, y \in leaderships : x[1] = y[1] => x[2] = y[2]

VoteStep(i) ==
  /\ currentTerm'[i] >= currentTerm[i]
  /\ currentTerm'[i] = currentTerm[i] /\ votedFor[i] # Nil
       => votedFor'[i] = votedFor[i]

\* A node never takes back or moves a vote within a term, and never returns to
\* an earlier term, across restarts and crashes inside becomeCandidate and
\* InstallSnapshot too: what it answered is on disk before the answer leaves.
VoteOnce == [][\A i \in Node : VoteStep(i)]_vars

\* Node v has voted for c in term t: for itself by starting an election, for
\* another by a reply.
granted(v, t, c) ==
  \/ v = c /\ \E m \in msgs : m.type = "RequestVote" /\ m.from = c /\ m.term = t
  \/ \E m \in msgs : /\ m.type = "RequestVoteReply" /\ m.voteGranted
                     /\ m.from = v /\ m.to = c /\ m.term = t

elected(t, c) == Cardinality({v \in Node : granted(v, t, c)}) >= Majority

terms == {m.term : m \in msgs}

\* No vote is forgotten: votedFor names the node voted for as long as the term
\* lasts, and no node has voted for two candidates of a term.
VotesKept ==
  \A t \in terms : \A v, c \in Node : granted(v, t, c) =>
    /\ t <= currentTerm[v]
    /\ t = currentTerm[v] => votedFor[v] = c
    /\ \A d \in Node : granted(v, t, d) => c = d

\* What a candidate has counted, it was given, in its present term.
VotesCounted ==
  \A i \in Node : state[i] = "Candidate" =>
    \A v \in grantedVotes[i] : granted(v, currentTerm[i], i)

\* Whoever leads or has led a term has the votes of a majority in it: the
\* inductive strengthening of ElectionSafety.
ElectionInv ==
  /\ VotesKept
  /\ VotesCounted
  /\ \A x \in leaderships : elected(x[1], x[2])

=============================================================================
