--------------------------- MODULE RaftProperties ---------------------------
(***************************************************************************)
(* What the workers of RaftWorker must do together: the safety of elections,*)
(* logs and commits, the progress of a leader, and the replicated log that  *)
(* the users of one stable leader see.                                      *)
(***************************************************************************)
EXTENDS RaftWorker

-----------------------------------------------------------------------------
(* Safety *)

\* No voter, reloaded or not, grants its vote to two candidates of one term.
OneVotePerTerm ==
    \A a, b \in ballots : a.term = b.term /\ a.voter = b.voter => a.candidate = b.candidate

\* No two workers ever win the same term, not even one after the other, with
\* candidacies ended by reloads, stale requests and lost answers.
ElectionSafety ==
    \A a, b \in elected : a.term = b.term => a.leader = b.leader

\* Logs that hold an entry of the same term at the same index agree up to it:
\* the test of prev_log_term and the overwriting of the last entry keep it so.
LogMatching ==
    \A i, j \in Server : \A k \in 1 .. Smaller(Len(log[i]), Len(log[j])) :
        log[i][k].term = log[j][k].term => \A n \in 1 .. k : log[i][n] = log[j][n]

\* What a leader counts as replicated on a peer of its term is there: answers
\* to duplicated, reordered and timed-out calls never credit more.
MatchIndexSound ==
    \A i \in Server, p \in Server : role[i] = "Leader" /\ i # p /\ current_term[p] = current_term[i] =>
        /\ match_indices[i][p] <= Smaller(Len(log[i]), Len(log[p]))
        /\ \A n \in 1 .. match_indices[i][p] : log[p][n] = log[i][n]

\* A follower takes the commit index from a message that need not carry the
\* entries: the index still lies within its log, and what it applied does too.
CommitWithinLog ==
    \A i \in Server : commit_index[i] <= Len(log[i]) /\ last_applied[i] <= Len(log[i])

\* Each AppendEntries call of a leader ends once: as long as a peer is marked
\* in flight there is exactly one call, answer or error that will unmark it,
\* and a peer is never called twice at a time.
CallsTo(i, p) ==
    {m \in rpcs : m.kind = "AppendEntries" /\ m.from = i /\ m.to = p /\ m.live}
        \cup {m \in rpcs : m.kind \in {"AppendEntriesAnswer", "AppendEntriesError"} /\ m.from = p /\ m.to = i}
OneCallInFlight ==
    \A i \in Server : \A p \in Peers(i) :
        Cardinality(CallsTo(i, p)) = IF p \in in_flight_peers[i] THEN 1 ELSE 0

\* A user is told Ack only for a command that a state machine has received,
\* whether the leader or a forwarding peer answers.
AckedWasApplied ==
    /\ \A c \in Cmd : outcome[c] = "ack" => \E a \in applied : a[2] = c
    /\ \A m \in rpcs : m.kind = "ForwardAnswer" /\ m.ack => \E a \in applied : a[2] = m.cmd

\* No state machine, before or after a reload, receives another command at an
\* index than the others do.
StateMachineSafety ==
    \A a, b \in applied : a[1] = b[1] => a[2] = b[2]

\* An acknowledged command is in the logs of a majority.
AckedIsOnQuorum ==
    \A c \in Cmd : outcome[c] = "ack" =>
        Cardinality({i \in Server : \E k \in 1 .. Len(log[i]) : log[i][k].cmd = c}) >= Quorum

\* No log ever gets shorter: overwrite_log only replaces a last entry.
LogNeverShrinks ==
    [][\A i \in Server : Len(log'[i]) >= Len(log[i])]_vars

\* No committed entry of a worker is ever removed from its log or replaced.
CommittedIsStable ==
    [][\A i \in Server : \A k \in 1 .. commit_index[i] :
          k <= Len(log'[i]) /\ log'[i][k] = log[i][k]]_vars

-----------------------------------------------------------------------------
(* Liveness *)

\* What a leader appends in its own term it commits, or it stops leading.
LeaderCommits ==
    \A i \in Server : \A k \in 1 .. Cardinality(Cmd) :
        (role[i] = "Leader" /\ k <= Len(log[i]) /\ log[i][k].term = current_term[i])
            ~> (role[i] # "Leader" \/ commit_index[i] >= k)

\* What a leader has committed reaches the state machine of every window that
\* stays open while it leads: also after failed calls, broken connections and
\* a reload.
CommittedByLeader(k) == \E i \in Server : role[i] = "Leader" /\ commit_index[i] >= k
CommittedReachesAll ==
    \A p \in Server : \A k \in 1 .. Cardinality(Cmd) :
        CommittedByLeader(k) ~> (~CommittedByLeader(k) \/ ~Running(p) \/ last_applied[p] >= k)

-----------------------------------------------------------------------------
(* Refinement *)

\* The commands that state machines received, in the order of their indices.
Chosen ==
    [k \in {a[1] : a \in applied} |-> CHOOSE c \in Cmd : <<k, c>> \in applied]

\* The users' view of the cluster: one sequence of commands of which every
\* window shows a prefix, and from which every acknowledgement is.
Users == INSTANCE ReplicatedLog WITH
    chosen <- Chosen,
    delivered <- last_applied,
    acked <- {c \in Cmd : outcome[c] = "ack"}

\* README.md:27-30: what is sent to one window reaches all of them in the same
\* order.  The workers implement that as long as one leader serves.
ImplementsReplicatedLog == Users!Spec

=============================================================================
