---------------------------- MODULE RaftWorker ----------------------------
(***************************************************************************)
(* The Raft worker of wraft: wraft/src/raft/worker.rs, with the log, term   *)
(* and vote of wraft/src/raft/storage.rs.  Each browser window runs one     *)
(* worker, a loop that takes one message (an RPC of a peer, a client        *)
(* request, a response to its own RPC, a new connection) or one timeout,    *)
(* handles it to completion without awaiting, then advances and applies     *)
(* its commit index.  One action is one such turn of the loop.              *)
(*                                                                          *)
(* The WebRTC transport is abstracted to the set rpcs of calls and answers  *)
(* that have not been handled yet: in any order, possibly never.            *)
(***************************************************************************)
EXTENDS Integers, Sequences, FiniteSets

CONSTANTS
    Server,          \* the node ids of the cluster
    Cmd,             \* the commands that users will issue, each one once
    None,            \* Rust's Option::None where a node id is expected
    MAX_BATCH_SIZE,  \* entries per AppendEntries (100 in the code)
    MaxTerm,         \* bound: no election is called beyond this term
    MaxFaults        \* bound: failed calls, broken links and closed windows

ASSUME ServerAssumption == IsFiniteSet(Server) /\ None \notin Server
ASSUME BoundAssumption == MAX_BATCH_SIZE \in Nat \ {0} /\ MaxTerm \in Nat /\ MaxFaults \in Nat

VARIABLES
    \* Kept in local storage, so they survive a reload of the window.
    current_term, voted_for, log,
    \* Volatile state of every worker.
    role, leader_id, commit_index, last_applied,
    \* The peers that granted a vote in this candidate's round (itself included).
    votes,
    \* State of a leader; at its initial value in any other role.
    next_indices, match_indices, in_flight_client_requests, in_flight_peers,
    \* The transport: {i, j} is in links when i and j are connected.
    links, rpcs,
    \* The users: origin[c] is the window where c is issued, outcome[c] what
    \* its caller knows of it.
    origin, outcome,
    faults,
    \* History: votes cast, elections won, commands sent to a state machine.
    ballots, elected, applied

persistentVars == <<current_term, voted_for, log>>
leaderVars == <<next_indices, match_indices, in_flight_client_requests, in_flight_peers>>
applyVars == <<commit_index, last_applied, applied>>
userVars == <<origin, outcome>>
historyVars == <<ballots, elected>>
vars == <<persistentVars, role, leader_id, applyVars, votes, leaderVars, links,
          rpcs, userVars, faults, historyVars>>

-----------------------------------------------------------------------------
Term == Nat
Entry == [term : Term, cmd : Cmd]

\* "Closed": no worker runs.  The two panics end the worker's task for good:
\* the window stays open, but nothing is handled until it is reloaded.
RunningRoles == {"Follower", "Candidate", "Leader"}
Panics == {"OverwritePanic", "UnderflowPanic"}
Roles == RunningRoles \cup Panics \cup {"Closed"}
Running(i) == role[i] \in RunningRoles

\* A request has live = FALSE once its caller no longer awaits the answer.
RequestVoteRequest ==
    [kind : {"RequestVote"}, from : Server, to : Server, term : Term,
     last_log_index : Nat, live : BOOLEAN]
\* Refused votes are ignored by the caller and left out.
VoteGranted == [kind : {"VoteGranted"}, from : Server, to : Server, term : Term]
AppendEntriesRequest ==
    [kind : {"AppendEntries"}, from : Server, to : Server, term : Term,
     prev_log_index : Nat, prev_log_term : Term, entries : Seq(Entry),
     leader_commit : Nat, live : BOOLEAN]
\* What reaches the leader's response channel: the answer with the range of
\* indices that the call carried, or the error of a call that failed.
AppendEntriesAnswer ==
    [kind : {"AppendEntriesAnswer"}, from : Server, to : Server, term : Term,
     success : BOOLEAN, start : Nat, end : Nat]
AppendEntriesError == [kind : {"AppendEntriesError"}, from : Server, to : Server]
ForwardRequest == [kind : {"Forward"}, from : Server, to : Server, cmd : Cmd]
ForwardAnswer == [kind : {"ForwardAnswer"}, from : Server, to : Server, cmd : Cmd, ack : BOOLEAN]
Message == RequestVoteRequest \cup VoteGranted \cup AppendEntriesRequest \cup AppendEntriesAnswer
             \cup AppendEntriesError \cup ForwardRequest \cup ForwardAnswer

Peers(i) == Server \ {i}
Quorum == (Cardinality(Server) \div 2) + 1
Smaller(a, b) == IF a <= b THEN a ELSE b
Larger(a, b) == IF a >= b THEN a ELSE b

Init ==
    /\ current_term = [i \in Server |-> 0]
    /\ voted_for = [i \in Server |-> None]
    /\ log = [i \in Server |-> <<>>]
    /\ role = [i \in Server |-> "Follower"]
    /\ leader_id = [i \in Server |-> None]
    /\ commit_index = [i \in Server |-> 0]
    /\ last_applied = [i \in Server |-> 0]
    /\ votes = [i \in Server |-> {}]
    /\ next_indices = [i \in Server |-> [p \in Server |-> 1]]
    /\ match_indices = [i \in Server |-> [p \in Server |-> 0]]
    /\ in_flight_client_requests = [i \in Server |-> {}]
    /\ in_flight_peers = [i \in Server |-> {}]
    /\ links = {{i, j} : i \in Server, j \in Server} \ {{i} : i \in Server}
    /\ rpcs = {}
    /\ origin \in [Cmd -> Server]
    /\ outcome = [c \in Cmd |-> "new"]
    /\ faults = 0
    /\ ballots = {}
    /\ elected = {}
    /\ applied = {}

-----------------------------------------------------------------------------
(* Calls and answers *)

\* Broken variant: votes for an earlier round stay in the channel.
AbandonKeepingVotes(i, msgs) ==
    {IF m.from = i /\ m.kind \in {"RequestVote", "AppendEntries"} THEN [m EXCEPT !.live = FALSE] ELSE m :
        m \in {x \in msgs : ~(x.to = i /\ x.kind \in {"AppendEntriesAnswer", "AppendEntriesError"})}}

\* The role of i that made these calls is over: its tasks may still run, but
\* the channel they report to is gone.
Abandon(i, msgs) ==
    {IF m.from = i /\ m.kind \in {"RequestVote", "AppendEntries"} THEN [m EXCEPT !.live = FALSE] ELSE m :
        m \in {x \in msgs : ~(x.to = i /\ x.kind \in {"VoteGranted", "AppendEntriesAnswer", "AppendEntriesError"})}}

\* Broken variant: the end of the range is exclusive.
AnswerAppendEntriesExclusive(m, term, success) ==
    IF m.live
    THEN {[kind |-> "AppendEntriesAnswer", from |-> m.to, to |-> m.from, term |-> term, success |-> success,
           start |-> IF m.entries = <<>> THEN m.prev_log_index ELSE m.prev_log_index + 1,
           end |-> m.prev_log_index + Len(m.entries) + 1]}
    ELSE {}

\* The answer to an AppendEntries call, if anybody waits for it.  A response
\* reports the range of indices of the call: an empty batch reports its
\* prev_log_index, which is then the leader's last index.
AnswerAppendEntries(m, term, success) ==
    IF m.live
    THEN {[kind |-> "AppendEntriesAnswer", from |-> m.to, to |-> m.from, term |-> term, success |-> success,
           start |-> IF m.entries = <<>> THEN m.prev_log_index ELSE m.prev_log_index + 1,
           end |-> m.prev_log_index + Len(m.entries)]}
    ELSE {}
FailAppendEntries(m) ==
    IF m.live THEN {[kind |-> "AppendEntriesError", from |-> m.to, to |-> m.from]} ELSE {}

\* The commands whose issuers wait at leader i, the log being lg.
Waiting(lg, inFlight) == {lg[k].cmd : k \in inFlight}

\* i answers the callers of cmds: its own users at once, a peer that forwarded
\* the command by an answer to its call, if that call is still awaited.
AnswerClients(i, cmds, ack, out, msgs) ==
    /\ outcome' = [c \in Cmd |-> IF c \in cmds /\ origin[c] = i
                                 THEN IF ack THEN "ack" ELSE "unavailable"
                                 ELSE out[c]]
    /\ rpcs' = msgs \cup {[kind |-> "ForwardAnswer", from |-> i, to |-> origin[c], cmd |-> c, ack |-> ack] :
                              c \in {d \in cmds : origin[d] # i /\ out[d] = "pending"}}

\* The conversion of a worker to another role drops the state of the old one;
\* a dropped client request is answered Unavailable.
LeaveRole(i, newRole, out, lg, inFlight, msgs) ==
    /\ role' = [role EXCEPT ![i] = newRole]
    /\ votes' = [votes EXCEPT ![i] = {}]
    /\ next_indices' = [next_indices EXCEPT ![i] = [p \in Server |-> 1]]
    /\ match_indices' = [match_indices EXCEPT ![i] = [p \in Server |-> 0]]
    /\ in_flight_client_requests' = [in_flight_client_requests EXCEPT ![i] = {}]
    /\ in_flight_peers' = [in_flight_peers EXCEPT ![i] = {}]
    /\ AnswerClients(i, Waiting(lg, inFlight), FALSE, out, Abandon(i, msgs))

BecomeFollower(i, msgs) ==
    LeaveRole(i, "Follower", outcome, log[i], in_flight_client_requests[i], msgs)

\* The worker of i runs no more: its volatile state is gone and nobody waits
\* for it any longer.
Stop(i, newRole, out, lg, inFlight, msgs) ==
    /\ LeaveRole(i, newRole, out, lg, inFlight, msgs)
    /\ leader_id' = [leader_id EXCEPT ![i] = None]
    /\ commit_index' = [commit_index EXCEPT ![i] = 0]
    /\ last_applied' = [last_applied EXCEPT ![i] = 0]
    /\ UNCHANGED applied

StayInRole(msgs) ==
    /\ rpcs' = msgs
    /\ UNCHANGED <<role, votes, leaderVars, outcome>>

-----------------------------------------------------------------------------
(* Committing and applying *)

\* apply_log: the state machine of i receives every entry up to commit.
ApplyLog(i, lg, commit) ==
    LET last == Smaller(commit, Len(lg)) IN
    /\ commit_index' = [commit_index EXCEPT ![i] = commit]
    /\ last_applied' = [last_applied EXCEPT ![i] = Larger(last_applied[i], last)]
    /\ applied' = applied \cup {<<k, lg[k].cmd>> : k \in last_applied[i] + 1 .. last}

\* Broken variants: the leader counts itself once more, or not at all.
AgreedCountingTwice(i, match, k) == Cardinality({p \in Peers(i) : match[p] >= k}) >= Quorum - 2
AgreedWithoutSelf(i, match, k) == Cardinality({p \in Peers(i) : match[p] >= k}) >= Quorum

\* The leader agrees implicitly, so quorum - 1 peers must.
Agreed(i, match, k) == Cardinality({p \in Peers(i) : match[p] >= k}) >= Quorum - 1

\* Every index up to n passes the two tests of advance_commit_index, whose
\* loop breaks at the first index that fails one.
Committable(i, lg, match, n) ==
    \A k \in commit_index[i] + 1 .. n :
        /\ Agreed(i, match, k)
        /\ lg[k].term = current_term[i]

\* Broken variant: the range of answered indices is one too long.
AcknowledgedEarly(inFlight, n) == {k \in inFlight : k <= n + 1}

\* The requests in flight whose index is committed are answered.
Acknowledged(inFlight, n) == {k \in inFlight : k <= n}

\* The top of the leader's loop: advance_commit_index, then apply_log.
LeaderLoopTop(i, lg, match, inFlight, out, msgs) ==
    \E n \in commit_index[i] .. Len(lg) :
        /\ Committable(i, lg, match, n)
        /\ n < Len(lg) => ~Committable(i, lg, match, n + 1)
        /\ ApplyLog(i, lg, n)
        /\ in_flight_client_requests' =
               [in_flight_client_requests EXCEPT ![i] = inFlight \ Acknowledged(inFlight, n)]
        /\ AnswerClients(i, Waiting(lg, Acknowledged(inFlight, n)), TRUE, out, msgs)

-----------------------------------------------------------------------------
(* Elections *)

\* Both a follower and a candidate whose election timeout fires start a round:
\* a new term, a vote for itself, and a call to every connected peer.
ElectionTimeout(i) ==
    /\ role[i] \in {"Follower", "Candidate"}
    /\ current_term[i] < MaxTerm
    /\ current_term' = [current_term EXCEPT ![i] = @ + 1]
    /\ voted_for' = [voted_for EXCEPT ![i] = i]
    /\ ballots' = ballots \cup {[term |-> current_term[i] + 1, voter |-> i, candidate |-> i]}
    /\ role' = [role EXCEPT ![i] = "Candidate"]
    /\ leader_id' = [leader_id EXCEPT ![i] = None]
    /\ votes' = [votes EXCEPT ![i] = {i}]
    /\ rpcs' = Abandon(i, rpcs) \cup
                 {[kind |-> "RequestVote", from |-> i, to |-> p, term |-> current_term[i] + 1,
                   last_log_index |-> Len(log[i]), live |-> TRUE] : p \in {q \in Peers(i) : {i, q} \in links}}
    /\ UNCHANGED <<log, applyVars, leaderVars, links, userVars, faults, elected>>

\* Broken variant: the vote already cast is not looked at.
VoteGrantedToAll(m, i, vote) == m.term >= current_term[i] /\ m.last_log_index >= commit_index[i]

\* handle_request_vote, when the update of the term has left the vote as given:
\* the candidate's log is compared with the voter's commit index.
VoteGrantedTo(m, i, vote) ==
    /\ m.term >= current_term[i]
    /\ vote \in {None, m.from}
    /\ m.last_log_index >= commit_index[i]

\* handle_rpc and handle_request_vote: any role takes over a newer term and
\* returns to follower; a leader refuses a request that is not newer.
ReceiveRequestVote(m) ==
    LET i == m.to
        newTerm == m.term > current_term[i]
        vote == IF newTerm THEN None ELSE voted_for[i]
        granted == (role[i] = "Leader" => newTerm) /\ VoteGrantedTo(m, i, vote)
        reply == IF granted /\ m.live
                 THEN {[kind |-> "VoteGranted", from |-> i, to |-> m.from, term |-> m.term]} ELSE {}
        msgs == (rpcs \ {m}) \cup reply
    IN  /\ m.kind = "RequestVote"
        /\ Running(i)
        /\ current_term' = [current_term EXCEPT ![i] = Larger(@, m.term)]
        /\ voted_for' = [voted_for EXCEPT ![i] = IF granted THEN m.from ELSE vote]
        /\ ballots' = IF granted THEN ballots \cup {[term |-> m.term, voter |-> i, candidate |-> m.from]}
                                 ELSE ballots
        /\ IF newTerm THEN BecomeFollower(i, msgs) ELSE StayInRole(msgs)
        /\ UNCHANGED <<log, leader_id, applyVars, links, origin, faults, elected>>

\* A vote reaches the candidate of the round; the last one needed makes it
\* the leader.
ReceiveVote(m) ==
    LET i == m.to
        received == votes[i] \cup {m.from}
        won == Cardinality(received) >= Quorum
    IN  /\ m.kind = "VoteGranted"
        /\ role[i] = "Candidate"
        /\ votes' = [votes EXCEPT ![i] = IF won THEN {} ELSE received]
        /\ rpcs' = IF won THEN Abandon(i, rpcs) ELSE rpcs \ {m}
        /\ IF won
           THEN /\ role' = [role EXCEPT ![i] = "Leader"]
                /\ leader_id' = [leader_id EXCEPT ![i] = i]
                /\ next_indices' = [next_indices EXCEPT ![i] = [p \in Server |-> Len(log[i]) + 1]]
                /\ elected' = elected \cup {[term |-> current_term[i], leader |-> i]}
           ELSE UNCHANGED <<role, leader_id, next_indices, elected>>
        /\ UNCHANGED <<persistentVars, applyVars, match_indices, in_flight_client_requests,
                       in_flight_peers, links, userVars, faults, ballots>>

-----------------------------------------------------------------------------
(* Replication: the leader's side *)

\* Broken variant: a peer with a call in flight is called again.
TargetsInFlight(i, peers, inFlightPeers) == {p \in peers : {i, p} \in links}

\* append_entries skips a peer that is not connected or has a call in flight.
Targets(i, peers, inFlightPeers) ==
    {p \in peers : {i, p} \in links /\ p \notin inFlightPeers}

\* next_index - 1 underflows: in a debug build the subtraction panics, in a
\* release build get_log(2^64 - 1).unwrap() does.
Underflows(targets, next) == \E p \in targets : next[p] < 1

AppendEntriesTo(i, p, lg, next) ==
    [kind |-> "AppendEntries", from |-> i, to |-> p, term |-> current_term[i],
     prev_log_index |-> next[p] - 1,
     prev_log_term |-> IF next[p] > 1 THEN lg[next[p] - 1].term ELSE 0,
     entries |-> SubSeq(lg, next[p], Smaller(next[p] + MAX_BATCH_SIZE - 1, Len(lg))),
     leader_commit |-> commit_index[i], live |-> TRUE]

Calls(i, targets, lg, next) == {AppendEntriesTo(i, p, lg, next) : p \in targets}

\* The worker's task dies in append_entries.  The calls to peers before the
\* one with the bad index may or may not have been sent; nobody awaits them.
PanicInAppendEntries(i, targets, out, lg, next, inFlight, msgs) ==
    \E sent \in SUBSET {p \in targets : next[p] >= 1} :
        Stop(i, "UnderflowPanic", out, lg, inFlight, msgs \cup Calls(i, sent, lg, next))

\* append_entries for each of peers, from a handler that leaves the log, the
\* next indices and the calls in flight as given, and the loop top after it.
Replicate(i, peers, lg, next, inFlight, inFlightPeers, out, msgs) ==
    LET targets == Targets(i, peers, inFlightPeers) IN
    IF Underflows(targets, next)
    THEN PanicInAppendEntries(i, targets, out, lg, next, inFlight, msgs)
    ELSE /\ LeaderLoopTop(i, lg, match_indices[i], inFlight, out, msgs \cup Calls(i, targets, lg, next))
         /\ next_indices' = [next_indices EXCEPT ![i] = next]
         /\ in_flight_peers' = [in_flight_peers EXCEPT ![i] = inFlightPeers \cup targets]
         /\ UNCHANGED <<role, leader_id, votes, match_indices>>

Heartbeat(i) ==
    /\ role[i] = "Leader"
    /\ Replicate(i, Peers(i), log[i], next_indices[i], in_flight_client_requests[i], in_flight_peers[i],
                 outcome, rpcs)
    /\ UNCHANGED <<persistentVars, links, origin, faults, historyVars>>

\* handle_client_request and handle_log_update: the command becomes an entry
\* of the leader's term, its caller waits for that index, every peer is called.
HandleLogUpdate(i, c, out, msgs) ==
    LET lg == Append(log[i], [term |-> current_term[i], cmd |-> c]) IN
    /\ role[i] = "Leader"
    /\ log' = [log EXCEPT ![i] = lg]
    /\ Replicate(i, Peers(i), lg, next_indices[i], in_flight_client_requests[i] \cup {Len(lg)},
                 in_flight_peers[i], out, msgs)
    /\ UNCHANGED <<current_term, voted_for, links, origin, faults, historyVars>>

\* The four outcomes of an AppendEntries call at the leader that made it.
AppendEntriesFailed(m) ==
    LET i == m.to IN
    /\ m.kind = "AppendEntriesError" \/ (m.kind = "AppendEntriesAnswer" /\ m.term < current_term[i])
    /\ role[i] = "Leader"
    /\ rpcs' = rpcs \ {m}
    /\ in_flight_peers' = [in_flight_peers EXCEPT ![i] = @ \ {m.from}]
    /\ UNCHANGED <<persistentVars, role, leader_id, applyVars, votes, next_indices, match_indices,
                   in_flight_client_requests, links, userVars, faults, historyVars>>

AppendEntriesNewTerm(m) ==
    LET i == m.to IN
    /\ m.kind = "AppendEntriesAnswer"
    /\ role[i] = "Leader"
    /\ m.term > current_term[i]
    /\ current_term' = [current_term EXCEPT ![i] = m.term]
    /\ voted_for' = [voted_for EXCEPT ![i] = None]
    /\ BecomeFollower(i, rpcs \ {m})
    /\ UNCHANGED <<log, leader_id, applyVars, links, origin, faults, historyVars>>

AppendEntriesSucceeded(m) ==
    LET i == m.to
        match == [match_indices[i] EXCEPT ![m.from] = Larger(@, m.end)]
    IN  /\ m.kind = "AppendEntriesAnswer"
        /\ role[i] = "Leader"
        /\ m.term = current_term[i] /\ m.success
        /\ next_indices' = [next_indices EXCEPT ![i][m.from] = Larger(@, m.end + 1)]
        /\ match_indices' = [match_indices EXCEPT ![i] = match]
        /\ in_flight_peers' = [in_flight_peers EXCEPT ![i] = @ \ {m.from}]
        /\ LeaderLoopTop(i, log[i], match, in_flight_client_requests[i], outcome, rpcs \ {m})
        /\ UNCHANGED <<persistentVars, role, leader_id, votes, links, origin, faults, historyVars>>

\* The follower's log does not match at prev_log_index: back off and call
\* again at once.
AppendEntriesRefused(m) ==
    LET i == m.to
        next == [next_indices[i] EXCEPT ![m.from] = Smaller(@, m.start - 1)]
    IN  /\ m.kind = "AppendEntriesAnswer"
        /\ role[i] = "Leader"
        /\ m.term = current_term[i] /\ ~m.success
        /\ Replicate(i, {m.from}, log[i], next, in_flight_client_requests[i],
                     in_flight_peers[i] \ {m.from}, outcome, rpcs \ {m})
        /\ UNCHANGED <<persistentVars, links, origin, faults, historyVars>>

-----------------------------------------------------------------------------
(* Replication: the receiver's side *)

\* Broken variant: the term of the previous entry is not compared.
PrevLogPresent(lg, m) == m.prev_log_index # 0 => m.prev_log_index <= Len(lg)

\* The two tests of handle_append_entries on a request of term at least the
\* receiver's.
PrevLogMatches(lg, m) ==
    m.prev_log_index # 0 =>
        m.prev_log_index <= Len(lg) /\ lg[m.prev_log_index].term = m.prev_log_term

\* Indices where the receiver's log holds an entry of another term than the
\* entry received for that index.
Conflicts(lg, prev, es) ==
    {k \in prev + 1 .. Len(lg) : k - prev <= Len(es) /\ lg[k].term # es[k - prev].term}

\* overwrite_log asserts that the entry it replaces is the last one.
OverwritePanics(lg, prev, es) == \E k \in Conflicts(lg, prev, es) : k < Len(lg)

\* Broken variants: the log is cut at prev_log_index whatever it holds, or
\* entries that it already holds are appended again.
MergeTruncating(lg, prev, es) == SubSeq(lg, 1, prev) \o es
MergeAppendingAll(lg, prev, es) == lg \o es

\* The loop of handle_append_entries when the assertion holds: only the last
\* entry can be replaced, and what is beyond the log is appended.
Merge(lg, prev, es) ==
    LET kept == IF Len(lg) \in Conflicts(lg, prev, es) THEN Len(lg) - 1 ELSE Len(lg) IN
    SubSeq(lg, 1, kept) \o SubSeq(es, kept - prev + 1, Len(es))

\* Broken variant: the leader's commit index is taken as it is.
FollowerCommitOfLeader(commit, m) == Larger(commit, m.leader_commit)

FollowerCommit(commit, m) ==
    IF m.leader_commit > commit
    THEN IF m.entries = <<>> THEN m.leader_commit
                             ELSE Smaller(m.leader_commit, m.prev_log_index + Len(m.entries))
    ELSE commit

\* A leader takes the request only from a newer term; a follower and a
\* candidate handle any request, and whatever its term a follower takes its
\* sender for the leader and a candidate gives up.
ReceiveAppendEntries(m) ==
    LET i == m.to
        newTerm == m.term > current_term[i]
        accepted == m.term >= current_term[i] /\ PrevLogMatches(log[i], m)
        lg == IF accepted THEN Merge(log[i], m.prev_log_index, m.entries) ELSE log[i]
        msgs == (rpcs \ {m}) \cup AnswerAppendEntries(m, Larger(current_term[i], m.term), accepted)
    IN  /\ m.kind = "AppendEntries"
        /\ Running(i)
        /\ role[i] = "Leader" => newTerm
        /\ accepted => ~OverwritePanics(log[i], m.prev_log_index, m.entries)
        /\ current_term' = [current_term EXCEPT ![i] = Larger(@, m.term)]
        /\ voted_for' = [voted_for EXCEPT ![i] = IF newTerm THEN None ELSE @]
        /\ leader_id' = [leader_id EXCEPT ![i] = IF role[i] = "Follower" THEN m.from ELSE @]
        /\ log' = [log EXCEPT ![i] = lg]
        /\ ApplyLog(i, lg, IF accepted THEN FollowerCommit(commit_index[i], m) ELSE commit_index[i])
        /\ IF role[i] # "Follower" THEN BecomeFollower(i, msgs) ELSE StayInRole(msgs)
        /\ UNCHANGED <<links, origin, faults, historyVars>>

\* A leader answers a request that is not newer with its own term.
RefuseAppendEntries(m) ==
    /\ m.kind = "AppendEntries"
    /\ role[m.to] = "Leader"
    /\ m.term <= current_term[m.to]
    /\ rpcs' = (rpcs \ {m}) \cup AnswerAppendEntries(m, current_term[m.to], FALSE)
    /\ UNCHANGED <<persistentVars, role, leader_id, applyVars, votes, leaderVars, links, userVars,
                   faults, historyVars>>

\* The assertion of overwrite_log fails: the new term is stored, the log is
\* not, and the caller's request times out.
PanicInOverwriteLog(m) ==
    LET i == m.to IN
    /\ m.kind = "AppendEntries"
    /\ Running(i)
    /\ role[i] = "Leader" => m.term > current_term[i]
    /\ m.term >= current_term[i]
    /\ PrevLogMatches(log[i], m)
    /\ OverwritePanics(log[i], m.prev_log_index, m.entries)
    /\ current_term' = [current_term EXCEPT ![i] = m.term]
    /\ voted_for' = [voted_for EXCEPT ![i] = IF m.term > current_term[i] THEN None ELSE @]
    /\ Stop(i, "OverwritePanic", outcome, log[i], in_flight_client_requests[i],
            (rpcs \ {m}) \cup FailAppendEntries(m))
    /\ UNCHANGED <<log, links, origin, faults, historyVars>>

-----------------------------------------------------------------------------
(* Client requests *)

\* Broken variant: neither the leader nor the connection is looked up.
LeaderReachableAlways(i) == TRUE

LeaderReachable(i) == {i, leader_id[i]} \in links

\* A follower forwards to the leader it knows, if it has a connection to it.
FollowerClientRequest(c) ==
    LET i == origin[c] IN
        /\ outcome[c] = "new"
        /\ role[i] = "Follower"
        /\ outcome' = [outcome EXCEPT ![c] = IF LeaderReachable(i) THEN "pending" ELSE "unavailable"]
        /\ rpcs' = IF LeaderReachable(i)
                   THEN rpcs \cup {[kind |-> "Forward", from |-> i, to |-> leader_id[i], cmd |-> c]}
                   ELSE rpcs
        /\ UNCHANGED <<persistentVars, role, leader_id, applyVars, votes, leaderVars, links, origin,
                       faults, historyVars>>

CandidateClientRequest(c) ==
    /\ outcome[c] = "new"
    /\ role[origin[c]] = "Candidate"
    /\ outcome' = [outcome EXCEPT ![c] = "unavailable"]
    /\ UNCHANGED <<persistentVars, role, leader_id, applyVars, votes, leaderVars, links, rpcs, origin,
                   faults, historyVars>>

LeaderClientRequest(c) ==
    /\ outcome[c] = "new"
    /\ HandleLogUpdate(origin[c], c, [outcome EXCEPT ![c] = "pending"], rpcs)

\* A forwarded request arrives; only a leader takes it.
ReceiveForward(m) ==
    LET answer == [kind |-> "ForwardAnswer", from |-> m.to, to |-> m.from, cmd |-> m.cmd, ack |-> FALSE] IN
    /\ m.kind = "Forward"
    /\ \/ HandleLogUpdate(m.to, m.cmd, outcome, rpcs \ {m})
       \/ /\ role[m.to] \in {"Follower", "Candidate"}
          /\ rpcs' = (rpcs \ {m}) \cup (IF outcome[m.cmd] = "pending" THEN {answer} ELSE {})
          /\ UNCHANGED <<persistentVars, role, leader_id, applyVars, votes, leaderVars, links, userVars,
                         faults, historyVars>>

ReceiveForwardAnswer(m) ==
    /\ m.kind = "ForwardAnswer"
    /\ outcome' = [outcome EXCEPT ![m.cmd] = IF m.ack THEN "ack" ELSE "unavailable"]
    /\ rpcs' = rpcs \ {m}
    /\ UNCHANGED <<persistentVars, role, leader_id, applyVars, votes, leaderVars, links, origin,
                   faults, historyVars>>

-----------------------------------------------------------------------------
(* Timeouts, broken links, closed and reloaded windows *)

\* A fault that needs no budget: the window that serves the call is gone.
Fault(free) ==
    IF free THEN UNCHANGED faults ELSE faults < MaxFaults /\ faults' = faults + 1

\* An AppendEntries call times out or its connection breaks: the leader gets
\* an error, while the request, if still under way, may yet be handled.
AppendEntriesCallFails(m) ==
    /\ \/ /\ m.kind = "AppendEntries" /\ m.live
          /\ rpcs' = (rpcs \ {m}) \cup {[m EXCEPT !.live = FALSE]} \cup FailAppendEntries(m)
          /\ Fault(~Running(m.to))
       \/ /\ m.kind = "AppendEntriesAnswer"
          /\ rpcs' = (rpcs \ {m}) \cup {[kind |-> "AppendEntriesError", from |-> m.from, to |-> m.to]}
          /\ Fault(~Running(m.from))
    /\ UNCHANGED <<persistentVars, role, leader_id, applyVars, votes, leaderVars, links, userVars,
                   historyVars>>

\* The call that forwarded c times out.  The request may still be under way,
\* or the leader may have taken it and be waiting for its commit.
ForwardCallFails(c) ==
    /\ outcome[c] = "pending"
    /\ c \notin Waiting(log[origin[c]], in_flight_client_requests[origin[c]])
    /\ outcome' = [outcome EXCEPT ![c] = "unavailable"]
    /\ rpcs' = {m \in rpcs : ~(m.kind = "ForwardAnswer" /\ m.cmd = c)}
    /\ Fault(\E m \in rpcs : m.kind = "Forward" /\ m.cmd = c /\ ~Running(m.to))
    /\ UNCHANGED <<persistentVars, role, leader_id, applyVars, votes, leaderVars, links, origin,
                   historyVars>>

\* The connection of i and j breaks, and a new one is made: each side sees
\* its client disconnected, and a new client in handle_new_peer.
Disconnect(i, j) ==
    /\ {i, j} \in links
    /\ links' = links \ {{i, j}}
    /\ Fault(FALSE)
    /\ UNCHANGED <<persistentVars, role, leader_id, applyVars, votes, leaderVars, rpcs, userVars,
                   historyVars>>

NewPeer(i, j) ==
    /\ i # j /\ {i, j} \notin links
    /\ Running(i) /\ Running(j)
    /\ links' = links \cup {{i, j}}
    /\ UNCHANGED <<persistentVars, role, leader_id, applyVars, votes, leaderVars, rpcs, userVars,
                   faults, historyVars>>

\* The users at window i lose the requests they had under way there.
Forget(i) ==
    [c \in Cmd |-> IF origin[c] = i /\ outcome[c] = "pending" THEN "unavailable" ELSE outcome[c]]
WithoutAnswersFor(i) == {m \in rpcs : ~(m.kind = "ForwardAnswer" /\ m.to = i)}

\* The user closes the window of i: its own requests, calls and connections
\* end with it.
CloseWindow(i) ==
    /\ Running(i)
    /\ Stop(i, "Closed", Forget(i), log[i], in_flight_client_requests[i], WithoutAnswersFor(i))
    /\ links' = {l \in links : i \notin l}
    /\ Fault(FALSE)
    /\ UNCHANGED <<persistentVars, origin, historyVars>>

\* What was sent to the window of i never arrives once it is opened again; the
\* calls that somebody awaits end with an error.
SentTo(i) == {m \in rpcs : m.to = i /\ m.kind \in {"RequestVote", "AppendEntries", "Forward"}}
CallErrors(m) ==
    IF m.kind = "AppendEntries" THEN FailAppendEntries(m)
    ELSE IF m.kind = "Forward" /\ outcome[m.cmd] = "pending"
         THEN {[kind |-> "ForwardAnswer", from |-> m.to, to |-> m.from, cmd |-> m.cmd, ack |-> FALSE]}
         ELSE {}

\* start() makes a follower of what local storage holds.
Restart(i) ==
    /\ ~Running(i)
    /\ role' = [role EXCEPT ![i] = "Follower"]
    /\ links' = {l \in links : i \notin l}
    /\ outcome' = Forget(i)
    /\ rpcs' = (WithoutAnswersFor(i) \ SentTo(i)) \cup UNION {CallErrors(m) : m \in SentTo(i)}
    /\ UNCHANGED <<persistentVars, leader_id, applyVars, votes, leaderVars, origin, faults, historyVars>>

-----------------------------------------------------------------------------
\* Broken variant: the error of a failed call is ignored.
ReceiveAppendEntriesResponseOk(m) ==
    AppendEntriesNewTerm(m) \/ AppendEntriesSucceeded(m) \/ AppendEntriesRefused(m)

ReceiveAppendEntriesResponse(m) ==
    \/ AppendEntriesFailed(m)
    \/ AppendEntriesNewTerm(m)
    \/ AppendEntriesSucceeded(m)
    \/ AppendEntriesRefused(m)

Receive(m) ==
    \/ ReceiveRequestVote(m)
    \/ ReceiveVote(m)
    \/ ReceiveAppendEntries(m)
    \/ RefuseAppendEntries(m)
    \/ PanicInOverwriteLog(m)
    \/ ReceiveAppendEntriesResponse(m)
    \/ ReceiveForward(m)
    \/ ReceiveForwardAnswer(m)

ClientRequest(c) ==
    \/ FollowerClientRequest(c)
    \/ CandidateClientRequest(c)
    \/ LeaderClientRequest(c)

Next ==
    \/ \E m \in rpcs : Receive(m) \/ AppendEntriesCallFails(m)
    \/ \E c \in Cmd : ClientRequest(c) \/ ForwardCallFails(c)
    \/ \E i \in Server : ElectionTimeout(i) \/ Heartbeat(i) \/ CloseWindow(i) \/ Restart(i)
    \/ \E i, j \in Server : Disconnect(i, j) \/ NewPeer(i, j)

Spec == Init /\ [][Next]_vars

\* What the code's scheduling grants: the heartbeat timer of a leader fires,
\* queued messages are handled, lost connections are made again.  Nothing is
\* assumed of election timeouts, users or windows.
ReceiveAppendEntriesMessage(i, j) ==
    \E m \in rpcs :
        /\ m.from = i /\ m.to = j
        /\ m.kind \in {"AppendEntries", "AppendEntriesAnswer", "AppendEntriesError"}
        /\ Receive(m)
Fairness ==
    \A i \in Server :
        /\ WF_vars(Heartbeat(i))
        /\ WF_vars(\E j \in Server : NewPeer(i, j))
        /\ \A j \in Peers(i) : WF_vars(ReceiveAppendEntriesMessage(i, j))
FairSpec == Spec /\ Fairness

-----------------------------------------------------------------------------
\* Every variable holds a value of its type: the one type invariant.
TypeOK ==
    /\ current_term \in [Server -> Term]
    /\ voted_for \in [Server -> Server \cup {None}]
    /\ log \in [Server -> Seq(Entry)]
    /\ role \in [Server -> Roles]
    /\ leader_id \in [Server -> Server \cup {None}]
    /\ commit_index \in [Server -> Nat]
    /\ last_applied \in [Server -> Nat]
    /\ votes \in [Server -> SUBSET Server]
    /\ next_indices \in [Server -> [Server -> Int]]
    /\ match_indices \in [Server -> [Server -> Nat]]
    /\ in_flight_client_requests \in [Server -> SUBSET Nat]
    /\ in_flight_peers \in [Server -> SUBSET Server]
    /\ links \in SUBSET (SUBSET Server)
    /\ rpcs \in SUBSET Message
    /\ origin \in [Cmd -> Server]
    /\ outcome \in [Cmd -> {"new", "pending", "ack", "unavailable"}]
    /\ faults \in Nat
    /\ ballots \in SUBSET [term : Term, voter : Server, candidate : Server]
    /\ elected \in SUBSET [term : Term, leader : Server]
    /\ applied \in SUBSET (Nat \X Cmd)

=============================================================================
