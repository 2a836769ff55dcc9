--------------------------- MODULE RaftWorkerProofs ---------------------------
(***************************************************************************)
(* What RaftWorker guarantees for every cluster, every set of commands and  *)
(* all bounds: type correctness and the bounds of the log, then the safety  *)
(* of elections.                                                            *)
(***************************************************************************)
EXTENDS RaftProperties, TLAPS, FiniteSetTheorems, SequenceTheorems

Outcomes == {"new", "pending", "ack", "unavailable"}

-----------------------------------------------------------------------------
(* The inductive invariant behind TypeOK: what refers to an index of a log   *)
(* refers to one that the log has, and logs never shrink.                    *)

\* A call still awaited carries entries that its leader's log has, an answer
\* credits no more; a call without entries covers the leader's commit index.
Credible(m, lgs) ==
    /\ m \in Message
    /\ m.kind = "AppendEntries" =>
           /\ m.live => m.prev_log_index + Len(m.entries) <= Len(lgs[m.from])
           /\ m.entries = <<>> => m.leader_commit <= m.prev_log_index
    /\ m.kind = "AppendEntriesAnswer" => m.end <= Len(lgs[m.to])

CredibleMessages == \A m \in rpcs : Credible(m, log)
NextWithinLog == \A i, p \in Server : next_indices[i][p] <= Len(log[i]) + 1
WaitingWithinLog == \A i \in Server : in_flight_client_requests[i] \subseteq 1 .. Len(log[i])

IndexInv ==
    /\ TypeOK
    /\ CredibleMessages
    /\ NextWithinLog
    /\ WaitingWithinLog
    /\ CommitWithinLog

-----------------------------------------------------------------------------
(* The kinds of messages *)

\* The kind of a message tells its fields.
LEMMA MessageKinds ==
    ASSUME NEW m \in Message
    PROVE  /\ m.from \in Server /\ m.to \in Server
           /\ m.kind = "RequestVote" => m \in RequestVoteRequest
           /\ m.kind = "VoteGranted" => m \in VoteGranted
           /\ m.kind = "AppendEntries" => m \in AppendEntriesRequest
           /\ m.kind = "AppendEntriesAnswer" => m \in AppendEntriesAnswer
           /\ m.kind = "AppendEntriesError" => m \in AppendEntriesError
           /\ m.kind = "Forward" => m \in ForwardRequest
           /\ m.kind = "ForwardAnswer" => m \in ForwardAnswer
BY DEF Message, RequestVoteRequest, VoteGranted, AppendEntriesRequest, AppendEntriesAnswer,
       AppendEntriesError, ForwardRequest, ForwardAnswer

\* A role that ends orphans its requests and drops the answers to them; what
\* is left was there before.
LEMMA AbandonFacts ==
    ASSUME NEW i \in Server, NEW msgs \in SUBSET Message, NEW x \in Abandon(i, msgs)
    PROVE  /\ x \in Message
           /\ x.kind \in {"VoteGranted", "AppendEntriesAnswer", "AppendEntriesError"} => x \in msgs /\ x.to # i
           /\ x.kind \in {"Forward", "ForwardAnswer"} => x \in msgs
           /\ x.kind = "RequestVote" /\ x.live => x \in msgs /\ x.from # i
           /\ x.kind = "AppendEntries" /\ x.live => x \in msgs /\ x.from # i
           /\ x.kind = "AppendEntries" =>
                 \E m \in msgs : /\ m.kind = "AppendEntries" /\ m.entries = x.entries
                                 /\ m.leader_commit = x.leader_commit /\ m.prev_log_index = x.prev_log_index
<1> DEFINE ends(m) == m.from = i /\ m.kind \in {"RequestVote", "AppendEntries"}
<1>1. PICK m \in msgs : /\ x = IF ends(m) THEN [m EXCEPT !.live = FALSE] ELSE m
                        /\ ~(m.to = i /\ m.kind \in {"VoteGranted", "AppendEntriesAnswer", "AppendEntriesError"})
    BY DEF Abandon
<1>2. CASE ends(m) /\ m.kind = "RequestVote"
    <2>1. m \in RequestVoteRequest
        BY <1>2, MessageKinds
    <2>2. x \in RequestVoteRequest /\ x.kind = "RequestVote" /\ x.live = FALSE
        BY <1>1, <1>2, <2>1 DEF RequestVoteRequest
    <2> QED BY <2>2 DEF Message
<1>3. CASE ends(m) /\ m.kind = "AppendEntries"
    <2>1. m \in AppendEntriesRequest
        BY <1>3, MessageKinds
    <2>2. /\ x \in AppendEntriesRequest /\ x.kind = "AppendEntries" /\ x.live = FALSE
          /\ m.entries = x.entries /\ m.leader_commit = x.leader_commit /\ m.prev_log_index = x.prev_log_index
        BY <1>1, <1>3, <2>1 DEF AppendEntriesRequest
    <2> QED BY <1>3, <2>2 DEF Message
<1>4. CASE ~ends(m)
    BY <1>1, <1>4
<1> QED BY <1>2, <1>3, <1>4

LEMMA AbandonCredible ==
    ASSUME NEW i \in Server, NEW msgs, NEW lgs, \A m \in msgs : Credible(m, lgs)
    PROVE  \A m \in Abandon(i, msgs) : Credible(m, lgs)
<1> SUFFICES ASSUME NEW x \in Abandon(i, msgs) PROVE Credible(x, lgs)
    OBVIOUS
<1>1. msgs \in SUBSET Message
    BY DEF Credible
<1> QED BY <1>1, AbandonFacts DEF Credible

-----------------------------------------------------------------------------
(* Logs *)

LEMMA MergeGrows ==
    ASSUME NEW lg \in Seq(Entry), NEW es \in Seq(Entry), NEW prev \in Nat, prev <= Len(lg)
    PROVE  /\ Merge(lg, prev, es) \in Seq(Entry)
           /\ Len(Merge(lg, prev, es)) >= Len(lg)
           /\ Len(Merge(lg, prev, es)) >= prev + Len(es)
<1> DEFINE kept == IF Len(lg) \in Conflicts(lg, prev, es) THEN Len(lg) - 1 ELSE Len(lg)
           old == SubSeq(lg, 1, kept)
           new == SubSeq(es, kept - prev + 1, Len(es))
<1>1. Len(lg) \in Nat /\ Len(es) \in Nat
    BY LenProperties
<1>2. kept \in Nat /\ prev <= kept /\ kept <= Len(lg) /\ (kept < Len(lg) => kept = Len(lg) - 1 /\ Len(lg) - prev <= Len(es))
    BY <1>1 DEF Conflicts
<1> HIDE DEF kept
<1>3. old \in Seq(Entry) /\ Len(old) = kept
    <2>1. \A k \in 1 .. kept : lg[k] \in Entry
        BY <1>1, <1>2, ElementOfSeq
    <2> QED BY <1>2, <2>1, SubSeqProperties
<1>4. new \in Seq(Entry) /\ Len(new) = IF kept - prev + 1 <= Len(es) THEN Len(es) - (kept - prev + 1) + 1 ELSE 0
    <2>1. kept - prev + 1 \in Int /\ kept - prev + 1 >= 1
        BY <1>2
    <2>2. \A k \in kept - prev + 1 .. Len(es) : es[k] \in Entry
        BY <1>1, <2>1, ElementOfSeq
    <2> HIDE DEF new
    <2> QED BY <1>1, <2>1, <2>2, SubSeqProperties DEF new
<1>5. Merge(lg, prev, es) = old \o new
    BY DEF Merge, kept
<1> HIDE DEF old, new
<1>6. old \o new \in Seq(Entry) /\ Len(old \o new) = Len(old) + Len(new)
    BY <1>3, <1>4, ConcatProperties
<1> QED BY <1>1, <1>2, <1>3, <1>4, <1>5, <1>6

\* What holds of a message goes on holding when logs grow.
LEMMA CredibleGrows ==
    ASSUME NEW lgs \in [Server -> Seq(Entry)], NEW lgs2 \in [Server -> Seq(Entry)],
           \A i \in Server : Len(lgs2[i]) >= Len(lgs[i]),
           NEW m, Credible(m, lgs)
    PROVE  Credible(m, lgs2)
<1>1. m.from \in Server /\ m.to \in Server
    BY MessageKinds DEF Credible
<1>2. \A i \in Server : Len(lgs[i]) \in Nat /\ Len(lgs2[i]) \in Nat
    BY LenProperties
<1>3. CASE m.kind = "AppendEntries"
    <2>1. m.prev_log_index \in Nat /\ Len(m.entries) \in Nat
        BY <1>3, MessageKinds, LenProperties DEF Credible, AppendEntriesRequest
    <2> QED BY <1>1, <1>2, <1>3, <2>1 DEF Credible
<1>4. CASE m.kind = "AppendEntriesAnswer"
    <2>1. m.end \in Nat
        BY <1>4, MessageKinds DEF Credible, AppendEntriesAnswer
    <2> QED BY <1>1, <1>2, <1>4, <2>1 DEF Credible
<1> QED BY <1>3, <1>4 DEF Credible

\* One log changes in a step, and it does not get shorter.
LogStep(i, lg) ==
    /\ lg \in Seq(Entry) /\ Len(lg) >= Len(log[i])
    /\ log' = [log EXCEPT ![i] = lg]

LEMMA LogStepFacts ==
    ASSUME TypeOK, NEW i \in Server, NEW lg, LogStep(i, lg)
    PROVE  /\ log' \in [Server -> Seq(Entry)]
           /\ log'[i] = lg
           /\ \A j \in Server : Len(log[j]) \in Nat /\ Len(log'[j]) \in Nat /\ Len(log'[j]) >= Len(log[j])
<1>1. log \in [Server -> Seq(Entry)]
    BY DEF TypeOK
<1>2. log' \in [Server -> Seq(Entry)] /\ log'[i] = lg /\ \A j \in Server \ {i} : log'[j] = log[j]
    BY <1>1 DEF LogStep
<1>3. \A j \in Server : Len(log[j]) \in Nat /\ Len(log'[j]) \in Nat
    BY <1>1, <1>2, LenProperties
<1> QED BY <1>2, <1>3 DEF LogStep

\* A step that leaves the logs alone is one, for any worker.
LEMMA LogStays ==
    ASSUME TypeOK, NEW i \in Server, UNCHANGED log
    PROVE  LogStep(i, log[i])
<1>1. log \in [Server -> Seq(Entry)]
    BY DEF TypeOK
<1>2. Len(log[i]) \in Nat
    BY <1>1, LenProperties
<1> QED BY <1>1, <1>2 DEF LogStep

LEMMA StillCredible ==
    ASSUME IndexInv, NEW i \in Server, NEW lg, LogStep(i, lg)
    PROVE  \A m \in rpcs : Credible(m, log')
BY LogStepFacts, CredibleGrows DEF IndexInv, TypeOK, CredibleMessages

-----------------------------------------------------------------------------
(* Answers and calls *)

LEMMA AnswerAppendEntriesFacts ==
    ASSUME NEW m \in AppendEntriesRequest, m.kind = "AppendEntries", NEW lgs, Credible(m, lgs),
           NEW term \in Nat, NEW success \in BOOLEAN
    PROVE  /\ \A x \in AnswerAppendEntries(m, term, success) : Credible(x, lgs)
           /\ \A x \in FailAppendEntries(m) : Credible(x, lgs)
           /\ \A x \in AnswerAppendEntries(m, term, success) : x.kind = "AppendEntriesAnswer"
           /\ \A x \in FailAppendEntries(m) : x.kind = "AppendEntriesError"
<1>1. m.prev_log_index \in Nat /\ m.from \in Server /\ m.to \in Server /\ m.entries \in Seq(Entry)
    BY DEF AppendEntriesRequest
<1>2. Len(m.entries) \in Nat
    BY <1>1, LenProperties
<1>3. \A x \in AnswerAppendEntries(m, term, success) :
          /\ x \in AppendEntriesAnswer
          /\ x.kind = "AppendEntriesAnswer" /\ x.to = m.from /\ x.end = m.prev_log_index + Len(m.entries)
          /\ m.live
    BY <1>1, <1>2 DEF AnswerAppendEntries, AppendEntriesAnswer, Term
<1>4. \A x \in FailAppendEntries(m) : x \in AppendEntriesError /\ x.kind = "AppendEntriesError"
    BY <1>1 DEF FailAppendEntries, AppendEntriesError
<1>5. \A x \in FailAppendEntries(m) : Credible(x, lgs)
    BY <1>4 DEF Credible, Message
<1>6. \A x \in AnswerAppendEntries(m, term, success) : Credible(x, lgs)
    BY <1>3 DEF Credible, Message
<1> QED BY <1>3, <1>4, <1>5, <1>6

LEMMA AnswerClientsFacts ==
    ASSUME NEW i \in Server, NEW cmds \in SUBSET Cmd, NEW ack \in BOOLEAN,
           NEW out \in [Cmd -> Outcomes], NEW msgs, NEW lgs, \A m \in msgs : Credible(m, lgs),
           origin \in [Cmd -> Server],
           AnswerClients(i, cmds, ack, out, msgs)
    PROVE  /\ outcome' \in [Cmd -> Outcomes]
           /\ \A m \in rpcs' : Credible(m, lgs) /\ (m \in msgs \/ m.kind = "ForwardAnswer")
<1>1. outcome' \in [Cmd -> Outcomes]
    BY DEF AnswerClients, Outcomes
<1>2. \A x \in {[kind |-> "ForwardAnswer", from |-> i, to |-> origin[c], cmd |-> c, ack |-> ack] :
                 c \in {d \in cmds : origin[d] # i /\ out[d] = "pending"}} :
          x \in ForwardAnswer /\ x.kind = "ForwardAnswer"
    BY DEF ForwardAnswer
<1>3. \A m \in rpcs' : m \in msgs \/ (m \in ForwardAnswer /\ m.kind = "ForwardAnswer")
    BY <1>2 DEF AnswerClients
<1>4. \A m \in ForwardAnswer : m.kind = "ForwardAnswer" => Credible(m, lgs)
    BY DEF Credible, Message
<1> QED BY <1>1, <1>3, <1>4

LEMMA WaitingCommands ==
    ASSUME NEW lg \in Seq(Entry), NEW inFlight \in SUBSET (1 .. Len(lg))
    PROVE  Waiting(lg, inFlight) \in SUBSET Cmd
<1>1. \A k \in inFlight : lg[k] \in Entry
    BY ElementOfSeq
<1>2. \A k \in inFlight : lg[k].cmd \in Cmd
    BY <1>1 DEF Entry
<1> QED BY <1>2 DEF Waiting

\* What a leader sends refers to its own log.
LEMMA CallsCredible ==
    ASSUME IndexInv, NEW i \in Server, NEW lg, LogStep(i, lg),
           NEW next \in [Server -> Int], \A p \in Server : next[p] <= Len(lg) + 1,
           NEW p \in Server, next[p] >= 1
    PROVE  /\ Credible(AppendEntriesTo(i, p, lg, next), log')
           /\ AppendEntriesTo(i, p, lg, next).kind = "AppendEntries"
<1> DEFINE last == Smaller(next[p] + MAX_BATCH_SIZE - 1, Len(lg))
           es == SubSeq(lg, next[p], last)
           m == AppendEntriesTo(i, p, lg, next)
<1>1. lg \in Seq(Entry) /\ Len(lg) \in Nat /\ Len(log[i]) \in Nat /\ Len(lg) >= Len(log[i]) /\ log'[i] = lg
    BY LogStepFacts, LenProperties DEF LogStep, IndexInv
<1>2. last \in Int /\ last <= Len(lg) /\ (next[p] <= Len(lg) => next[p] <= last)
    BY <1>1, BoundAssumption DEF Smaller
<1> HIDE DEF last
<1>3. es \in Seq(Entry) /\ Len(es) = IF next[p] <= last THEN last - next[p] + 1 ELSE 0
    <2>1. \A k \in next[p] .. last : lg[k] \in Entry
        BY <1>1, <1>2, ElementOfSeq
    <2> QED BY <1>2, <2>1, SubSeqProperties
<1>4. commit_index[i] \in Nat /\ commit_index[i] <= Len(lg) /\ current_term[i] \in Nat
    BY <1>1 DEF IndexInv, TypeOK, CommitWithinLog, Term
<1>5. next[p] > 1 => lg[next[p] - 1].term \in Nat
    <2> SUFFICES ASSUME next[p] > 1 PROVE lg[next[p] - 1] \in Entry
        BY DEF Entry, Term
    <2>1. next[p] - 1 \in 1 .. Len(lg)
        BY <1>1
    <2> QED BY <1>1, <2>1, ElementOfSeq
<1> HIDE DEF es
<1>6. /\ m.kind = "AppendEntries" /\ m.from = i /\ m.to = p /\ m.term = current_term[i]
      /\ m.prev_log_index = next[p] - 1
      /\ m.entries = es /\ m.leader_commit = commit_index[i] /\ m.live = TRUE
    BY DEF AppendEntriesTo, es, last
<1>7. m \in AppendEntriesRequest
    BY <1>3, <1>4, <1>5, BoundAssumption DEF AppendEntriesTo, AppendEntriesRequest, es, last, Term
<1>8. m.prev_log_index + Len(m.entries) <= Len(log'[m.from])
    BY <1>1, <1>2, <1>3, <1>6
<1>9. m.entries = <<>> => m.leader_commit <= m.prev_log_index
    <2>1. es = <<>> => next[p] > Len(lg)
        BY <1>1, <1>2, <1>3, EmptySeq
    <2> QED BY <1>1, <1>4, <1>6, <2>1
<1> HIDE DEF m
<1> QED BY <1>6, <1>7, <1>8, <1>9 DEF Credible, Message, m

-----------------------------------------------------------------------------
(* The parts of a step that handlers share *)

\* The conjuncts of IndexInv that changing role, and answering, can disturb.
RoleOK ==
    /\ role \in [Server -> Roles]
    /\ votes \in [Server -> SUBSET Server]
    /\ next_indices \in [Server -> [Server -> Int]]
    /\ match_indices \in [Server -> [Server -> Nat]]
    /\ in_flight_client_requests \in [Server -> SUBSET Nat]
    /\ in_flight_peers \in [Server -> SUBSET Server]
    /\ outcome \in [Cmd -> Outcomes]
    /\ CredibleMessages /\ NextWithinLog /\ WaitingWithinLog

\* The conjuncts that committing and applying can disturb.
ApplyOK ==
    /\ commit_index \in [Server -> Nat]
    /\ last_applied \in [Server -> Nat]
    /\ applied \in SUBSET (Nat \X Cmd)
    /\ CommitWithinLog

\* The conjuncts about persistent state, and the rest of the types.
RestOK ==
    /\ current_term \in [Server -> Term]
    /\ voted_for \in [Server -> Server \cup {None}]
    /\ log \in [Server -> Seq(Entry)]
    /\ leader_id \in [Server -> Server \cup {None}]
    /\ links \in SUBSET (SUBSET Server)
    /\ origin \in [Cmd -> Server]
    /\ faults \in Nat
    /\ ballots \in SUBSET [term : Term, voter : Server, candidate : Server]
    /\ elected \in SUBSET [term : Term, leader : Server]

LEMMA IndexInvParts == IndexInv <=> RoleOK /\ ApplyOK /\ RestOK
<1>1. CredibleMessages => rpcs \in SUBSET Message
    BY DEF CredibleMessages, Credible
<1> QED BY <1>1 DEF IndexInv, RoleOK, ApplyOK, RestOK, TypeOK, Outcomes

\* Indices of a log that grows.
LEMMA NextStays ==
    ASSUME IndexInv, NEW i \in Server, NEW lg, LogStep(i, lg), UNCHANGED next_indices
    PROVE  NextWithinLog'
<1> SUFFICES ASSUME NEW j \in Server, NEW p \in Server PROVE next_indices[j][p] <= Len(log'[j]) + 1
    BY DEF NextWithinLog
<1>1. next_indices[j][p] \in Int /\ next_indices[j][p] <= Len(log[j]) + 1
    BY DEF IndexInv, TypeOK, NextWithinLog
<1>2. Len(log[j]) \in Nat /\ Len(log'[j]) \in Nat /\ Len(log'[j]) >= Len(log[j])
    BY LogStepFacts DEF IndexInv
<1> QED BY <1>1, <1>2

LEMMA WaitingStays ==
    ASSUME IndexInv, NEW i \in Server, NEW lg, LogStep(i, lg), UNCHANGED in_flight_client_requests
    PROVE  WaitingWithinLog'
<1> SUFFICES ASSUME NEW j \in Server, NEW k \in in_flight_client_requests[j] PROVE k \in 1 .. Len(log'[j])
    BY DEF WaitingWithinLog
<1>1. k \in 1 .. Len(log[j])
    BY DEF IndexInv, WaitingWithinLog
<1>2. Len(log[j]) \in Nat /\ Len(log'[j]) \in Nat /\ Len(log'[j]) >= Len(log[j])
    BY LogStepFacts DEF IndexInv
<1> QED BY <1>1, <1>2

LEMMA RoleStays ==
    ASSUME IndexInv, NEW i \in Server, NEW lg, LogStep(i, lg), NEW msgs,
           \A m \in msgs : Credible(m, log'), StayInRole(msgs)
    PROVE  RoleOK'
<1>1. RoleOK
    BY IndexInvParts
<1>2. NextWithinLog' /\ WaitingWithinLog'
    BY NextStays, WaitingStays DEF StayInRole, leaderVars
<1>3. CredibleMessages'
    BY DEF StayInRole, CredibleMessages
<1> QED BY <1>1, <1>2, <1>3 DEF RoleOK, StayInRole, leaderVars

LEMMA LeaveRoleFacts ==
    ASSUME IndexInv, NEW i \in Server, NEW new, LogStep(i, new),
           NEW newRole \in Roles, NEW out \in [Cmd -> Outcomes], NEW lg \in Seq(Entry),
           NEW inFlight \in SUBSET (1 .. Len(lg)), NEW msgs, \A m \in msgs : Credible(m, log'),
           LeaveRole(i, newRole, out, lg, inFlight, msgs)
    PROVE  RoleOK'
<1>1. RoleOK
    BY IndexInvParts
<1>2. log' \in [Server -> Seq(Entry)] /\ \A j \in Server : Len(log[j]) \in Nat /\ Len(log'[j]) \in Nat /\ Len(log'[j]) >= Len(log[j])
    BY LogStepFacts DEF IndexInv
<1>3. outcome' \in [Cmd -> Outcomes] /\ CredibleMessages'
    <2>1. \A m \in Abandon(i, msgs) : Credible(m, log')
        BY AbandonCredible
    <2>2. Waiting(lg, inFlight) \in SUBSET Cmd
        BY WaitingCommands
    <2>3. AnswerClients(i, Waiting(lg, inFlight), FALSE, out, Abandon(i, msgs))
        BY DEF LeaveRole
    <2>4. origin \in [Cmd -> Server]
        BY DEF IndexInv, TypeOK
    <2>5. outcome' \in [Cmd -> Outcomes] /\ \A m \in rpcs' : Credible(m, log')
        BY <2>1, <2>2, <2>3, <2>4, AnswerClientsFacts
    <2> QED BY <2>5 DEF CredibleMessages
<1>4. /\ role' \in [Server -> Roles] /\ votes' \in [Server -> SUBSET Server]
      /\ next_indices' \in [Server -> [Server -> Int]] /\ match_indices' \in [Server -> [Server -> Nat]]
      /\ in_flight_client_requests' \in [Server -> SUBSET Nat] /\ in_flight_peers' \in [Server -> SUBSET Server]
    BY <1>1 DEF LeaveRole, RoleOK
<1>5. NextWithinLog'
    <2> SUFFICES ASSUME NEW j \in Server, NEW p \in Server PROVE next_indices'[j][p] <= Len(log'[j]) + 1
        BY DEF NextWithinLog
    <2>1. next_indices' = [next_indices EXCEPT ![i] = [q \in Server |-> 1]]
        BY DEF LeaveRole
    <2>2. CASE j = i
        BY <1>1, <1>2, <2>1, <2>2 DEF RoleOK
    <2>3. CASE j # i
        <3>1. next_indices'[j][p] = next_indices[j][p]
            BY <1>1, <2>1, <2>3 DEF RoleOK
        <3>2. next_indices[j][p] \in Int /\ next_indices[j][p] <= Len(log[j]) + 1
            BY <1>1 DEF RoleOK, NextWithinLog
        <3> QED BY <1>2, <3>1, <3>2
    <2> QED BY <2>2, <2>3
<1>6. WaitingWithinLog'
    <2> SUFFICES ASSUME NEW j \in Server, NEW k \in in_flight_client_requests'[j] PROVE k \in 1 .. Len(log'[j])
        BY DEF WaitingWithinLog
    <2>1. in_flight_client_requests' = [in_flight_client_requests EXCEPT ![i] = {}]
        BY DEF LeaveRole
    <2>2. k \in in_flight_client_requests[j]
        BY <1>1, <2>1 DEF RoleOK
    <2>3. k \in 1 .. Len(log[j])
        BY <1>1, <2>2 DEF RoleOK, WaitingWithinLog
    <2> QED BY <1>2, <2>3
<1> QED BY <1>3, <1>4, <1>5, <1>6 DEF RoleOK

LEMMA BecomeFollowerFacts ==
    ASSUME IndexInv, NEW i \in Server, NEW new, LogStep(i, new),
           NEW msgs, \A m \in msgs : Credible(m, log'), BecomeFollower(i, msgs)
    PROVE  RoleOK'
<1>1. LeaveRole(i, "Follower", outcome, log[i], in_flight_client_requests[i], msgs)
    BY DEF BecomeFollower
<1>2. /\ "Follower" \in Roles /\ outcome \in [Cmd -> Outcomes] /\ log[i] \in Seq(Entry)
      /\ in_flight_client_requests[i] \in SUBSET (1 .. Len(log[i]))
    BY DEF IndexInv, TypeOK, WaitingWithinLog, Roles, RunningRoles, Outcomes
<1> QED BY <1>1, <1>2, LeaveRoleFacts

\* Nothing is committed or applied while a log grows.
LEMMA ApplyStays ==
    ASSUME IndexInv, NEW i \in Server, NEW lg, LogStep(i, lg), UNCHANGED applyVars
    PROVE  ApplyOK'
<1>1. ApplyOK
    BY IndexInvParts
<1>2. \A j \in Server : Len(log[j]) \in Nat /\ Len(log'[j]) \in Nat /\ Len(log'[j]) >= Len(log[j])
    BY LogStepFacts DEF IndexInv
<1>3. CommitWithinLog'
    <2> SUFFICES ASSUME NEW j \in Server
                 PROVE commit_index[j] <= Len(log'[j]) /\ last_applied[j] <= Len(log'[j])
        BY DEF CommitWithinLog, applyVars
    <2> QED BY <1>1, <1>2 DEF ApplyOK, CommitWithinLog
<1> QED BY <1>1, <1>3 DEF ApplyOK, applyVars

LEMMA StopFacts ==
    ASSUME IndexInv, NEW i \in Server, NEW new, LogStep(i, new),
           NEW newRole \in Roles, NEW out \in [Cmd -> Outcomes], NEW lg \in Seq(Entry),
           NEW inFlight \in SUBSET (1 .. Len(lg)), NEW msgs, \A m \in msgs : Credible(m, log'),
           Stop(i, newRole, out, lg, inFlight, msgs)
    PROVE  /\ RoleOK' /\ ApplyOK'
           /\ leader_id' \in [Server -> Server \cup {None}]
<1>1. RoleOK'
    BY LeaveRoleFacts DEF Stop
<1>2. ApplyOK
    BY IndexInvParts
<1>3. \A j \in Server : Len(log[j]) \in Nat /\ Len(log'[j]) \in Nat /\ Len(log'[j]) >= Len(log[j])
    BY LogStepFacts DEF IndexInv
<1>4. CommitWithinLog'
    <2> SUFFICES ASSUME NEW j \in Server
                 PROVE commit_index'[j] <= Len(log'[j]) /\ last_applied'[j] <= Len(log'[j])
        BY DEF CommitWithinLog
    <2>1. /\ commit_index'[j] = IF j = i THEN 0 ELSE commit_index[j]
          /\ last_applied'[j] = IF j = i THEN 0 ELSE last_applied[j]
        BY <1>2 DEF Stop, ApplyOK
    <2>2. /\ commit_index[j] <= Len(log[j]) /\ commit_index[j] \in Nat
          /\ last_applied[j] <= Len(log[j]) /\ last_applied[j] \in Nat
        BY <1>2 DEF ApplyOK, CommitWithinLog
    <2>3. Len(log[j]) \in Nat /\ Len(log'[j]) \in Nat /\ Len(log'[j]) >= Len(log[j])
        BY <1>3
    <2> QED BY <2>1, <2>2, <2>3
<1>5. ApplyOK'
    BY <1>2, <1>4 DEF ApplyOK, Stop
<1>6. leader_id' \in [Server -> Server \cup {None}]
    BY DEF Stop, IndexInv, TypeOK
<1> QED BY <1>1, <1>5, <1>6

LEMMA ApplyLogFacts ==
    ASSUME IndexInv, NEW i \in Server, NEW lg, LogStep(i, lg),
           NEW commit \in Nat, commit <= Len(lg), ApplyLog(i, lg, commit)
    PROVE  ApplyOK'
<1> DEFINE last == Smaller(commit, Len(lg))
<1>1. ApplyOK
    BY IndexInvParts
<1>2. /\ log'[i] = lg /\ lg \in Seq(Entry) /\ Len(lg) \in Nat
      /\ \A j \in Server : Len(log[j]) \in Nat /\ Len(log'[j]) \in Nat /\ Len(log'[j]) >= Len(log[j])
    BY LogStepFacts DEF IndexInv, LogStep
<1>3. last \in Nat /\ last <= Len(lg)
    BY <1>2 DEF Smaller
<1> HIDE DEF last
<1>4. /\ commit_index' = [commit_index EXCEPT ![i] = commit]
      /\ last_applied' = [last_applied EXCEPT ![i] = Larger(last_applied[i], last)]
      /\ applied' = applied \cup {<<k, lg[k].cmd>> : k \in last_applied[i] + 1 .. last}
    BY DEF ApplyLog, last
<1>5. last_applied[i] \in Nat /\ last_applied[i] <= Len(log[i])
    BY <1>1 DEF ApplyOK, CommitWithinLog
<1>6. Larger(last_applied[i], last) \in Nat /\ Larger(last_applied[i], last) <= Len(lg)
    BY <1>2, <1>3, <1>5 DEF Larger
<1>7. commit_index' \in [Server -> Nat] /\ last_applied' \in [Server -> Nat]
    BY <1>1, <1>4, <1>6 DEF ApplyOK
<1>8. applied' \in SUBSET (Nat \X Cmd)
    <2>1. \A k \in last_applied[i] + 1 .. last : k \in Nat /\ lg[k] \in Entry
        BY <1>2, <1>3, <1>5, ElementOfSeq
    <2>2. \A k \in last_applied[i] + 1 .. last : k \in Nat /\ lg[k].cmd \in Cmd
        BY <2>1 DEF Entry
    <2> QED BY <1>1, <1>4, <2>2 DEF ApplyOK
<1>9. CommitWithinLog'
    <2> SUFFICES ASSUME NEW j \in Server
                 PROVE commit_index'[j] <= Len(log'[j]) /\ last_applied'[j] <= Len(log'[j])
        BY DEF CommitWithinLog
    <2>1. CASE j = i
        BY <1>1, <1>2, <1>4, <1>6, <2>1 DEF ApplyOK
    <2>2. CASE j # i
        <3>1. commit_index'[j] = commit_index[j] /\ last_applied'[j] = last_applied[j]
            BY <1>1, <1>4, <2>2 DEF ApplyOK
        <3>2. /\ commit_index[j] <= Len(log[j]) /\ commit_index[j] \in Nat
              /\ last_applied[j] <= Len(log[j]) /\ last_applied[j] \in Nat
            BY <1>1 DEF ApplyOK, CommitWithinLog
        <3>3. Len(log[j]) \in Nat /\ Len(log'[j]) \in Nat /\ Len(log'[j]) >= Len(log[j])
            BY <1>2
        <3> QED BY <3>1, <3>2, <3>3
    <2> QED BY <2>1, <2>2
<1> QED BY <1>7, <1>8, <1>9 DEF ApplyOK

LEMMA LeaderLoopTopFacts ==
    ASSUME IndexInv, NEW i \in Server, NEW lg, LogStep(i, lg), NEW match,
           NEW inFlight \in SUBSET (1 .. Len(lg)), NEW out \in [Cmd -> Outcomes],
           NEW msgs, \A m \in msgs : Credible(m, log'),
           LeaderLoopTop(i, lg, match, inFlight, out, msgs)
    PROVE  /\ ApplyOK'
           /\ in_flight_client_requests' \in [Server -> SUBSET Nat] /\ WaitingWithinLog'
           /\ outcome' \in [Cmd -> Outcomes]
           /\ \A m \in rpcs' : Credible(m, log') /\ (m \in msgs \/ m.kind = "ForwardAnswer")
<1>1. PICK n \in commit_index[i] .. Len(lg) :
          /\ ApplyLog(i, lg, n)
          /\ in_flight_client_requests' =
                 [in_flight_client_requests EXCEPT ![i] = inFlight \ Acknowledged(inFlight, n)]
          /\ AnswerClients(i, Waiting(lg, Acknowledged(inFlight, n)), TRUE, out, msgs)
    BY DEF LeaderLoopTop
<1>2. /\ lg \in Seq(Entry) /\ log'[i] = lg
      /\ \A j \in Server : Len(log[j]) \in Nat /\ Len(log'[j]) \in Nat /\ Len(log'[j]) >= Len(log[j])
    BY LogStepFacts DEF IndexInv, LogStep
<1>3. n \in Nat /\ n <= Len(lg)
    BY <1>2 DEF IndexInv, TypeOK
<1>4. ApplyOK'
    BY <1>1, <1>3, ApplyLogFacts
<1>5. Acknowledged(inFlight, n) \in SUBSET (1 .. Len(lg))
    BY DEF Acknowledged
<1>6. outcome' \in [Cmd -> Outcomes] /\ \A m \in rpcs' : Credible(m, log') /\ (m \in msgs \/ m.kind = "ForwardAnswer")
    <2>1. Waiting(lg, Acknowledged(inFlight, n)) \in SUBSET Cmd
        BY <1>2, <1>5, WaitingCommands
    <2>2. origin \in [Cmd -> Server]
        BY DEF IndexInv, TypeOK
    <2> QED BY <1>1, <2>1, <2>2, AnswerClientsFacts
<1>7. /\ in_flight_client_requests \in [Server -> SUBSET Nat]
      /\ \A j \in Server : in_flight_client_requests[j] \subseteq 1 .. Len(log[j])
    BY DEF IndexInv, TypeOK, WaitingWithinLog
<1>8. in_flight_client_requests' \in [Server -> SUBSET Nat]
    <2>1. 1 .. Len(lg) \subseteq Nat
        BY <1>2
    <2>2. inFlight \ Acknowledged(inFlight, n) \in SUBSET Nat
        BY <2>1
    <2> QED BY <1>1, <1>7, <2>2
<1>9. WaitingWithinLog'
    <2> SUFFICES ASSUME NEW j \in Server, NEW k \in in_flight_client_requests'[j] PROVE k \in 1 .. Len(log'[j])
        BY DEF WaitingWithinLog
    <2>1. CASE j = i
        BY <1>1, <1>2, <1>7, <2>1
    <2>2. CASE j # i
        <3>1. k \in 1 .. Len(log[j])
            BY <1>1, <1>7, <2>2
        <3> QED BY <1>2, <3>1
    <2> QED BY <2>1, <2>2
<1> QED BY <1>4, <1>6, <1>8, <1>9

LEMMA ReplicateFacts ==
    ASSUME IndexInv, NEW i \in Server, NEW lg, LogStep(i, lg), NEW peers \in SUBSET Server,
           NEW next \in [Server -> Int], \A p \in Server : next[p] <= Len(lg) + 1,
           NEW inFlight \in SUBSET (1 .. Len(lg)), NEW inFlightPeers \in SUBSET Server,
           NEW out \in [Cmd -> Outcomes], NEW msgs, \A m \in msgs : Credible(m, log'),
           Replicate(i, peers, lg, next, inFlight, inFlightPeers, out, msgs)
    PROVE  /\ RoleOK' /\ ApplyOK'
           /\ leader_id' \in [Server -> Server \cup {None}]
<1> DEFINE targets == Targets(i, peers, inFlightPeers)
<1>1. targets \in SUBSET Server
    BY DEF Targets
<1>2. lg \in Seq(Entry) /\ RoleOK /\ leader_id \in [Server -> Server \cup {None}]
    BY IndexInvParts DEF LogStep, RestOK
<1> HIDE DEF targets
<1>3. CASE Underflows(targets, next)
    <2>1. PICK sent \in SUBSET {p \in targets : next[p] >= 1} :
              Stop(i, "UnderflowPanic", out, lg, inFlight, msgs \cup Calls(i, sent, lg, next))
        BY <1>3 DEF Replicate, targets, PanicInAppendEntries
    <2>2. \A m \in msgs \cup Calls(i, sent, lg, next) : Credible(m, log')
        BY <1>1, CallsCredible DEF Calls
    <2>3. "UnderflowPanic" \in Roles
        BY DEF Roles, Panics
    <2> QED BY <1>2, <2>1, <2>2, <2>3, StopFacts
<1>4. CASE ~Underflows(targets, next)
    <2>1. /\ LeaderLoopTop(i, lg, match_indices[i], inFlight, out, msgs \cup Calls(i, targets, lg, next))
          /\ next_indices' = [next_indices EXCEPT ![i] = next]
          /\ in_flight_peers' = [in_flight_peers EXCEPT ![i] = inFlightPeers \cup targets]
          /\ UNCHANGED <<role, leader_id, votes, match_indices>>
        BY <1>4 DEF Replicate, targets
    <2>2. \A p \in targets : next[p] >= 1
        BY <1>1, <1>4 DEF Underflows
    <2>3. \A m \in msgs \cup Calls(i, targets, lg, next) : Credible(m, log')
        BY <1>1, <2>2, CallsCredible DEF Calls
    <2>4. /\ ApplyOK'
          /\ in_flight_client_requests' \in [Server -> SUBSET Nat] /\ WaitingWithinLog'
          /\ outcome' \in [Cmd -> Outcomes]
          /\ CredibleMessages'
        BY <2>1, <2>3, LeaderLoopTopFacts DEF CredibleMessages
    <2>5. NextWithinLog'
        <3> SUFFICES ASSUME NEW j \in Server, NEW p \in Server PROVE next_indices'[j][p] <= Len(log'[j]) + 1
            BY DEF NextWithinLog
        <3>1. next_indices \in [Server -> [Server -> Int]]
            BY <1>2 DEF RoleOK
        <3>2. CASE j = i
            <4>1. next_indices'[j][p] = next[p] /\ log'[j] = lg
                BY <2>1, <3>1, <3>2, LogStepFacts DEF IndexInv
            <4> QED BY <4>1
        <3>3. CASE j # i
            <4>1. next_indices'[j][p] = next_indices[j][p]
                BY <2>1, <3>1, <3>3
            <4>2. next_indices[j][p] \in Int /\ next_indices[j][p] <= Len(log[j]) + 1
                BY <1>2 DEF RoleOK, NextWithinLog
            <4>3. Len(log[j]) \in Nat /\ Len(log'[j]) \in Nat /\ Len(log'[j]) >= Len(log[j])
                BY LogStepFacts DEF IndexInv
            <4> QED BY <4>1, <4>2, <4>3
        <3> QED BY <3>2, <3>3
    <2>6. next_indices' \in [Server -> [Server -> Int]] /\ in_flight_peers' \in [Server -> SUBSET Server]
        BY <1>1, <1>2, <2>1 DEF RoleOK
    <2> QED BY <1>2, <2>1, <2>4, <2>5, <2>6 DEF RoleOK
<1> QED BY <1>3, <1>4

-----------------------------------------------------------------------------
(* Every action preserves IndexInv *)

\* The shape of most steps: no log changes, nothing is applied.
QuietStep == UNCHANGED <<log, applyVars>>

LEMMA QuietStepFacts ==
    ASSUME IndexInv, NEW i \in Server, QuietStep
    PROVE  /\ LogStep(i, log[i])
           /\ ApplyOK'
           /\ UNCHANGED next_indices => NextWithinLog'
           /\ UNCHANGED in_flight_client_requests => WaitingWithinLog'
           /\ \A m \in rpcs : Credible(m, log')
<1>1. LogStep(i, log[i])
    BY LogStays DEF IndexInv, QuietStep
<1>2. ApplyOK'
    BY <1>1, ApplyStays DEF QuietStep
<1> QED BY <1>1, <1>2, NextStays, WaitingStays, StillCredible

LEMMA ElectionTimeoutIndices ==
    ASSUME IndexInv, NEW i \in Server, ElectionTimeout(i)
    PROVE  IndexInv'
<1> DEFINE calls == {[kind |-> "RequestVote", from |-> i, to |-> p, term |-> current_term[i] + 1,
                      last_log_index |-> Len(log[i]), live |-> TRUE] : p \in {q \in Peers(i) : {i, q} \in links}}
<1>1. RoleOK /\ RestOK
    BY IndexInvParts
<1>2. /\ QuietStep /\ UNCHANGED <<leaderVars, links, outcome, origin, faults, elected>>
      /\ current_term' = [current_term EXCEPT ![i] = @ + 1]
      /\ voted_for' = [voted_for EXCEPT ![i] = i]
      /\ ballots' = ballots \cup {[term |-> current_term[i] + 1, voter |-> i, candidate |-> i]}
      /\ role' = [role EXCEPT ![i] = "Candidate"]
      /\ leader_id' = [leader_id EXCEPT ![i] = None]
      /\ votes' = [votes EXCEPT ![i] = {i}]
      /\ rpcs' = Abandon(i, rpcs) \cup calls
    BY DEF ElectionTimeout, QuietStep, userVars
<1>3. ApplyOK' /\ NextWithinLog' /\ WaitingWithinLog' /\ \A m \in rpcs : Credible(m, log')
    BY <1>2, QuietStepFacts DEF leaderVars
<1>4. CredibleMessages'
    <2>1. \A m \in Abandon(i, rpcs) : Credible(m, log')
        BY <1>3, AbandonCredible
    <2>2. Len(log[i]) \in Nat /\ current_term[i] + 1 \in Nat
        BY <1>1, LenProperties DEF RestOK, Term
    <2>3. ASSUME NEW m \in calls PROVE m \in RequestVoteRequest /\ m.kind = "RequestVote"
        <3>1. PICK p \in Server : m = [kind |-> "RequestVote", from |-> i, to |-> p, term |-> current_term[i] + 1,
                                      last_log_index |-> Len(log[i]), live |-> TRUE]
            BY DEF Peers
        <3> QED BY <2>2, <3>1 DEF RequestVoteRequest, Term
    <2>4. \A m \in calls : Credible(m, log')
        BY <2>3 DEF Credible, Message
    <2> QED BY <1>2, <2>1, <2>4 DEF CredibleMessages
<1>5. RoleOK'
    BY <1>1, <1>2, <1>3, <1>4 DEF RoleOK, leaderVars, Roles, RunningRoles
<1>6. RestOK'
    BY <1>1, <1>2 DEF RestOK, Term, QuietStep
<1> QED BY <1>3, <1>5, <1>6, IndexInvParts, PTL

LEMMA ReceiveRequestVoteIndices ==
    ASSUME IndexInv, NEW m \in rpcs, ReceiveRequestVote(m)
    PROVE  IndexInv'
<1> DEFINE i == m.to
           newTerm == m.term > current_term[i]
           vote == IF newTerm THEN None ELSE voted_for[i]
           granted == (role[i] = "Leader" => newTerm) /\ VoteGrantedTo(m, i, vote)
           reply == IF granted /\ m.live
                    THEN {[kind |-> "VoteGranted", from |-> i, to |-> m.from, term |-> m.term]} ELSE {}
           msgs == (rpcs \ {m}) \cup reply
<1>1. RoleOK /\ RestOK
    BY IndexInvParts
<1>2. m \in RequestVoteRequest /\ i \in Server /\ m.from \in Server /\ m.term \in Nat
    BY MessageKinds DEF IndexInv, TypeOK, ReceiveRequestVote, RequestVoteRequest, Term
<1>3. /\ QuietStep /\ UNCHANGED <<leader_id, links, origin, faults, elected>>
      /\ current_term' = [current_term EXCEPT ![i] = Larger(@, m.term)]
      /\ voted_for' = [voted_for EXCEPT ![i] = IF granted THEN m.from ELSE vote]
      /\ ballots' = IF granted THEN ballots \cup {[term |-> m.term, voter |-> i, candidate |-> m.from]}
                               ELSE ballots
      /\ IF newTerm THEN BecomeFollower(i, msgs) ELSE StayInRole(msgs)
    BY DEF ReceiveRequestVote, QuietStep
<1>4. ApplyOK' /\ LogStep(i, log[i]) /\ \A x \in msgs : Credible(x, log')
    <2>1. ApplyOK' /\ LogStep(i, log[i]) /\ \A x \in rpcs : Credible(x, log')
        BY <1>2, <1>3, QuietStepFacts
    <2>2. \A x \in reply : x \in VoteGranted /\ x.kind = "VoteGranted"
        BY <1>2 DEF VoteGranted, Term
    <2>3. \A x \in reply : Credible(x, log')
        BY <2>2 DEF Credible, Message
    <2> QED BY <2>1, <2>3
<1>5. RestOK'
    <2>1. current_term[i] \in Nat /\ voted_for[i] \in Server \cup {None}
        BY <1>1, <1>2 DEF RestOK, Term
    <2>2. Larger(current_term[i], m.term) \in Nat /\ vote \in Server \cup {None}
        BY <1>2, <2>1 DEF Larger
    <2>3. ballots' \in SUBSET [term : Term, voter : Server, candidate : Server]
        BY <1>1, <1>2, <1>3 DEF RestOK, Term
    <2> HIDE DEF vote, granted
    <2>4. current_term' \in [Server -> Term] /\ voted_for' \in [Server -> Server \cup {None}]
        BY <1>1, <1>2, <1>3, <2>2 DEF RestOK, Term
    <2> QED BY <1>1, <1>3, <2>3, <2>4 DEF RestOK, QuietStep
<1>6. RoleOK'
    <2> HIDE DEF newTerm, msgs
    <2>1. CASE newTerm
        BY <1>2, <1>3, <1>4, <2>1, BecomeFollowerFacts
    <2>2. CASE ~newTerm
        BY <1>2, <1>3, <1>4, <2>2, RoleStays
    <2> QED BY <2>1, <2>2
<1> QED BY <1>4, <1>5, <1>6, IndexInvParts, PTL

LEMMA ReceiveVoteIndices ==
    ASSUME IndexInv, NEW m \in rpcs, ReceiveVote(m)
    PROVE  IndexInv'
<1> DEFINE i == m.to
           received == votes[i] \cup {m.from}
           won == Cardinality(received) >= Quorum
<1>1. RoleOK /\ RestOK
    BY IndexInvParts
<1>2. i \in Server /\ m.from \in Server
    BY MessageKinds DEF IndexInv, TypeOK
<1>3. /\ QuietStep /\ UNCHANGED <<current_term, voted_for, match_indices, in_flight_client_requests,
                                  in_flight_peers, links, origin, outcome, faults, ballots>>
      /\ votes' = [votes EXCEPT ![i] = IF won THEN {} ELSE received]
      /\ rpcs' = IF won THEN Abandon(i, rpcs) ELSE rpcs \ {m}
      /\ IF won
         THEN /\ role' = [role EXCEPT ![i] = "Leader"]
              /\ leader_id' = [leader_id EXCEPT ![i] = i]
              /\ next_indices' = [next_indices EXCEPT ![i] = [p \in Server |-> Len(log[i]) + 1]]
              /\ elected' = elected \cup {[term |-> current_term[i], leader |-> i]}
         ELSE UNCHANGED <<role, leader_id, next_indices, elected>>
    BY DEF ReceiveVote, QuietStep, persistentVars, userVars
<1>4. ApplyOK' /\ (UNCHANGED next_indices => NextWithinLog') /\ WaitingWithinLog' /\ \A x \in rpcs : Credible(x, log')
    BY <1>2, <1>3, QuietStepFacts
<1>5. \A x \in Abandon(i, rpcs) : Credible(x, log')
    BY <1>2, <1>4, AbandonCredible
<1>6. votes[i] \cup {m.from} \in SUBSET Server
    BY <1>1, <1>2 DEF RoleOK
<1> HIDE DEF won
<1>7. CredibleMessages'
    BY <1>3, <1>4, <1>5 DEF CredibleMessages
<1>8. Len(log[i]) \in Nat
    BY <1>1, <1>2, LenProperties DEF RestOK
<1>9. NextWithinLog' /\ next_indices' \in [Server -> [Server -> Int]]
    <2>1. CASE won
        <3>1. next_indices' = [next_indices EXCEPT ![i] = [p \in Server |-> Len(log[i]) + 1]] /\ UNCHANGED log
            BY <1>3, <2>1 DEF QuietStep
        <3>2. next_indices' \in [Server -> [Server -> Int]]
            <4>1. Len(log[i]) + 1 \in Int
                BY <1>8
            <4>2. [p \in Server |-> Len(log[i]) + 1] \in [Server -> Int]
                BY <4>1
            <4> QED BY <1>1, <3>1, <4>2 DEF RoleOK
        <3>3. ASSUME NEW j \in Server, NEW p \in Server
              PROVE  next_indices'[j][p] <= Len(log[j]) + 1
            <4>1. next_indices[j][p] <= Len(log[j]) + 1
                BY <1>1 DEF RoleOK, NextWithinLog
            <4>2. CASE j = i
                <5>1. next_indices'[j] = [q \in Server |-> Len(log[i]) + 1]
                    BY <1>1, <3>1, <4>2 DEF RoleOK
                <5>2. next_indices'[j][p] = Len(log[j]) + 1
                    BY <4>2, <5>1
                <5> QED BY <1>8, <4>2, <5>2
            <4>3. CASE j # i
                <5>1. next_indices'[j] = next_indices[j]
                    BY <1>1, <3>1, <4>3 DEF RoleOK
                <5> QED BY <4>1, <5>1
            <4> QED BY <4>2, <4>3
        <3> QED BY <3>1, <3>2, <3>3 DEF NextWithinLog
    <2>2. CASE ~won
        BY <1>1, <1>3, <1>4, <2>2 DEF RoleOK
    <2> QED BY <2>1, <2>2
<1>10. RoleOK'
    <2>1. role' \in [Server -> Roles] /\ votes' \in [Server -> SUBSET Server]
        BY <1>1, <1>2, <1>3, <1>6 DEF RoleOK, Roles, RunningRoles
    <2> QED BY <1>1, <1>3, <1>4, <1>7, <1>9, <2>1 DEF RoleOK
<1>11. RestOK'
    <2>1. leader_id' \in [Server -> Server \cup {None}] /\ elected' \in SUBSET [term : Term, leader : Server]
        <3>1. CASE won
            <4>1. /\ leader_id' = [leader_id EXCEPT ![i] = i]
                  /\ elected' = elected \cup {[term |-> current_term[i], leader |-> i]}
                BY <1>3, <3>1
            <4>2. current_term[i] \in Term
                BY <1>1, <1>2 DEF RestOK
            <4>3. [term |-> current_term[i], leader |-> i] \in [term : Term, leader : Server]
                BY <1>2, <4>2
            <4> QED BY <1>1, <1>2, <4>1, <4>3 DEF RestOK
        <3>2. CASE ~won
            BY <1>1, <1>3, <3>2 DEF RestOK
        <3> QED BY <3>1, <3>2
    <2> QED BY <1>1, <1>3, <2>1 DEF RestOK, QuietStep
<1> QED BY <1>4, <1>10, <1>11, IndexInvParts, PTL

LEMMA HeartbeatIndices ==
    ASSUME IndexInv, NEW i \in Server, Heartbeat(i)
    PROVE  IndexInv'
<1>1. RestOK /\ LogStep(i, log[i]) /\ \A x \in rpcs : Credible(x, log')
    BY IndexInvParts, LogStays, StillCredible DEF IndexInv, Heartbeat, persistentVars
<1>2. /\ Peers(i) \in SUBSET Server /\ next_indices[i] \in [Server -> Int]
      /\ in_flight_client_requests[i] \in SUBSET (1 .. Len(log[i]))
      /\ in_flight_peers[i] \in SUBSET Server /\ outcome \in [Cmd -> Outcomes]
      /\ \A p \in Server : next_indices[i][p] <= Len(log[i]) + 1
    BY DEF IndexInv, TypeOK, Peers, NextWithinLog, WaitingWithinLog, Outcomes
<1>3. Replicate(i, Peers(i), log[i], next_indices[i], in_flight_client_requests[i], in_flight_peers[i],
                outcome, rpcs)
    BY DEF Heartbeat
<1>4. RoleOK' /\ ApplyOK' /\ leader_id' \in [Server -> Server \cup {None}]
    BY <1>1, <1>2, <1>3, ReplicateFacts
<1>5. RestOK'
    BY <1>1, <1>4 DEF Heartbeat, RestOK, persistentVars, historyVars
<1> QED BY <1>4, <1>5, IndexInvParts, PTL

LEMMA HandleLogUpdateIndices ==
    ASSUME IndexInv, NEW i \in Server, NEW c \in Cmd, NEW out \in [Cmd -> Outcomes],
           NEW msgs, msgs \subseteq rpcs, HandleLogUpdate(i, c, out, msgs)
    PROVE  IndexInv'
<1> DEFINE lg == Append(log[i], [term |-> current_term[i], cmd |-> c])
<1>1. RestOK /\ log[i] \in Seq(Entry) /\ current_term[i] \in Term
    BY IndexInvParts DEF RestOK
<1>2. lg \in Seq(Entry) /\ Len(lg) = Len(log[i]) + 1 /\ Len(log[i]) \in Nat
    <2>1. [term |-> current_term[i], cmd |-> c] \in Entry
        BY <1>1 DEF Entry
    <2> QED BY <1>1, <2>1, AppendProperties, LenProperties
<1>3. /\ log' = [log EXCEPT ![i] = lg]
      /\ Replicate(i, Peers(i), lg, next_indices[i], in_flight_client_requests[i] \cup {Len(lg)},
                   in_flight_peers[i], out, msgs)
      /\ UNCHANGED <<current_term, voted_for, links, origin, faults, historyVars>>
    BY DEF HandleLogUpdate
<1> HIDE DEF lg
<1>4. LogStep(i, lg) /\ \A x \in msgs : Credible(x, log')
    <2>1. LogStep(i, lg)
        BY <1>2, <1>3 DEF LogStep
    <2> QED BY <2>1, StillCredible
<1>5. /\ Peers(i) \in SUBSET Server /\ next_indices[i] \in [Server -> Int]
      /\ in_flight_peers[i] \in SUBSET Server
    BY DEF IndexInv, TypeOK, Peers
<1>6. in_flight_client_requests[i] \cup {Len(lg)} \in SUBSET (1 .. Len(lg))
    <2>1. \A k \in in_flight_client_requests[i] : k \in 1 .. Len(log[i])
        BY DEF IndexInv, WaitingWithinLog
    <2> QED BY <1>2, <2>1
<1>7. \A p \in Server : next_indices[i][p] <= Len(lg) + 1
    <2>1. \A p \in Server : next_indices[i][p] \in Int /\ next_indices[i][p] <= Len(log[i]) + 1
        BY DEF IndexInv, TypeOK, NextWithinLog
    <2> QED BY <1>2, <2>1
<1>8. RoleOK' /\ ApplyOK' /\ leader_id' \in [Server -> Server \cup {None}]
    BY <1>3, <1>4, <1>5, <1>6, <1>7, ReplicateFacts
<1>9. RestOK'
    BY <1>1, <1>3, <1>4, <1>8, LogStepFacts DEF RestOK, historyVars, IndexInv
<1> QED BY <1>8, <1>9, IndexInvParts, PTL

LEMMA AppendEntriesFailedIndices ==
    ASSUME IndexInv, NEW m \in rpcs, AppendEntriesFailed(m)
    PROVE  IndexInv'
<1>1. m.to \in Server /\ RoleOK /\ RestOK
    BY MessageKinds, IndexInvParts DEF IndexInv, TypeOK
<1>2. /\ QuietStep /\ rpcs' = rpcs \ {m}
      /\ in_flight_peers' = [in_flight_peers EXCEPT ![m.to] = @ \ {m.from}]
      /\ UNCHANGED <<current_term, voted_for, role, leader_id, votes, next_indices, match_indices,
                    in_flight_client_requests, links, origin, outcome, faults, ballots, elected>>
    BY DEF AppendEntriesFailed, QuietStep, persistentVars, userVars, historyVars
<1>3. ApplyOK' /\ NextWithinLog' /\ WaitingWithinLog' /\ \A x \in rpcs : Credible(x, log')
    BY <1>1, <1>2, QuietStepFacts
<1>4. CredibleMessages'
    BY <1>2, <1>3 DEF CredibleMessages
<1>5. RoleOK'
    BY <1>1, <1>2, <1>3, <1>4 DEF RoleOK
<1>6. RestOK'
    BY <1>1, <1>2 DEF RestOK, QuietStep
<1> QED BY <1>3, <1>5, <1>6, IndexInvParts, PTL

LEMMA AppendEntriesNewTermIndices ==
    ASSUME IndexInv, NEW m \in rpcs, AppendEntriesNewTerm(m)
    PROVE  IndexInv'
<1>1. m.to \in Server /\ m.term \in Term /\ RoleOK /\ RestOK
    BY MessageKinds, IndexInvParts DEF IndexInv, TypeOK, AppendEntriesNewTerm, AppendEntriesAnswer
<1>2. /\ QuietStep
      /\ current_term' = [current_term EXCEPT ![m.to] = m.term]
      /\ voted_for' = [voted_for EXCEPT ![m.to] = None]
      /\ BecomeFollower(m.to, rpcs \ {m})
      /\ UNCHANGED <<leader_id, links, origin, faults, ballots, elected>>
    BY DEF AppendEntriesNewTerm, QuietStep, historyVars
<1>3. ApplyOK' /\ LogStep(m.to, log[m.to]) /\ \A x \in rpcs : Credible(x, log')
    BY <1>1, <1>2, QuietStepFacts
<1>4. RoleOK'
    BY <1>1, <1>2, <1>3, BecomeFollowerFacts
<1>5. RestOK'
    BY <1>1, <1>2 DEF RestOK, QuietStep
<1> QED BY <1>3, <1>4, <1>5, IndexInvParts, PTL

LEMMA AppendEntriesSucceededIndices ==
    ASSUME IndexInv, NEW m \in rpcs, AppendEntriesSucceeded(m)
    PROVE  IndexInv'
<1> DEFINE i == m.to
           match == [match_indices[i] EXCEPT ![m.from] = Larger(@, m.end)]
<1>1. i \in Server /\ m.from \in Server /\ m.end \in Nat
    BY MessageKinds DEF IndexInv, TypeOK, AppendEntriesSucceeded, AppendEntriesAnswer
<1>2. RoleOK /\ RestOK /\ LogStep(i, log[i]) /\ \A x \in rpcs : Credible(x, log')
    BY <1>1, IndexInvParts, LogStays, StillCredible DEF IndexInv, AppendEntriesSucceeded, persistentVars
<1>3. /\ next_indices' = [next_indices EXCEPT ![i][m.from] = Larger(@, m.end + 1)]
      /\ match_indices' = [match_indices EXCEPT ![i] = match]
      /\ in_flight_peers' = [in_flight_peers EXCEPT ![i] = @ \ {m.from}]
      /\ LeaderLoopTop(i, log[i], match, in_flight_client_requests[i], outcome, rpcs \ {m})
      /\ UNCHANGED <<current_term, voted_for, log, role, leader_id, votes, links, origin, faults, ballots, elected>>
    BY DEF AppendEntriesSucceeded, persistentVars, historyVars
<1>4. m.end <= Len(log[i]) /\ Len(log[i]) \in Nat
    BY <1>1, LenProperties DEF IndexInv, TypeOK, CredibleMessages, Credible, AppendEntriesSucceeded
<1>5. match \in [Server -> Nat]
    <2>1. match_indices[i] \in [Server -> Nat]
        BY <1>1, <1>2 DEF RoleOK
    <2>2. Larger(match_indices[i][m.from], m.end) \in Nat
        BY <1>1, <2>1 DEF Larger
    <2> QED BY <2>1, <2>2
<1>6. next_indices' \in [Server -> [Server -> Int]] /\ NextWithinLog'
    <2>1. next_indices \in [Server -> [Server -> Int]]
        BY <1>2 DEF RoleOK
    <2>2. /\ Larger(next_indices[i][m.from], m.end + 1) \in Int
          /\ Larger(next_indices[i][m.from], m.end + 1) <= Len(log[i]) + 1
        <3>1. next_indices[i][m.from] \in Int /\ next_indices[i][m.from] <= Len(log[i]) + 1
            BY <1>1, <1>2, <2>1 DEF RoleOK, NextWithinLog
        <3> QED BY <1>1, <1>4, <3>1 DEF Larger
    <2>3. next_indices' \in [Server -> [Server -> Int]]
        BY <1>1, <1>3, <2>1, <2>2
    <2>4. ASSUME NEW j \in Server, NEW p \in Server
          PROVE  next_indices'[j][p] <= Len(log[j]) + 1
        <3>1. next_indices[j][p] <= Len(log[j]) + 1
            BY <1>2 DEF RoleOK, NextWithinLog
        <3> QED BY <1>1, <1>3, <2>1, <2>2, <3>1
    <2> QED BY <1>3, <2>3, <2>4 DEF NextWithinLog
<1>7. /\ ApplyOK'
      /\ in_flight_client_requests' \in [Server -> SUBSET Nat] /\ WaitingWithinLog'
      /\ outcome' \in [Cmd -> Outcomes]
      /\ CredibleMessages'
    <2>1. in_flight_client_requests[i] \in SUBSET (1 .. Len(log[i])) /\ outcome \in [Cmd -> Outcomes]
        BY <1>1, <1>2 DEF RoleOK, WaitingWithinLog
    <2> HIDE DEF i, match
    <2> QED BY <1>1, <1>2, <1>3, <2>1, LeaderLoopTopFacts DEF CredibleMessages
<1>8. match_indices' \in [Server -> [Server -> Nat]] /\ in_flight_peers' \in [Server -> SUBSET Server]
    BY <1>1, <1>2, <1>3, <1>5 DEF RoleOK
<1>9. RoleOK'
    BY <1>2, <1>3, <1>6, <1>7, <1>8 DEF RoleOK
<1>10. RestOK'
    BY <1>2, <1>3 DEF RestOK
<1> QED BY <1>7, <1>9, <1>10, IndexInvParts, PTL

LEMMA AppendEntriesRefusedIndices ==
    ASSUME IndexInv, NEW m \in rpcs, AppendEntriesRefused(m)
    PROVE  IndexInv'
<1> DEFINE i == m.to
           next == [next_indices[i] EXCEPT ![m.from] = Smaller(@, m.start - 1)]
<1>1. i \in Server /\ m.from \in Server /\ m.start \in Nat
    BY MessageKinds DEF IndexInv, TypeOK, AppendEntriesRefused, AppendEntriesAnswer
<1>2. RoleOK /\ RestOK /\ LogStep(i, log[i]) /\ \A x \in rpcs : Credible(x, log')
    BY <1>1, IndexInvParts, LogStays, StillCredible DEF IndexInv, AppendEntriesRefused, persistentVars
<1>3. /\ Replicate(i, {m.from}, log[i], next, in_flight_client_requests[i],
                   in_flight_peers[i] \ {m.from}, outcome, rpcs \ {m})
      /\ UNCHANGED <<current_term, voted_for, log, links, origin, faults, ballots, elected>>
    BY DEF AppendEntriesRefused, persistentVars, historyVars
<1>4. next \in [Server -> Int] /\ \A p \in Server : next[p] <= Len(log[i]) + 1
    <2>1. /\ next_indices[i] \in [Server -> Int]
          /\ \A p \in Server : next_indices[i][p] \in Int /\ next_indices[i][p] <= Len(log[i]) + 1
        BY <1>1, <1>2 DEF RoleOK, NextWithinLog
    <2>2. Len(log[i]) \in Nat
        BY <1>1, <1>2, LenProperties DEF RestOK
    <2>3. /\ Smaller(next_indices[i][m.from], m.start - 1) \in Int
          /\ Smaller(next_indices[i][m.from], m.start - 1) <= Len(log[i]) + 1
        BY <1>1, <2>1, <2>2 DEF Smaller
    <2> QED BY <1>1, <2>1, <2>3
<1>5. /\ in_flight_client_requests[i] \in SUBSET (1 .. Len(log[i]))
      /\ in_flight_peers[i] \ {m.from} \in SUBSET Server /\ outcome \in [Cmd -> Outcomes]
      /\ {m.from} \in SUBSET Server
    BY <1>1, <1>2 DEF RoleOK, WaitingWithinLog
<1> HIDE DEF i, next
<1>6. RoleOK' /\ ApplyOK' /\ leader_id' \in [Server -> Server \cup {None}]
    <2>1. \A x \in rpcs \ {m} : Credible(x, log')
        BY <1>2
    <2>2. Replicate(i, {m.from}, log[i], next, in_flight_client_requests[i],
                    in_flight_peers[i] \ {m.from}, outcome, rpcs \ {m})
        BY <1>3
    <2>3. LogStep(i, log[i])
        BY <1>2
    <2> QED BY ONLY IndexInv, <1>1, <1>4, <1>5, <2>1, <2>2, <2>3, ReplicateFacts
<1>7. RestOK'
    BY <1>2, <1>3, <1>6 DEF RestOK
<1> QED BY <1>6, <1>7, IndexInvParts, PTL

LEMMA ReceiveAppendEntriesIndices ==
    ASSUME IndexInv, NEW m \in rpcs, ReceiveAppendEntries(m)
    PROVE  IndexInv'
<1> DEFINE i == m.to
           newTerm == m.term > current_term[i]
           accepted == m.term >= current_term[i] /\ PrevLogMatches(log[i], m)
           lg == IF accepted THEN Merge(log[i], m.prev_log_index, m.entries) ELSE log[i]
           commit == IF accepted THEN FollowerCommit(commit_index[i], m) ELSE commit_index[i]
           msgs == (rpcs \ {m}) \cup AnswerAppendEntries(m, Larger(current_term[i], m.term), accepted)
<1>1. /\ m \in AppendEntriesRequest /\ m.kind = "AppendEntries" /\ i \in Server /\ m.from \in Server
      /\ m.term \in Nat /\ m.prev_log_index \in Nat /\ m.entries \in Seq(Entry) /\ m.leader_commit \in Nat
      /\ Credible(m, log)
    BY MessageKinds DEF IndexInv, TypeOK, CredibleMessages, ReceiveAppendEntries, AppendEntriesRequest, Term
<1>2. RoleOK /\ ApplyOK /\ RestOK
    BY IndexInvParts
<1>3. /\ current_term' = [current_term EXCEPT ![i] = Larger(@, m.term)]
      /\ voted_for' = [voted_for EXCEPT ![i] = IF newTerm THEN None ELSE @]
      /\ leader_id' = [leader_id EXCEPT ![i] = IF role[i] = "Follower" THEN m.from ELSE @]
      /\ log' = [log EXCEPT ![i] = lg]
      /\ ApplyLog(i, lg, commit)
      /\ IF role[i] # "Follower" THEN BecomeFollower(i, msgs) ELSE StayInRole(msgs)
      /\ UNCHANGED <<links, origin, faults, ballots, elected>>
    BY DEF ReceiveAppendEntries, historyVars
<1>4. /\ current_term[i] \in Nat /\ Larger(current_term[i], m.term) \in Nat /\ log[i] \in Seq(Entry)
      /\ Len(log[i]) \in Nat /\ Len(m.entries) \in Nat
      /\ commit_index[i] \in Nat /\ commit_index[i] <= Len(log[i])
    BY <1>1, <1>2, LenProperties DEF RestOK, ApplyOK, CommitWithinLog, Term, Larger
<1>5. accepted => m.prev_log_index <= Len(log[i])
    BY <1>1, <1>4 DEF PrevLogMatches
<1>6. LogStep(i, lg) /\ Len(lg) \in Nat /\ (accepted => Len(lg) >= m.prev_log_index + Len(m.entries))
    <2>1. CASE accepted
        <3>1. lg = Merge(log[i], m.prev_log_index, m.entries) /\ m.prev_log_index <= Len(log[i])
            BY <1>5, <2>1
        <3> HIDE DEF lg
        <3>2. lg \in Seq(Entry) /\ Len(lg) >= Len(log[i]) /\ Len(lg) >= m.prev_log_index + Len(m.entries)
            BY <1>1, <1>4, <3>1, MergeGrows
        <3> QED BY <1>3, <3>2, LenProperties DEF LogStep
    <2>2. CASE ~accepted
        BY <1>2, <1>3, <1>4, <2>2 DEF LogStep, RestOK
    <2> QED BY <2>1, <2>2
<1>7. commit \in Nat /\ commit <= Len(lg)
    <2>1. CASE accepted
        <3> HIDE DEF lg
        <3>1. /\ Len(lg) >= Len(log[i]) /\ Len(lg) >= m.prev_log_index + Len(m.entries)
              /\ m.entries = <<>> => m.leader_commit <= m.prev_log_index
              /\ commit = FollowerCommit(commit_index[i], m)
            BY <1>1, <1>6, <2>1 DEF LogStep, Credible
        <3> HIDE DEF commit
        <3>2. m.entries # <<>> => Smaller(m.leader_commit, m.prev_log_index + Len(m.entries)) \in Nat
                                    /\ Smaller(m.leader_commit, m.prev_log_index + Len(m.entries))
                                           <= m.prev_log_index + Len(m.entries)
            BY <1>1, <1>4 DEF Smaller
        <3> QED BY <1>1, <1>4, <1>6, <3>1, <3>2 DEF FollowerCommit
    <2>2. CASE ~accepted
        BY <1>4, <2>2
    <2> QED BY <2>1, <2>2
<1> HIDE DEF lg, commit
<1>8. ApplyOK'
    BY <1>1, <1>3, <1>6, <1>7, ApplyLogFacts
<1>9. \A x \in msgs : Credible(x, log')
    <2>1. \A x \in rpcs : Credible(x, log')
        BY <1>1, <1>6, StillCredible
    <2>2. accepted \in BOOLEAN
        BY DEF PrevLogMatches
    <2> HIDE DEF accepted
    <2> QED BY <1>1, <1>4, <2>1, <2>2, AnswerAppendEntriesFacts
<1> HIDE DEF msgs
<1>10. RoleOK'
    BY <1>1, <1>3, <1>6, <1>9, BecomeFollowerFacts, RoleStays
<1>11. RestOK'
    BY <1>1, <1>2, <1>3, <1>4, <1>6, LogStepFacts DEF RestOK, IndexInv, Term
<1> QED BY <1>8, <1>10, <1>11, IndexInvParts, PTL

LEMMA RefuseAppendEntriesIndices ==
    ASSUME IndexInv, NEW m \in rpcs, RefuseAppendEntries(m)
    PROVE  IndexInv'
<1>1. m.to \in Server /\ m \in AppendEntriesRequest /\ m.kind = "AppendEntries" /\ RoleOK /\ RestOK
    BY MessageKinds, IndexInvParts DEF IndexInv, TypeOK, RefuseAppendEntries
<1>2. /\ QuietStep /\ StayInRole((rpcs \ {m}) \cup AnswerAppendEntries(m, current_term[m.to], FALSE))
      /\ UNCHANGED <<current_term, voted_for, leader_id, links, origin, faults, ballots, elected>>
    BY DEF RefuseAppendEntries, QuietStep, StayInRole, persistentVars, userVars, historyVars
<1>3. ApplyOK' /\ LogStep(m.to, log[m.to]) /\ \A x \in rpcs : Credible(x, log')
    BY <1>1, <1>2, QuietStepFacts
<1>4. \A x \in AnswerAppendEntries(m, current_term[m.to], FALSE) : Credible(x, log')
    <2>1. current_term[m.to] \in Nat
        BY <1>1 DEF RestOK, Term
    <2> QED BY <1>1, <1>3, <2>1, AnswerAppendEntriesFacts
<1>5. RoleOK'
    BY <1>1, <1>2, <1>3, <1>4, RoleStays
<1>6. RestOK'
    BY <1>1, <1>2 DEF RestOK, QuietStep
<1> QED BY <1>3, <1>5, <1>6, IndexInvParts, PTL

LEMMA PanicInOverwriteLogIndices ==
    ASSUME IndexInv, NEW m \in rpcs, PanicInOverwriteLog(m)
    PROVE  IndexInv'
<1> DEFINE i == m.to
           msgs == (rpcs \ {m}) \cup FailAppendEntries(m)
<1>1. i \in Server /\ m \in AppendEntriesRequest /\ m.kind = "AppendEntries" /\ m.term \in Term
    BY MessageKinds DEF IndexInv, TypeOK, PanicInOverwriteLog, AppendEntriesRequest
<1>2. /\ UNCHANGED <<log, links, origin, faults, ballots, elected>>
      /\ current_term' = [current_term EXCEPT ![i] = m.term]
      /\ voted_for' = [voted_for EXCEPT ![i] = IF m.term > current_term[i] THEN None ELSE @]
      /\ Stop(i, "OverwritePanic", outcome, log[i], in_flight_client_requests[i], msgs)
    BY DEF PanicInOverwriteLog, historyVars
<1>3. RoleOK /\ RestOK /\ LogStep(i, log[i]) /\ \A x \in rpcs : Credible(x, log')
    BY <1>1, <1>2, IndexInvParts, LogStays, StillCredible DEF IndexInv
<1>4. \A x \in msgs : Credible(x, log')
    BY <1>1, <1>3, AnswerAppendEntriesFacts
<1>5. /\ in_flight_client_requests[i] \in SUBSET (1 .. Len(log[i])) /\ outcome \in [Cmd -> Outcomes]
      /\ "OverwritePanic" \in Roles /\ log[i] \in Seq(Entry)
    BY <1>1, <1>3 DEF RoleOK, RestOK, WaitingWithinLog, Roles, Panics
<1> HIDE DEF i, msgs
<1>6. RoleOK' /\ ApplyOK' /\ leader_id' \in [Server -> Server \cup {None}]
    BY <1>1, <1>2, <1>3, <1>4, <1>5, StopFacts
<1>7. RestOK'
    BY <1>1, <1>2, <1>3, <1>6 DEF RestOK
<1> QED BY <1>6, <1>7, IndexInvParts, PTL

\* Steps that change nothing but the messages, outcomes, links and faults.
ExchangeStep ==
    /\ QuietStep
    /\ UNCHANGED <<current_term, voted_for, role, leader_id, votes, leaderVars, origin, historyVars>>
    /\ links' \in SUBSET (SUBSET Server) /\ faults' \in Nat
    /\ outcome' \in [Cmd -> Outcomes]
    /\ \A x \in rpcs' : x \in rpcs \/ Credible(x, log)

LEMMA ExchangeStepIndices ==
    ASSUME IndexInv, NEW i \in Server, ExchangeStep
    PROVE  IndexInv'
<1>1. RoleOK /\ RestOK
    BY IndexInvParts
<1>2. ApplyOK' /\ NextWithinLog' /\ WaitingWithinLog' /\ UNCHANGED log
    BY QuietStepFacts DEF ExchangeStep, leaderVars, QuietStep
<1>3. CredibleMessages'
    BY <1>2 DEF ExchangeStep, CredibleMessages, IndexInv
<1>4. RoleOK'
    BY <1>1, <1>2, <1>3 DEF ExchangeStep, RoleOK, leaderVars
<1>5. RestOK'
    BY <1>1, <1>2 DEF ExchangeStep, RestOK, historyVars
<1> QED BY <1>2, <1>4, <1>5, IndexInvParts, PTL

LEMMA ForwardCredible ==
    ASSUME NEW m, m \in ForwardRequest \/ m \in ForwardAnswer \/ m \in AppendEntriesError, NEW lgs
    PROVE  Credible(m, lgs)
<1>1. m.kind \in {"Forward", "ForwardAnswer", "AppendEntriesError"}
    BY DEF ForwardRequest, ForwardAnswer, AppendEntriesError
<1> QED BY <1>1 DEF Credible, Message

LEMMA ClientRequestIndices ==
    ASSUME IndexInv, NEW c \in Cmd, ClientRequest(c)
    PROVE  IndexInv'
<1>1. /\ origin[c] \in Server /\ outcome \in [Cmd -> Outcomes] /\ links \in SUBSET (SUBSET Server)
      /\ faults \in Nat
    BY DEF IndexInv, TypeOK, Outcomes
<1>2. CASE FollowerClientRequest(c)
    <2> DEFINE i == origin[c]
               m == [kind |-> "Forward", from |-> i, to |-> leader_id[i], cmd |-> c]
    <2>1. LeaderReachable(i) => Credible(m, log)
        <3>1. LeaderReachable(i) => leader_id[i] \in Server
            BY <1>1 DEF LeaderReachable
        <3>2. LeaderReachable(i) => m \in ForwardRequest
            BY <1>1, <3>1 DEF ForwardRequest
        <3> QED BY <3>2, ForwardCredible
    <2>2. outcome' \in [Cmd -> Outcomes]
        BY <1>1, <1>2 DEF FollowerClientRequest, Outcomes
    <2>3. \A x \in rpcs' : x \in rpcs \/ Credible(x, log)
        BY <1>2, <2>1 DEF FollowerClientRequest
    <2>4. ExchangeStep
        BY <1>1, <1>2, <2>2, <2>3 DEF FollowerClientRequest, ExchangeStep, QuietStep, persistentVars
    <2> QED BY <1>1, <2>4, ExchangeStepIndices
<1>3. CASE CandidateClientRequest(c)
    <2>1. outcome' \in [Cmd -> Outcomes]
        BY <1>1, <1>3 DEF CandidateClientRequest, Outcomes
    <2>2. ExchangeStep
        BY <1>1, <1>3, <2>1 DEF CandidateClientRequest, ExchangeStep, QuietStep, persistentVars
    <2> QED BY <1>1, <2>2, ExchangeStepIndices
<1>4. CASE LeaderClientRequest(c)
    <2>1. [outcome EXCEPT ![c] = "pending"] \in [Cmd -> Outcomes]
        BY <1>1 DEF Outcomes
    <2>2. HandleLogUpdate(origin[c], c, [outcome EXCEPT ![c] = "pending"], rpcs)
        BY <1>4 DEF LeaderClientRequest
    <2> QED BY <1>1, <2>1, <2>2, HandleLogUpdateIndices
<1> QED BY <1>2, <1>3, <1>4 DEF ClientRequest

LEMMA ReceiveForwardIndices ==
    ASSUME IndexInv, NEW m \in rpcs, ReceiveForward(m)
    PROVE  IndexInv'
<1> DEFINE answer == [kind |-> "ForwardAnswer", from |-> m.to, to |-> m.from, cmd |-> m.cmd, ack |-> FALSE]
<1>1. m.to \in Server /\ m.from \in Server /\ m.cmd \in Cmd
    BY MessageKinds DEF IndexInv, TypeOK, ReceiveForward, ForwardRequest
<1>2. outcome \in [Cmd -> Outcomes] /\ links \in SUBSET (SUBSET Server) /\ faults \in Nat
    BY DEF IndexInv, TypeOK, Outcomes
<1>3. CASE HandleLogUpdate(m.to, m.cmd, outcome, rpcs \ {m})
    BY <1>1, <1>2, <1>3, HandleLogUpdateIndices
<1>4. CASE /\ rpcs' = (rpcs \ {m}) \cup (IF outcome[m.cmd] = "pending" THEN {answer} ELSE {})
           /\ UNCHANGED <<persistentVars, role, leader_id, applyVars, votes, leaderVars, links, userVars,
                         faults, historyVars>>
    <2>1. answer \in ForwardAnswer
        BY <1>1 DEF ForwardAnswer
    <2>2. Credible(answer, log)
        BY <2>1, ForwardCredible
    <2> HIDE DEF answer
    <2>3. \A x \in rpcs' : x \in rpcs \/ Credible(x, log)
        BY <1>4, <2>2
    <2>4. ExchangeStep
        BY <1>2, <1>4, <2>3 DEF ExchangeStep, QuietStep, persistentVars, userVars
    <2> QED BY <1>1, <2>4, ExchangeStepIndices
<1> QED BY <1>3, <1>4 DEF ReceiveForward

LEMMA ReceiveForwardAnswerIndices ==
    ASSUME IndexInv, NEW m \in rpcs, ReceiveForwardAnswer(m)
    PROVE  IndexInv'
<1>1. m.to \in Server
    BY MessageKinds DEF IndexInv, TypeOK
<1>2. outcome \in [Cmd -> Outcomes] /\ links \in SUBSET (SUBSET Server) /\ faults \in Nat
    BY DEF IndexInv, TypeOK, Outcomes
<1>3. outcome' \in [Cmd -> Outcomes]
    BY <1>2 DEF ReceiveForwardAnswer, Outcomes
<1>4. ExchangeStep
    BY <1>2, <1>3 DEF ReceiveForwardAnswer, ExchangeStep, QuietStep, persistentVars
<1> QED BY <1>1, <1>4, ExchangeStepIndices

LEMMA FaultIndices ==
    ASSUME faults \in Nat, NEW free, Fault(free)
    PROVE  faults' \in Nat
BY DEF Fault

LEMMA AppendEntriesCallFailsIndices ==
    ASSUME IndexInv, NEW m \in rpcs, AppendEntriesCallFails(m)
    PROVE  IndexInv'
<1>1. /\ m.to \in Server /\ m.from \in Server /\ Credible(m, log) /\ outcome \in [Cmd -> Outcomes]
      /\ links \in SUBSET (SUBSET Server) /\ faults \in Nat
    BY MessageKinds DEF IndexInv, TypeOK, CredibleMessages, Outcomes
<1>2. faults' \in Nat
    BY <1>1, FaultIndices DEF AppendEntriesCallFails
<1>3. \A x \in rpcs' : x \in rpcs \/ Credible(x, log)
    <2>1. CASE /\ m.kind = "AppendEntries" /\ m.live
               /\ rpcs' = (rpcs \ {m}) \cup {[m EXCEPT !.live = FALSE]} \cup FailAppendEntries(m)
        <3> DEFINE orphan == [m EXCEPT !.live = FALSE]
        <3>1. m \in AppendEntriesRequest
            BY <2>1, MessageKinds DEF IndexInv, TypeOK
        <3>2. /\ orphan \in AppendEntriesRequest /\ orphan.kind = "AppendEntries" /\ orphan.live = FALSE
              /\ orphan.entries = m.entries /\ orphan.leader_commit = m.leader_commit
              /\ orphan.prev_log_index = m.prev_log_index
            BY <2>1, <3>1 DEF AppendEntriesRequest
        <3>3. rpcs' = (rpcs \ {m}) \cup {orphan} \cup FailAppendEntries(m)
            BY <2>1
        <3> HIDE DEF orphan
        <3>4. Credible(orphan, log)
            BY <1>1, <2>1, <3>2 DEF Credible, Message
        <3>5. \A x \in FailAppendEntries(m) : Credible(x, log)
            <4>1. \A x \in FailAppendEntries(m) : x \in AppendEntriesError
                BY <1>1 DEF FailAppendEntries, AppendEntriesError
            <4> QED BY <4>1, ForwardCredible
        <3> QED BY <3>3, <3>4, <3>5
    <2>2. CASE rpcs' = (rpcs \ {m}) \cup {[kind |-> "AppendEntriesError", from |-> m.from, to |-> m.to]}
        <3>1. [kind |-> "AppendEntriesError", from |-> m.from, to |-> m.to] \in AppendEntriesError
            BY <1>1 DEF AppendEntriesError
        <3>2. Credible([kind |-> "AppendEntriesError", from |-> m.from, to |-> m.to], log)
            BY <3>1, ForwardCredible
        <3> QED BY <2>2, <3>2
    <2> QED BY <2>1, <2>2 DEF AppendEntriesCallFails
<1>4. ExchangeStep
    BY <1>1, <1>2, <1>3 DEF AppendEntriesCallFails, ExchangeStep, QuietStep, persistentVars, userVars
<1> QED BY <1>1, <1>4, ExchangeStepIndices

LEMMA ForwardCallFailsIndices ==
    ASSUME IndexInv, NEW c \in Cmd, ForwardCallFails(c)
    PROVE  IndexInv'
<1>1. /\ origin[c] \in Server /\ outcome \in [Cmd -> Outcomes] /\ links \in SUBSET (SUBSET Server)
      /\ faults \in Nat
    BY DEF IndexInv, TypeOK, Outcomes
<1>2. faults' \in Nat
    BY <1>1, FaultIndices DEF ForwardCallFails
<1>3. outcome' \in [Cmd -> Outcomes]
    BY <1>1 DEF ForwardCallFails, Outcomes
<1>4. ExchangeStep
    BY <1>1, <1>2, <1>3 DEF ForwardCallFails, ExchangeStep, QuietStep, persistentVars
<1> QED BY <1>1, <1>4, ExchangeStepIndices

LEMMA LinkIndices ==
    ASSUME IndexInv, NEW i \in Server, NEW j \in Server, Disconnect(i, j) \/ NewPeer(i, j)
    PROVE  IndexInv'
<1>1. outcome \in [Cmd -> Outcomes] /\ links \in SUBSET (SUBSET Server) /\ faults \in Nat
    BY DEF IndexInv, TypeOK, Outcomes
<1>2. faults' \in Nat
    BY <1>1, FaultIndices DEF Disconnect, NewPeer
<1>3. links' \in SUBSET (SUBSET Server)
    <2>1. {i, j} \in SUBSET Server
        OBVIOUS
    <2>2. links' \subseteq links \cup {{i, j}}
        BY DEF Disconnect, NewPeer
    <2> QED BY <1>1, <2>1, <2>2
<1>4. ExchangeStep
    BY <1>1, <1>2, <1>3 DEF Disconnect, NewPeer, ExchangeStep, QuietStep, persistentVars, userVars
<1> QED BY <1>4, ExchangeStepIndices

LEMMA ForgetType ==
    ASSUME outcome \in [Cmd -> Outcomes], NEW i \in Server
    PROVE  Forget(i) \in [Cmd -> Outcomes]
BY DEF Forget, Outcomes

LEMMA CloseWindowIndices ==
    ASSUME IndexInv, NEW i \in Server, CloseWindow(i)
    PROVE  IndexInv'
<1>1. /\ Stop(i, "Closed", Forget(i), log[i], in_flight_client_requests[i], WithoutAnswersFor(i))
      /\ links' = {l \in links : i \notin l}
      /\ UNCHANGED <<current_term, voted_for, log, origin, ballots, elected>>
    BY DEF CloseWindow, persistentVars, historyVars
<1>2. RoleOK /\ RestOK /\ LogStep(i, log[i]) /\ \A x \in rpcs : Credible(x, log')
    BY <1>1, IndexInvParts, LogStays, StillCredible DEF IndexInv
<1>3. \A x \in WithoutAnswersFor(i) : Credible(x, log')
    BY <1>2 DEF WithoutAnswersFor
<1>4. /\ in_flight_client_requests[i] \in SUBSET (1 .. Len(log[i])) /\ Forget(i) \in [Cmd -> Outcomes]
      /\ "Closed" \in Roles /\ log[i] \in Seq(Entry)
    BY <1>2, ForgetType DEF RoleOK, RestOK, WaitingWithinLog, Roles
<1>5. RoleOK' /\ ApplyOK' /\ leader_id' \in [Server -> Server \cup {None}]
    BY <1>1, <1>2, <1>3, <1>4, StopFacts
<1>6. faults' \in Nat
    BY <1>2, FaultIndices DEF CloseWindow, RestOK
<1>7. RestOK'
    BY <1>1, <1>2, <1>5, <1>6 DEF RestOK
<1> QED BY <1>5, <1>7, IndexInvParts, PTL

LEMMA RestartIndices ==
    ASSUME IndexInv, NEW i \in Server, Restart(i)
    PROVE  IndexInv'
<1>1. /\ QuietStep
      /\ role' = [role EXCEPT ![i] = "Follower"]
      /\ links' = {l \in links : i \notin l}
      /\ outcome' = Forget(i)
      /\ rpcs' = (WithoutAnswersFor(i) \ SentTo(i)) \cup UNION {CallErrors(m) : m \in SentTo(i)}
      /\ UNCHANGED <<current_term, voted_for, leader_id, votes, leaderVars, origin, faults, ballots, elected>>
    BY DEF Restart, QuietStep, persistentVars, historyVars
<1>2. RoleOK /\ RestOK /\ rpcs \in SUBSET Message
    BY IndexInvParts DEF IndexInv, TypeOK
<1>3. ApplyOK' /\ NextWithinLog' /\ WaitingWithinLog' /\ \A x \in rpcs : Credible(x, log')
    BY <1>1, QuietStepFacts DEF leaderVars
<1>4. ASSUME NEW m \in SentTo(i), NEW x \in CallErrors(m) PROVE Credible(x, log')
    <2>1. m.from \in Server /\ m.to \in Server /\ (m.kind = "Forward" => m.cmd \in Cmd)
        BY <1>2, MessageKinds DEF SentTo, ForwardRequest
    <2>2. CASE m.kind = "AppendEntries"
        <3>1. x = [kind |-> "AppendEntriesError", from |-> m.to, to |-> m.from]
            BY <2>2 DEF CallErrors, FailAppendEntries
        <3>2. x \in AppendEntriesError
            BY <2>1, <3>1 DEF AppendEntriesError
        <3> QED BY <3>2, ForwardCredible
    <2>3. CASE m.kind # "AppendEntries"
        <3>1. /\ m.kind = "Forward"
              /\ x = [kind |-> "ForwardAnswer", from |-> m.to, to |-> m.from, cmd |-> m.cmd, ack |-> FALSE]
            BY <2>3 DEF CallErrors
        <3>2. x \in ForwardAnswer
            BY <2>1, <3>1 DEF ForwardAnswer
        <3> QED BY <3>2, ForwardCredible
    <2> QED BY <2>2, <2>3
<1>5. \A x \in UNION {CallErrors(m) : m \in SentTo(i)} : Credible(x, log')
    BY <1>4
<1>6. CredibleMessages'
    BY <1>1, <1>3, <1>5 DEF CredibleMessages, WithoutAnswersFor
<1>7. RoleOK'
    <2>1. outcome' \in [Cmd -> Outcomes]
        BY <1>1, <1>2, ForgetType DEF RoleOK
    <2> QED BY <1>1, <1>2, <1>3, <1>6, <2>1 DEF RoleOK, leaderVars, Roles, RunningRoles
<1>8. RestOK'
    BY <1>1, <1>2 DEF RestOK, QuietStep
<1> QED BY <1>3, <1>7, <1>8, IndexInvParts, PTL

-----------------------------------------------------------------------------
(* Logs never shrink *)

\* Entries are appended by a leader, or merged into the log of a receiver.
LEMMA LogUpdateGrows ==
    ASSUME IndexInv, NEW i \in Server, NEW c \in Cmd, NEW out, NEW msgs, HandleLogUpdate(i, c, out, msgs)
    PROVE  \E lg : LogStep(i, lg)
<1> DEFINE lg == Append(log[i], [term |-> current_term[i], cmd |-> c])
<1>1. log[i] \in Seq(Entry) /\ [term |-> current_term[i], cmd |-> c] \in Entry
    BY DEF IndexInv, TypeOK, Entry
<1>2. lg \in Seq(Entry) /\ Len(lg) >= Len(log[i])
    BY <1>1, AppendProperties, LenProperties
<1>3. log' = [log EXCEPT ![i] = lg]
    BY DEF HandleLogUpdate
<1> QED BY <1>2, <1>3 DEF LogStep

LEMMA ReceivedEntriesGrow ==
    ASSUME IndexInv, NEW m \in rpcs, ReceiveAppendEntries(m)
    PROVE  m.to \in Server /\ \E lg : LogStep(m.to, lg)
<1> DEFINE accepted == m.term >= current_term[m.to] /\ PrevLogMatches(log[m.to], m)
           lg == IF accepted THEN Merge(log[m.to], m.prev_log_index, m.entries) ELSE log[m.to]
<1>1. m.to \in Server /\ m.prev_log_index \in Nat /\ m.entries \in Seq(Entry)
    BY MessageKinds DEF IndexInv, TypeOK, ReceiveAppendEntries, AppendEntriesRequest
<1>2. log' = [log EXCEPT ![m.to] = lg]
    BY DEF ReceiveAppendEntries
<1>3. log[m.to] \in Seq(Entry) /\ Len(log[m.to]) \in Nat
    BY <1>1, LenProperties DEF IndexInv, TypeOK
<1>4. CASE accepted
    <2>1. m.prev_log_index <= Len(log[m.to])
        BY <1>1, <1>3, <1>4 DEF PrevLogMatches
    <2>2. lg = Merge(log[m.to], m.prev_log_index, m.entries)
        BY <1>4
    <2> HIDE DEF lg
    <2> QED BY <1>1, <1>2, <1>3, <2>1, <2>2, MergeGrows DEF LogStep
<1>5. CASE ~accepted
    <2>1. lg = log[m.to]
        BY <1>5
    <2> HIDE DEF lg
    <2>2. LogStep(m.to, lg)
        BY <1>2, <1>3, <2>1 DEF LogStep
    <2> QED BY <1>1, <2>2
<1> QED BY <1>1, <1>4, <1>5

LEMMA LogsGrow ==
    IndexInv /\ [Next]_vars => \A i \in Server : Len(log'[i]) >= Len(log[i])
<1> SUFFICES ASSUME IndexInv, [Next]_vars PROVE \A i \in Server : Len(log'[i]) >= Len(log[i])
    OBVIOUS
<1>1. \A i \in Server : Len(log[i]) \in Nat
    BY LenProperties DEF IndexInv, TypeOK
<1>2. ASSUME NEW i \in Server, NEW lg, LogStep(i, lg) PROVE \A j \in Server : Len(log'[j]) >= Len(log[j])
    BY <1>2, LogStepFacts DEF IndexInv
<1>3. ASSUME NEW m \in rpcs, Receive(m) PROVE UNCHANGED log \/ \E i \in Server : \E lg : LogStep(i, lg)
    <2>1. CASE ReceiveRequestVote(m) \/ ReceiveVote(m) \/ RefuseAppendEntries(m) \/ PanicInOverwriteLog(m)
                   \/ ReceiveForwardAnswer(m)
        BY <2>1 DEF ReceiveRequestVote, ReceiveVote, RefuseAppendEntries, PanicInOverwriteLog,
                    ReceiveForwardAnswer, persistentVars
    <2>2. CASE ReceiveAppendEntries(m)
        BY <2>2, ReceivedEntriesGrow
    <2>3. CASE ReceiveAppendEntriesResponse(m)
        BY <2>3 DEF ReceiveAppendEntriesResponse, AppendEntriesFailed, AppendEntriesNewTerm,
                    AppendEntriesSucceeded, AppendEntriesRefused, persistentVars
    <2>4. CASE ReceiveForward(m)
        <3>1. m.to \in Server /\ m.cmd \in Cmd
            BY <2>4, MessageKinds DEF ReceiveForward, IndexInv, TypeOK, ForwardRequest
        <3> QED BY <2>4, <3>1, LogUpdateGrows DEF ReceiveForward, persistentVars
    <2> QED BY <1>3, <2>1, <2>2, <2>3, <2>4 DEF Receive
<1>4. ASSUME NEW c \in Cmd, ClientRequest(c) PROVE UNCHANGED log \/ \E i \in Server : \E lg : LogStep(i, lg)
    <2>1. origin[c] \in Server
        BY DEF IndexInv, TypeOK
    <2> QED BY <1>4, <2>1, LogUpdateGrows
               DEF ClientRequest, FollowerClientRequest, CandidateClientRequest, LeaderClientRequest, persistentVars
<1>5. ASSUME \/ \E m \in rpcs : AppendEntriesCallFails(m)
             \/ \E c \in Cmd : ForwardCallFails(c)
             \/ \E i \in Server : ElectionTimeout(i) \/ Heartbeat(i) \/ CloseWindow(i) \/ Restart(i)
             \/ \E i, j \in Server : Disconnect(i, j) \/ NewPeer(i, j)
             \/ UNCHANGED vars
      PROVE  UNCHANGED log
    BY <1>5 DEF AppendEntriesCallFails, ForwardCallFails, ElectionTimeout, Heartbeat, CloseWindow, Restart,
                Disconnect, NewPeer, vars, persistentVars
<1>6. UNCHANGED log \/ \E i \in Server : \E lg : LogStep(i, lg)
    BY <1>3, <1>4, <1>5 DEF Next
<1>7. CASE UNCHANGED log
    BY <1>1, <1>7
<1> QED BY <1>2, <1>6, <1>7

-----------------------------------------------------------------------------
(* Theorems: types and indices *)

LEMMA IndexInvInit == Init => IndexInv
<1> SUFFICES ASSUME Init PROVE IndexInv
    OBVIOUS
<1>1. <<>> \in Seq(Entry) /\ Len(<<>>) = 0
    BY EmptySeq
<1>2. TypeOK
    <2>1. log \in [Server -> Seq(Entry)]
        BY <1>1 DEF Init
    <2>2. next_indices \in [Server -> [Server -> Int]] /\ match_indices \in [Server -> [Server -> Nat]]
        BY DEF Init
    <2>3. links \in SUBSET (SUBSET Server)
        BY DEF Init
    <2> QED BY <2>1, <2>2, <2>3 DEF Init, TypeOK, Term, Roles, RunningRoles
<1>3. CredibleMessages
    BY DEF Init, CredibleMessages
<1>4. NextWithinLog /\ WaitingWithinLog /\ CommitWithinLog
    BY <1>1 DEF Init, NextWithinLog, WaitingWithinLog, CommitWithinLog
<1> QED BY <1>2, <1>3, <1>4 DEF IndexInv

LEMMA IndexInvNext == IndexInv /\ [Next]_vars => IndexInv'
<1> SUFFICES ASSUME IndexInv, [Next]_vars PROVE IndexInv'
    OBVIOUS
<1>1. ASSUME NEW m \in rpcs, Receive(m) \/ AppendEntriesCallFails(m) PROVE IndexInv'
    BY <1>1, ReceiveRequestVoteIndices, ReceiveVoteIndices, ReceiveAppendEntriesIndices,
       RefuseAppendEntriesIndices, PanicInOverwriteLogIndices, AppendEntriesFailedIndices,
       AppendEntriesNewTermIndices, AppendEntriesSucceededIndices, AppendEntriesRefusedIndices,
       ReceiveForwardIndices, ReceiveForwardAnswerIndices, AppendEntriesCallFailsIndices
       DEF Receive, ReceiveAppendEntriesResponse
<1>2. ASSUME NEW c \in Cmd, ClientRequest(c) \/ ForwardCallFails(c) PROVE IndexInv'
    BY <1>2, ClientRequestIndices, ForwardCallFailsIndices
<1>3. ASSUME NEW i \in Server, ElectionTimeout(i) \/ Heartbeat(i) \/ CloseWindow(i) \/ Restart(i)
      PROVE  IndexInv'
    BY <1>3, ElectionTimeoutIndices, HeartbeatIndices, CloseWindowIndices, RestartIndices
<1>4. ASSUME NEW i \in Server, NEW j \in Server, Disconnect(i, j) \/ NewPeer(i, j) PROVE IndexInv'
    BY <1>4, LinkIndices
<1>5. CASE UNCHANGED vars
    BY <1>5 DEF vars, persistentVars, applyVars, leaderVars, userVars, historyVars, IndexInv, TypeOK,
                CredibleMessages, NextWithinLog, WaitingWithinLog, CommitWithinLog
<1> QED BY <1>1, <1>2, <1>3, <1>4, <1>5 DEF Next

\* Every reachable state is well typed: in particular, every call of a leader
\* reads its log where it has an entry, and what a dropped or committed request
\* waits for is there.
THEOREM TypeCorrect == Spec => []TypeOK
<1>1. IndexInv => TypeOK
    BY DEF IndexInv
<1> QED BY <1>1, IndexInvInit, IndexInvNext, PTL DEF Spec

\* The commit index that a follower takes from a message, with or without
\* entries, never leaves its log (worker.rs:217-222), nor does apply_log.
THEOREM CommitsStayWithinLogs == Spec => []CommitWithinLog
<1>1. IndexInv => CommitWithinLog
    BY DEF IndexInv
<1> QED BY <1>1, IndexInvInit, IndexInvNext, PTL DEF Spec

\* No log gets shorter in any step (storage.rs:106-114): what handle_append_entries
\* replaces is a last entry, whatever call is duplicated, delayed or refused.
THEOREM LogsNeverShrink == Spec => LogNeverShrinks
<1>1. IndexInv /\ [Next]_vars => [\A i \in Server : Len(log'[i]) >= Len(log[i])]_vars
    BY LogsGrow
<1> QED BY <1>1, IndexInvInit, IndexInvNext, PTL DEF Spec, LogNeverShrinks

-----------------------------------------------------------------------------
(* Elections: no term is won twice, whatever windows are closed and opened   *)
(* again, and however votes and requests are delayed: each vote that a       *)
(* candidate counts was cast for its round, and a voter casts one per term.  *)

Ballot(t, v, c) == [term |-> t, voter |-> v, candidate |-> c]

\* Storage remembers the vote of the current term, and no later one was cast.
BallotsStored ==
    \A b \in ballots :
        /\ b.term <= current_term[b.voter]
        /\ b.term = current_term[b.voter] => voted_for[b.voter] = b.candidate

\* What a candidate has counted, and what is on the way to it, was cast in its
\* present round: earlier rounds left nothing behind.
CountedVotes ==
    \A i \in Server : role[i] = "Candidate" =>
        \A v \in votes[i] : Ballot(current_term[i], v, i) \in ballots
VotesOnTheWay ==
    \A m \in rpcs : m.kind = "VoteGranted" =>
        /\ role[m.to] = "Candidate" /\ m.term = current_term[m.to]
        /\ Ballot(m.term, m.from, m.to) \in ballots
CallsForVotes ==
    \A m \in rpcs : m.kind = "RequestVote" /\ m.live =>
        role[m.from] = "Candidate" /\ m.term = current_term[m.from]

WonByQuorum ==
    \A e \in elected : \E Q \in SUBSET Server :
        Cardinality(Q) >= Quorum /\ \A v \in Q : Ballot(e.term, v, e.leader) \in ballots

ElectionInv ==
    /\ BallotsStored
    /\ OneVotePerTerm
    /\ CountedVotes
    /\ VotesOnTheWay
    /\ CallsForVotes
    /\ WonByQuorum

-----------------------------------------------------------------------------
(* Steps that cast no vote *)

\* A message that a candidate's round depends on.
OfRound(m) == m.kind = "VoteGranted" \/ (m.kind = "RequestVote" /\ m.live)
NoNewRound(msgs) == \A m \in msgs : OfRound(m) => m \in rpcs

\* No call for votes of worker i awaits an answer and no vote is on its way to it.
RoundOver(i, msgs) ==
    \A m \in msgs : /\ m.kind = "VoteGranted" => m.to # i
                    /\ m.kind = "RequestVote" /\ m.live => m.from # i

\* Worker i may take over a term, and with it lose its vote and its candidacy;
\* a candidacy that ends takes the messages of its round with it.
VotelessStep(i) ==
    /\ UNCHANGED <<ballots, elected>>
    /\ \E t \in Term, v \in Server \cup {None} :
           /\ t >= current_term[i] /\ (t = current_term[i] => v = voted_for[i])
           /\ current_term' = [current_term EXCEPT ![i] = t]
           /\ voted_for' = [voted_for EXCEPT ![i] = v]
    /\ \A j \in Server \ {i} : role'[j] = role[j] /\ votes'[j] = votes[j]
    /\ NoNewRound(rpcs')
    /\ \/ role'[i] = role[i] /\ votes'[i] = votes[i] /\ (role[i] = "Candidate" => current_term'[i] = current_term[i])
       \/ /\ role'[i] # "Candidate"
          /\ RoundOver(i, rpcs')

LEMMA VotelessStepKeeps ==
    ASSUME IndexInv, ElectionInv, NEW i \in Server, VotelessStep(i)
    PROVE  ElectionInv'
<1>1. /\ current_term \in [Server -> Nat] /\ voted_for \in [Server -> Server \cup {None}]
      /\ \A b \in ballots : b.term \in Nat /\ b.voter \in Server
      /\ \A m \in rpcs : m.from \in Server /\ m.to \in Server
    BY MessageKinds DEF IndexInv, TypeOK, Term
<1>2. PICK t \in Term, v \in Server \cup {None} :
          /\ t >= current_term[i] /\ (t = current_term[i] => v = voted_for[i])
          /\ current_term' = [current_term EXCEPT ![i] = t]
          /\ voted_for' = [voted_for EXCEPT ![i] = v]
    BY DEF VotelessStep
<1>3. UNCHANGED <<ballots, elected>>
    BY DEF VotelessStep
<1>4. \A j \in Server \ {i} :
          /\ role'[j] = role[j] /\ votes'[j] = votes[j]
          /\ current_term'[j] = current_term[j]
    BY <1>1, <1>2 DEF VotelessStep
<1>5. \/ role'[i] = role[i] /\ votes'[i] = votes[i] /\ (role[i] = "Candidate" => current_term'[i] = current_term[i])
      \/ /\ role'[i] # "Candidate"
         /\ \A m \in rpcs' : /\ m.kind = "VoteGranted" => m.to # i
                             /\ m.kind = "RequestVote" /\ m.live => m.from # i
    BY DEF VotelessStep, RoundOver
<1>6. \A m \in rpcs' : OfRound(m) => m \in rpcs
    BY DEF VotelessStep, NoNewRound
<1>7. BallotsStored'
    <2> SUFFICES ASSUME NEW b \in ballots
                 PROVE  /\ b.term <= current_term'[b.voter]
                        /\ b.term = current_term'[b.voter] => voted_for'[b.voter] = b.candidate
        BY <1>3 DEF BallotsStored
    <2>1. /\ b.term <= current_term[b.voter]
          /\ b.term = current_term[b.voter] => voted_for[b.voter] = b.candidate
        BY DEF ElectionInv, BallotsStored
    <2>2. CASE b.voter = i
        BY <1>1, <1>2, <2>1, <2>2 DEF Term
    <2>3. CASE b.voter # i
        BY <1>1, <1>2, <2>1, <2>3
    <2> QED BY <2>2, <2>3
<1>8. OneVotePerTerm' /\ WonByQuorum'
    BY <1>3 DEF ElectionInv, OneVotePerTerm, WonByQuorum
<1>9. CountedVotes'
    <2> SUFFICES ASSUME NEW j \in Server, role'[j] = "Candidate", NEW w \in votes'[j]
                 PROVE  Ballot(current_term'[j], w, j) \in ballots
        BY <1>3 DEF CountedVotes
    <2>1. role[j] = "Candidate" /\ w \in votes[j] /\ current_term'[j] = current_term[j]
        BY <1>4, <1>5
    <2> QED BY <2>1 DEF ElectionInv, CountedVotes
<1>10. VotesOnTheWay'
    <2> SUFFICES ASSUME NEW m \in rpcs', m.kind = "VoteGranted"
                 PROVE  /\ role'[m.to] = "Candidate" /\ m.term = current_term'[m.to]
                        /\ Ballot(m.term, m.from, m.to) \in ballots
        BY <1>3 DEF VotesOnTheWay
    <2>1. m \in rpcs
        BY <1>6 DEF OfRound
    <2>2. /\ role[m.to] = "Candidate" /\ m.term = current_term[m.to]
          /\ Ballot(m.term, m.from, m.to) \in ballots
        BY <2>1 DEF ElectionInv, VotesOnTheWay
    <2> QED BY <1>1, <1>4, <1>5, <2>1, <2>2
<1>11. CallsForVotes'
    <2> SUFFICES ASSUME NEW m \in rpcs', m.kind = "RequestVote", m.live
                 PROVE  role'[m.from] = "Candidate" /\ m.term = current_term'[m.from]
        BY DEF CallsForVotes
    <2>1. m \in rpcs
        BY <1>6 DEF OfRound
    <2>2. role[m.from] = "Candidate" /\ m.term = current_term[m.from]
        BY <2>1 DEF ElectionInv, CallsForVotes
    <2> QED BY <1>1, <1>4, <1>5, <2>1, <2>2
<1> QED BY <1>7, <1>8, <1>9, <1>10, <1>11 DEF ElectionInv

\* A role that ends leaves no message of its round.
LEMMA LeaveRoleVotes ==
    ASSUME IndexInv, NEW i \in Server, NEW newRole \in Roles, newRole # "Candidate",
           NEW out \in [Cmd -> Outcomes], NEW lg \in Seq(Entry), NEW inFlight \in SUBSET (1 .. Len(lg)),
           NEW msgs \in SUBSET Message, NoNewRound(msgs),
           LeaveRole(i, newRole, out, lg, inFlight, msgs)
    PROVE  /\ \A j \in Server \ {i} : role'[j] = role[j] /\ votes'[j] = votes[j]
           /\ NoNewRound(rpcs')
           /\ role'[i] # "Candidate"
           /\ RoundOver(i, rpcs')
<1>1. /\ role' = [role EXCEPT ![i] = newRole] /\ votes' = [votes EXCEPT ![i] = {}]
      /\ AnswerClients(i, Waiting(lg, inFlight), FALSE, out, Abandon(i, msgs))
    BY DEF LeaveRole
<1>2. role \in [Server -> Roles] /\ votes \in [Server -> SUBSET Server] /\ origin \in [Cmd -> Server]
    BY DEF IndexInv, TypeOK
<1>3. \A m \in rpcs' : m \in Abandon(i, msgs) \/ m.kind = "ForwardAnswer"
    BY <1>1 DEF AnswerClients
<1>4. \A m \in rpcs' : OfRound(m) => /\ m \in msgs
                                     /\ m.kind = "VoteGranted" => m.to # i
                                     /\ m.kind = "RequestVote" => m.from # i
    BY <1>3, AbandonFacts DEF OfRound
<1>5. RoundOver(i, rpcs')
    BY <1>4 DEF OfRound, RoundOver
<1>6. NoNewRound(rpcs')
    BY <1>4 DEF NoNewRound
<1> QED BY <1>1, <1>2, <1>5, <1>6

LEMMA BecomeFollowerVotes ==
    ASSUME IndexInv, NEW i \in Server, NEW msgs \in SUBSET Message, NoNewRound(msgs), BecomeFollower(i, msgs)
    PROVE  /\ \A j \in Server \ {i} : role'[j] = role[j] /\ votes'[j] = votes[j]
           /\ NoNewRound(rpcs')
           /\ role'[i] # "Candidate"
           /\ RoundOver(i, rpcs')
<1>1. LeaveRole(i, "Follower", outcome, log[i], in_flight_client_requests[i], msgs)
    BY DEF BecomeFollower
<1>2. /\ "Follower" \in Roles /\ outcome \in [Cmd -> Outcomes] /\ log[i] \in Seq(Entry)
      /\ in_flight_client_requests[i] \in SUBSET (1 .. Len(log[i]))
    BY DEF IndexInv, TypeOK, WaitingWithinLog, Roles, RunningRoles, Outcomes
<1> QED BY <1>1, <1>2, LeaveRoleVotes

\* Steps of a worker that keeps its role.
LEMMA SameRoleVotes ==
    ASSUME IndexInv, NEW i \in Server,
           UNCHANGED <<current_term, voted_for, role, votes, historyVars>>, NoNewRound(rpcs')
    PROVE  VotelessStep(i)
<1>1. current_term[i] \in Term /\ voted_for[i] \in Server \cup {None} /\ current_term[i] >= current_term[i]
    BY DEF IndexInv, TypeOK, Term
<1>2. /\ current_term' = [current_term EXCEPT ![i] = current_term[i]]
      /\ voted_for' = [voted_for EXCEPT ![i] = voted_for[i]]
    BY DEF IndexInv, TypeOK
<1> QED BY <1>1, <1>2 DEF VotelessStep, historyVars

LEMMA ReplicateVotes ==
    ASSUME IndexInv, NEW i \in Server, role[i] = "Leader", NEW lg \in Seq(Entry), NEW peers, NEW next,
           NEW inFlight \in SUBSET (1 .. Len(lg)), NEW inFlightPeers, NEW out \in [Cmd -> Outcomes],
           NEW msgs \in SUBSET rpcs,
           \A p \in Targets(i, peers, inFlightPeers) :
               next[p] >= 1 => AppendEntriesTo(i, p, lg, next) \in Message,
           Replicate(i, peers, lg, next, inFlight, inFlightPeers, out, msgs),
           UNCHANGED <<current_term, voted_for, historyVars>>
    PROVE  VotelessStep(i)
<1> DEFINE targets == Targets(i, peers, inFlightPeers)
<1>1. \A sent : \A m \in Calls(i, sent, lg, next) : m.kind = "AppendEntries"
    BY DEF Calls, AppendEntriesTo
<1>2. \A sent : NoNewRound(msgs \cup Calls(i, sent, lg, next))
    BY <1>1 DEF NoNewRound, OfRound
<1>3. rpcs \in SUBSET Message /\ current_term[i] \in Term /\ voted_for[i] \in Server \cup {None}
      /\ current_term[i] >= current_term[i]
    BY DEF IndexInv, TypeOK, Term
<1>4. CASE Underflows(targets, next)
    <2>1. PICK sent \in SUBSET {p \in targets : next[p] >= 1} :
              Stop(i, "UnderflowPanic", out, lg, inFlight, msgs \cup Calls(i, sent, lg, next))
        BY <1>4 DEF Replicate, PanicInAppendEntries
    <2>2. msgs \cup Calls(i, sent, lg, next) \in SUBSET Message
        BY <1>3 DEF Calls
    <2>3. LeaveRole(i, "UnderflowPanic", out, lg, inFlight, msgs \cup Calls(i, sent, lg, next))
        BY <2>1 DEF Stop
    <2>4. "UnderflowPanic" \in Roles
        BY DEF Roles, Panics
    <2>5. /\ \A j \in Server \ {i} : role'[j] = role[j] /\ votes'[j] = votes[j]
          /\ NoNewRound(rpcs')
          /\ role'[i] # "Candidate"
          /\ RoundOver(i, rpcs')
        BY <1>2, <2>2, <2>3, <2>4, LeaveRoleVotes
    <2>6. /\ current_term' = [current_term EXCEPT ![i] = current_term[i]]
          /\ voted_for' = [voted_for EXCEPT ![i] = voted_for[i]]
        BY DEF IndexInv, TypeOK
    <2> QED BY <1>3, <2>5, <2>6 DEF VotelessStep, historyVars
<1>5. CASE ~Underflows(targets, next)
    <2>1. /\ LeaderLoopTop(i, lg, match_indices[i], inFlight, out, msgs \cup Calls(i, targets, lg, next))
          /\ UNCHANGED <<role, votes>>
        BY <1>5 DEF Replicate
    <2>2. NoNewRound(rpcs')
        <3>1. \A m \in rpcs' : m \in msgs \cup Calls(i, targets, lg, next) \/ m.kind = "ForwardAnswer"
            BY <2>1 DEF LeaderLoopTop, AnswerClients
        <3> QED BY <1>2, <3>1 DEF NoNewRound, OfRound
    <2> QED BY <2>1, <2>2, SameRoleVotes
<1> QED BY <1>4, <1>5

\* Calls of a leader to its peers, from its log or one longer.
LEMMA CallsTyped ==
    ASSUME IndexInv, NEW i \in Server, NEW lg, LogStep(i, lg), NEW peers \in SUBSET Server, NEW inFlightPeers,
           NEW next \in [Server -> Int], \A p \in Server : next[p] <= Len(lg) + 1
    PROVE  \A p \in Targets(i, peers, inFlightPeers) :
               next[p] >= 1 => AppendEntriesTo(i, p, lg, next) \in Message
<1> SUFFICES ASSUME NEW p \in Targets(i, peers, inFlightPeers), next[p] >= 1
             PROVE  AppendEntriesTo(i, p, lg, next) \in Message
    OBVIOUS
<1>1. p \in Server
    BY DEF Targets
<1>2. Credible(AppendEntriesTo(i, p, lg, next), log')
    BY <1>1, CallsCredible
<1> QED BY <1>2 DEF Credible

LEMMA HeartbeatVotes ==
    ASSUME IndexInv, NEW i \in Server, Heartbeat(i)
    PROVE  VotelessStep(i)
<1>1. /\ Replicate(i, Peers(i), log[i], next_indices[i], in_flight_client_requests[i], in_flight_peers[i],
                   outcome, rpcs)
      /\ role[i] = "Leader" /\ UNCHANGED <<current_term, voted_for, log, historyVars>>
    BY DEF Heartbeat, persistentVars
<1>2. /\ Peers(i) \in SUBSET Server /\ next_indices[i] \in [Server -> Int]
      /\ in_flight_client_requests[i] \in SUBSET (1 .. Len(log[i])) /\ outcome \in [Cmd -> Outcomes]
      /\ \A p \in Server : next_indices[i][p] <= Len(log[i]) + 1
      /\ log[i] \in Seq(Entry)
    BY DEF IndexInv, TypeOK, Peers, NextWithinLog, WaitingWithinLog, Outcomes
<1>3. LogStep(i, log[i])
    BY <1>1, LogStays DEF IndexInv
<1>4. \A p \in Targets(i, Peers(i), in_flight_peers[i]) :
          next_indices[i][p] >= 1 => AppendEntriesTo(i, p, log[i], next_indices[i]) \in Message
    BY <1>2, <1>3, CallsTyped
<1>5. rpcs \in SUBSET rpcs
    OBVIOUS
<1> QED BY <1>1, <1>2, <1>4, <1>5, ReplicateVotes

LEMMA HandleLogUpdateVotes ==
    ASSUME IndexInv, NEW i \in Server, NEW c \in Cmd, NEW out \in [Cmd -> Outcomes],
           NEW msgs \in SUBSET rpcs, HandleLogUpdate(i, c, out, msgs)
    PROVE  VotelessStep(i)
<1> DEFINE lg == Append(log[i], [term |-> current_term[i], cmd |-> c])
<1>1. /\ role[i] = "Leader" /\ log' = [log EXCEPT ![i] = lg]
      /\ Replicate(i, Peers(i), lg, next_indices[i], in_flight_client_requests[i] \cup {Len(lg)},
                   in_flight_peers[i], out, msgs)
      /\ UNCHANGED <<current_term, voted_for, historyVars>>
    BY DEF HandleLogUpdate
<1>2. lg \in Seq(Entry) /\ Len(lg) = Len(log[i]) + 1 /\ Len(log[i]) \in Nat
    <2>1. [term |-> current_term[i], cmd |-> c] \in Entry /\ log[i] \in Seq(Entry)
        BY DEF Entry, IndexInv, TypeOK
    <2> QED BY <2>1, AppendProperties, LenProperties
<1> HIDE DEF lg
<1>3. LogStep(i, lg)
    BY <1>1, <1>2 DEF LogStep
<1>4. Peers(i) \in SUBSET Server /\ next_indices[i] \in [Server -> Int]
    BY DEF IndexInv, TypeOK, Peers
<1>5. in_flight_client_requests[i] \cup {Len(lg)} \in SUBSET (1 .. Len(lg))
    <2>1. \A k \in in_flight_client_requests[i] : k \in 1 .. Len(log[i])
        BY DEF IndexInv, WaitingWithinLog
    <2> QED BY <1>2, <2>1
<1>6. \A p \in Server : next_indices[i][p] <= Len(lg) + 1
    <2>1. \A p \in Server : next_indices[i][p] \in Int /\ next_indices[i][p] <= Len(log[i]) + 1
        BY DEF IndexInv, TypeOK, NextWithinLog
    <2> QED BY <1>2, <2>1
<1>7. \A p \in Targets(i, Peers(i), in_flight_peers[i]) :
          next_indices[i][p] >= 1 => AppendEntriesTo(i, p, lg, next_indices[i]) \in Message
    BY <1>3, <1>4, <1>6, CallsTyped
<1> QED BY <1>1, <1>2, <1>5, <1>7, ReplicateVotes

LEMMA ResponseVotes ==
    ASSUME IndexInv, NEW m \in rpcs, ReceiveAppendEntriesResponse(m)
    PROVE  m.to \in Server /\ VotelessStep(m.to)
<1> DEFINE i == m.to
<1>1. i \in Server /\ m.from \in Server /\ rpcs \in SUBSET Message
    BY MessageKinds DEF IndexInv, TypeOK
<1>2. NoNewRound(rpcs \ {m})
    BY DEF NoNewRound
<1>3. CASE AppendEntriesFailed(m)
    <2>1. NoNewRound(rpcs')
        BY <1>2, <1>3 DEF AppendEntriesFailed
    <2> QED BY <1>1, <1>3, <2>1, SameRoleVotes DEF AppendEntriesFailed, persistentVars
<1>4. CASE AppendEntriesNewTerm(m)
    <2>1. m.term \in Term /\ current_term[i] \in Term
        BY <1>1, <1>4, MessageKinds DEF IndexInv, TypeOK, AppendEntriesNewTerm, AppendEntriesAnswer
    <2>2. /\ m.term > current_term[i] /\ current_term' = [current_term EXCEPT ![i] = m.term]
          /\ voted_for' = [voted_for EXCEPT ![i] = None]
          /\ BecomeFollower(i, rpcs \ {m}) /\ UNCHANGED <<ballots, elected>>
        BY <1>4 DEF AppendEntriesNewTerm, historyVars
    <2>3. m.term >= current_term[i] /\ m.term # current_term[i]
        BY <2>1, <2>2 DEF Term
    <2>4. rpcs \ {m} \in SUBSET Message
        BY <1>1
    <2> QED BY <1>1, <1>2, <2>1, <2>2, <2>3, <2>4, BecomeFollowerVotes DEF VotelessStep
<1>5. CASE AppendEntriesSucceeded(m)
    <2>1. NoNewRound(rpcs')
        <3>1. \A x \in rpcs' : x \in rpcs \/ x.kind = "ForwardAnswer"
            BY <1>5 DEF AppendEntriesSucceeded, LeaderLoopTop, AnswerClients
        <3> QED BY <3>1 DEF NoNewRound, OfRound
    <2> QED BY <1>1, <1>5, <2>1, SameRoleVotes DEF AppendEntriesSucceeded, persistentVars
<1>6. CASE AppendEntriesRefused(m)
    <2> DEFINE next == [next_indices[i] EXCEPT ![m.from] = Smaller(@, m.start - 1)]
    <2>1. m.start \in Nat
        BY <1>6, MessageKinds DEF IndexInv, TypeOK, AppendEntriesRefused, AppendEntriesAnswer
    <2>2. /\ role[i] = "Leader" /\ UNCHANGED <<current_term, voted_for, log, historyVars>>
          /\ Replicate(i, {m.from}, log[i], next, in_flight_client_requests[i],
                       in_flight_peers[i] \ {m.from}, outcome, rpcs \ {m})
        BY <1>6 DEF AppendEntriesRefused, persistentVars
    <2>3. /\ log[i] \in Seq(Entry) /\ next_indices[i] \in [Server -> Int] /\ outcome \in [Cmd -> Outcomes]
          /\ in_flight_client_requests[i] \in SUBSET (1 .. Len(log[i]))
          /\ \A p \in Server : next_indices[i][p] \in Int /\ next_indices[i][p] <= Len(log[i]) + 1
        <3>1. log[i] \in Seq(Entry) /\ next_indices[i] \in [Server -> Int] /\ outcome \in [Cmd -> Outcomes]
            BY <1>1 DEF IndexInv, TypeOK, Outcomes
        <3>2. in_flight_client_requests[i] \in SUBSET (1 .. Len(log[i]))
            BY <1>1 DEF IndexInv, WaitingWithinLog
        <3>3. \A p \in Server : next_indices[i][p] <= Len(log[i]) + 1
            BY <1>1 DEF IndexInv, NextWithinLog
        <3> HIDE DEF i
        <3> QED BY <3>1, <3>2, <3>3
    <2>4. Len(log[i]) \in Nat /\ LogStep(i, log[i])
        BY <1>1, <2>2, <2>3, LenProperties, LogStays DEF IndexInv
    <2>5. next \in [Server -> Int] /\ \A p \in Server : next[p] <= Len(log[i]) + 1
        <3>1. /\ Smaller(next_indices[i][m.from], m.start - 1) \in Int
              /\ Smaller(next_indices[i][m.from], m.start - 1) <= Len(log[i]) + 1
            BY <1>1, <2>1, <2>3, <2>4 DEF Smaller
        <3> QED BY <1>1, <2>3, <3>1
    <2>6. {m.from} \in SUBSET Server /\ rpcs \ {m} \in SUBSET rpcs
        BY <1>1
    <2> HIDE DEF next, i
    <2>7. \A p \in Targets(i, {m.from}, in_flight_peers[i] \ {m.from}) :
              next[p] >= 1 => AppendEntriesTo(i, p, log[i], next) \in Message
        BY <1>1, <2>4, <2>5, <2>6, CallsTyped
    <2>8. VotelessStep(i)
        BY <1>1, <2>2, <2>3, <2>6, <2>7, ReplicateVotes
    <2> QED BY <1>1, <2>8 DEF i
<1> QED BY <1>3, <1>4, <1>5, <1>6, <1>1 DEF ReceiveAppendEntriesResponse

LEMMA ReceiveAppendEntriesVotes ==
    ASSUME IndexInv, NEW m \in rpcs,
           ReceiveAppendEntries(m) \/ RefuseAppendEntries(m) \/ PanicInOverwriteLog(m)
    PROVE  m.to \in Server /\ VotelessStep(m.to)
<1> DEFINE i == m.to
<1>1. /\ i \in Server /\ m \in AppendEntriesRequest /\ m.kind = "AppendEntries" /\ m.term \in Nat
      /\ Credible(m, log) /\ rpcs \in SUBSET Message
    <2>1. m.kind = "AppendEntries"
        BY DEF ReceiveAppendEntries, RefuseAppendEntries, PanicInOverwriteLog
    <2>2. m \in Message /\ Credible(m, log) /\ rpcs \in SUBSET Message
        BY DEF IndexInv, TypeOK, CredibleMessages
    <2> QED BY <2>1, <2>2, MessageKinds DEF AppendEntriesRequest, Term
<1>2. current_term[i] \in Nat /\ voted_for[i] \in Server \cup {None}
    BY <1>1 DEF IndexInv, TypeOK, Term
<1>3. ASSUME NEW term \in Nat, NEW success \in BOOLEAN
      PROVE  LET msgs == (rpcs \ {m}) \cup AnswerAppendEntries(m, term, success)
             IN  msgs \in SUBSET Message /\ NoNewRound(msgs)
    <2>1. \A x \in AnswerAppendEntries(m, term, success) : x \in Message /\ x.kind = "AppendEntriesAnswer"
        BY <1>1, AnswerAppendEntriesFacts DEF Credible
    <2> QED BY <1>1, <2>1 DEF NoNewRound, OfRound
<1>4. CASE ReceiveAppendEntries(m)
    <2> DEFINE newTerm == m.term > current_term[i]
               accepted == m.term >= current_term[i] /\ PrevLogMatches(log[i], m)
               msgs == (rpcs \ {m}) \cup AnswerAppendEntries(m, Larger(current_term[i], m.term), accepted)
    <2>1. /\ current_term' = [current_term EXCEPT ![i] = Larger(@, m.term)]
          /\ voted_for' = [voted_for EXCEPT ![i] = IF newTerm THEN None ELSE @]
          /\ IF role[i] # "Follower" THEN BecomeFollower(i, msgs) ELSE StayInRole(msgs)
          /\ UNCHANGED <<ballots, elected>>
        BY <1>4 DEF ReceiveAppendEntries, historyVars
    <2>2. accepted \in BOOLEAN /\ Larger(current_term[i], m.term) \in Nat
        BY <1>1, <1>2 DEF PrevLogMatches, Larger
    <2>3. msgs \in SUBSET Message /\ NoNewRound(msgs)
        BY <1>3, <2>2
    <2>4. \E t \in Term, v \in Server \cup {None} :
              /\ t >= current_term[i] /\ (t = current_term[i] => v = voted_for[i])
              /\ current_term' = [current_term EXCEPT ![i] = t]
              /\ voted_for' = [voted_for EXCEPT ![i] = v]
        <3>1. current_term' = [current_term EXCEPT ![i] = Larger(current_term[i], m.term)]
            BY <2>1
        <3>2. voted_for' = [voted_for EXCEPT ![i] = IF newTerm THEN None ELSE voted_for[i]]
            BY <2>1
        <3>3. /\ Larger(current_term[i], m.term) >= current_term[i]
              /\ Larger(current_term[i], m.term) = current_term[i] => ~newTerm
            BY <1>1, <1>2 DEF Larger
        <3> QED BY <1>2, <2>2, <3>1, <3>2, <3>3 DEF Term
    <2> HIDE DEF msgs
    <2>5. CASE role[i] # "Follower"
        <3>1. BecomeFollower(i, msgs)
            BY <2>1, <2>5
        <3> QED BY <1>1, <2>1, <2>3, <2>4, <3>1, BecomeFollowerVotes DEF VotelessStep
    <2>6. CASE role[i] = "Follower"
        <3>1. StayInRole(msgs)
            BY <2>1, <2>6
        <3> QED BY <1>1, <2>1, <2>3, <2>4, <2>6, <3>1 DEF VotelessStep, StayInRole
    <2> QED BY <2>5, <2>6
<1>5. CASE RefuseAppendEntries(m)
    <2>1. NoNewRound(rpcs')
        BY <1>2, <1>3, <1>5 DEF RefuseAppendEntries
    <2> QED BY <1>1, <1>5, <2>1, SameRoleVotes DEF RefuseAppendEntries, persistentVars
<1>6. CASE PanicInOverwriteLog(m)
    <2> DEFINE msgs == (rpcs \ {m}) \cup FailAppendEntries(m)
    <2>1. /\ m.term >= current_term[i]
          /\ current_term' = [current_term EXCEPT ![i] = m.term]
          /\ voted_for' = [voted_for EXCEPT ![i] = IF m.term > current_term[i] THEN None ELSE @]
          /\ LeaveRole(i, "OverwritePanic", outcome, log[i], in_flight_client_requests[i], msgs)
          /\ UNCHANGED <<ballots, elected>>
        BY <1>6 DEF PanicInOverwriteLog, Stop, historyVars
    <2>2. msgs \in SUBSET Message /\ NoNewRound(msgs)
        <3>1. \A x \in FailAppendEntries(m) : x \in Message /\ x.kind = "AppendEntriesError"
            BY <1>1, AnswerAppendEntriesFacts DEF Credible
        <3> QED BY <1>1, <3>1 DEF NoNewRound, OfRound
    <2>3. /\ "OverwritePanic" \in Roles /\ outcome \in [Cmd -> Outcomes] /\ log[i] \in Seq(Entry)
          /\ in_flight_client_requests[i] \in SUBSET (1 .. Len(log[i]))
        BY <1>1 DEF IndexInv, TypeOK, WaitingWithinLog, Roles, Panics, Outcomes
    <2> HIDE DEF msgs
    <2>4. /\ \A j \in Server \ {i} : role'[j] = role[j] /\ votes'[j] = votes[j]
          /\ NoNewRound(rpcs')
          /\ role'[i] # "Candidate"
          /\ RoundOver(i, rpcs')
        BY <1>1, <2>1, <2>2, <2>3, LeaveRoleVotes
    <2>5. \E t \in Term, v \in Server \cup {None} :
              /\ t >= current_term[i] /\ (t = current_term[i] => v = voted_for[i])
              /\ current_term' = [current_term EXCEPT ![i] = t]
              /\ voted_for' = [voted_for EXCEPT ![i] = v]
        <3>1. voted_for' = [voted_for EXCEPT ![i] = IF m.term > current_term[i] THEN None ELSE voted_for[i]]
            BY <2>1
        <3>2. m.term = current_term[i] => ~(m.term > current_term[i])
            BY <1>1, <1>2
        <3> QED BY <1>1, <1>2, <2>1, <3>1, <3>2 DEF Term
    <2> QED BY <1>1, <2>1, <2>4, <2>5 DEF VotelessStep
<1> QED BY <1>1, <1>4, <1>5, <1>6

LEMMA ClientVotes ==
    ASSUME IndexInv, NEW i \in Server,
           \/ \E c \in Cmd : ClientRequest(c) \/ ForwardCallFails(c)
           \/ \E m \in rpcs : ReceiveForward(m) \/ ReceiveForwardAnswer(m) \/ AppendEntriesCallFails(m)
           \/ \E j \in Server : Disconnect(i, j) \/ NewPeer(i, j)
    PROVE  \E j \in Server : VotelessStep(j)
<1>1. /\ outcome \in [Cmd -> Outcomes] /\ origin \in [Cmd -> Server] /\ rpcs \in SUBSET Message
      /\ \A c \in Cmd : [outcome EXCEPT ![c] = "pending"] \in [Cmd -> Outcomes]
    BY DEF IndexInv, TypeOK, Outcomes
<1>2. ASSUME NEW c \in Cmd, LeaderClientRequest(c) PROVE VotelessStep(origin[c])
    <2>1. HandleLogUpdate(origin[c], c, [outcome EXCEPT ![c] = "pending"], rpcs)
        BY <1>2 DEF LeaderClientRequest
    <2> QED BY <1>1, <2>1, HandleLogUpdateVotes
<1>3. ASSUME NEW c \in Cmd, FollowerClientRequest(c) \/ CandidateClientRequest(c) \/ ForwardCallFails(c)
      PROVE  VotelessStep(i)
    <2>1. \A x \in rpcs' : x \in rpcs \/ x.kind = "Forward"
        <3>1. CASE FollowerClientRequest(c)
            BY <3>1 DEF FollowerClientRequest
        <3>2. CASE CandidateClientRequest(c)
            BY <3>2 DEF CandidateClientRequest
        <3>3. CASE ForwardCallFails(c)
            BY <3>3 DEF ForwardCallFails
        <3> QED BY <1>3, <3>1, <3>2, <3>3
    <2>2. NoNewRound(rpcs')
        BY <2>1 DEF NoNewRound, OfRound
    <2> QED BY <1>3, <2>2, SameRoleVotes
            DEF FollowerClientRequest, CandidateClientRequest, ForwardCallFails, persistentVars
<1>4. ASSUME NEW m \in rpcs, ReceiveForward(m) PROVE \E j \in Server : VotelessStep(j)
    <2>1. m.to \in Server /\ m.cmd \in Cmd
        BY <1>1, <1>4, MessageKinds DEF ReceiveForward, ForwardRequest
    <2>2. CASE HandleLogUpdate(m.to, m.cmd, outcome, rpcs \ {m})
        BY <1>1, <2>1, <2>2, HandleLogUpdateVotes
    <2>3. CASE ~HandleLogUpdate(m.to, m.cmd, outcome, rpcs \ {m})
        <3>1. NoNewRound(rpcs')
            BY <1>4, <2>3 DEF ReceiveForward, NoNewRound, OfRound
        <3> QED BY <1>4, <2>3, <3>1, SameRoleVotes DEF ReceiveForward, persistentVars
    <2> QED BY <2>2, <2>3
<1>5. ASSUME NEW m \in rpcs, ReceiveForwardAnswer(m) PROVE VotelessStep(i)
    <2>1. NoNewRound(rpcs')
        BY <1>5 DEF ReceiveForwardAnswer, NoNewRound
    <2> QED BY <1>5, <2>1, SameRoleVotes DEF ReceiveForwardAnswer, persistentVars
<1>6. ASSUME NEW m \in rpcs, AppendEntriesCallFails(m) PROVE VotelessStep(i)
    <2>1. NoNewRound(rpcs')
        <3>1. CASE m.kind = "AppendEntries"
            <4>1. m \in AppendEntriesRequest
                BY <1>1, <3>1, MessageKinds
            <4>2. [m EXCEPT !.live = FALSE].kind = "AppendEntries"
                BY <3>1, <4>1 DEF AppendEntriesRequest
            <4>3. \A x \in FailAppendEntries(m) : x.kind = "AppendEntriesError"
                BY DEF FailAppendEntries
            <4>4. rpcs' = (rpcs \ {m}) \cup {[m EXCEPT !.live = FALSE]} \cup FailAppendEntries(m)
                BY <1>6, <3>1 DEF AppendEntriesCallFails
            <4> DEFINE orphan == [m EXCEPT !.live = FALSE]
            <4> HIDE DEF orphan
            <4>5. orphan.kind = "AppendEntries" /\ rpcs' = (rpcs \ {m}) \cup {orphan} \cup FailAppendEntries(m)
                BY <4>2, <4>4 DEF orphan
            <4> QED BY <4>3, <4>5 DEF NoNewRound, OfRound
        <3>2. CASE m.kind # "AppendEntries"
            <4>1. rpcs' = (rpcs \ {m}) \cup {[kind |-> "AppendEntriesError", from |-> m.from, to |-> m.to]}
                BY <1>6, <3>2 DEF AppendEntriesCallFails
            <4> QED BY <4>1 DEF NoNewRound, OfRound
        <3> QED BY <3>1, <3>2
    <2> QED BY <1>6, <2>1, SameRoleVotes DEF AppendEntriesCallFails, persistentVars
<1>7. ASSUME NEW j \in Server, Disconnect(i, j) \/ NewPeer(i, j) PROVE VotelessStep(i)
    <2>1. NoNewRound(rpcs')
        BY <1>7 DEF Disconnect, NewPeer, NoNewRound
    <2> QED BY <1>7, <2>1, SameRoleVotes DEF Disconnect, NewPeer, persistentVars
<1> QED BY <1>1, <1>2, <1>3, <1>4, <1>5, <1>6, <1>7 DEF ClientRequest

LEMMA WindowVotes ==
    ASSUME IndexInv, ElectionInv, NEW i \in Server, CloseWindow(i) \/ Restart(i)
    PROVE  VotelessStep(i)
<1>1. /\ rpcs \in SUBSET Message /\ outcome \in [Cmd -> Outcomes] /\ log[i] \in Seq(Entry)
      /\ in_flight_client_requests[i] \in SUBSET (1 .. Len(log[i]))
      /\ current_term[i] \in Term /\ voted_for[i] \in Server \cup {None} /\ current_term[i] >= current_term[i]
    BY DEF IndexInv, TypeOK, WaitingWithinLog, Outcomes, Term
<1>2. UNCHANGED <<current_term, voted_for>> =>
          /\ current_term' = [current_term EXCEPT ![i] = current_term[i]]
          /\ voted_for' = [voted_for EXCEPT ![i] = voted_for[i]]
    BY DEF IndexInv, TypeOK
<1>3. CASE CloseWindow(i)
    <2>1. /\ LeaveRole(i, "Closed", Forget(i), log[i], in_flight_client_requests[i], WithoutAnswersFor(i))
          /\ UNCHANGED <<current_term, voted_for, ballots, elected>>
        BY <1>3 DEF CloseWindow, Stop, persistentVars, historyVars
    <2>2. /\ WithoutAnswersFor(i) \in SUBSET Message /\ NoNewRound(WithoutAnswersFor(i))
          /\ Forget(i) \in [Cmd -> Outcomes] /\ "Closed" \in Roles
        BY <1>1, ForgetType DEF WithoutAnswersFor, NoNewRound, Roles
    <2> QED BY <1>1, <1>2, <2>1, <2>2, LeaveRoleVotes DEF VotelessStep
<1>4. CASE Restart(i)
    <2>1. /\ role' = [role EXCEPT ![i] = "Follower"] /\ ~Running(i)
          /\ rpcs' = (WithoutAnswersFor(i) \ SentTo(i)) \cup UNION {CallErrors(m) : m \in SentTo(i)}
          /\ UNCHANGED <<current_term, voted_for, votes, ballots, elected>>
        BY <1>4 DEF Restart, persistentVars, historyVars
    <2>2. \A m \in SentTo(i) : \A x \in CallErrors(m) : x.kind \in {"AppendEntriesError", "ForwardAnswer"}
        BY DEF CallErrors, FailAppendEntries
    <2>3. \A x \in rpcs' : x \in rpcs \/ x.kind \in {"AppendEntriesError", "ForwardAnswer"}
        BY <2>1, <2>2 DEF WithoutAnswersFor
    <2>4. NoNewRound(rpcs')
        BY <2>3 DEF NoNewRound, OfRound
    <2>5. role[i] # "Candidate" /\ role \in [Server -> Roles]
        BY <2>1 DEF Running, RunningRoles, IndexInv, TypeOK
    <2>6. RoundOver(i, rpcs')
        BY <2>4, <2>5 DEF ElectionInv, VotesOnTheWay, CallsForVotes, NoNewRound, OfRound, RoundOver
    <2>7. role'[i] # "Candidate" /\ \A j \in Server \ {i} : role'[j] = role[j] /\ votes'[j] = votes[j]
        BY <2>1, <2>5
    <2>8. \E t \in Term, v \in Server \cup {None} :
              /\ t >= current_term[i] /\ (t = current_term[i] => v = voted_for[i])
              /\ current_term' = [current_term EXCEPT ![i] = t]
              /\ voted_for' = [voted_for EXCEPT ![i] = v]
        BY <1>1, <1>2, <2>1
    <2>9. UNCHANGED <<ballots, elected>>
        BY <2>1
    <2>10. role'[i] # "Candidate"
        BY <2>7
    <2>11. \A j \in Server \ {i} : role'[j] = role[j] /\ votes'[j] = votes[j]
        BY <2>7
    <2> QED BY ONLY <2>4, <2>6, <2>8, <2>9, <2>10, <2>11 DEF VotelessStep
<1> QED BY <1>3, <1>4

-----------------------------------------------------------------------------
(* Steps that cast or count a vote *)

LEMMA ElectionTimeoutVotes ==
    ASSUME IndexInv, ElectionInv, NEW i \in Server, ElectionTimeout(i)
    PROVE  ElectionInv'
<1> DEFINE t == current_term[i] + 1
           calls == {[kind |-> "RequestVote", from |-> i, to |-> p, term |-> t,
                      last_log_index |-> Len(log[i]), live |-> TRUE] : p \in {q \in Peers(i) : {i, q} \in links}}
<1>1. /\ current_term \in [Server -> Nat] /\ voted_for \in [Server -> Server \cup {None}]
      /\ role \in [Server -> Roles] /\ votes \in [Server -> SUBSET Server] /\ rpcs \in SUBSET Message
      /\ \A b \in ballots : b.term \in Nat /\ b.voter \in Server
      /\ \A m \in rpcs : m.from \in Server /\ m.to \in Server
    BY MessageKinds DEF IndexInv, TypeOK, Term
<1>2. /\ current_term' = [current_term EXCEPT ![i] = t] /\ voted_for' = [voted_for EXCEPT ![i] = i]
      /\ ballots' = ballots \cup {Ballot(t, i, i)}
      /\ role' = [role EXCEPT ![i] = "Candidate"] /\ votes' = [votes EXCEPT ![i] = {i}]
      /\ rpcs' = Abandon(i, rpcs) \cup calls
      /\ elected' = elected
    BY DEF ElectionTimeout, Ballot
<1>3. t \in Nat /\ t > current_term[i] /\ \A b \in ballots : b.voter = i => b.term < t
    BY <1>1 DEF ElectionInv, BallotsStored
<1>4. ASSUME NEW m \in calls PROVE m.kind = "RequestVote" /\ m.from = i /\ m.term = t
    <2>1. PICK p \in Peers(i) : m = [kind |-> "RequestVote", from |-> i, to |-> p, term |-> t,
                                     last_log_index |-> Len(log[i]), live |-> TRUE]
        OBVIOUS
    <2> QED BY <2>1
<1>5. /\ Ballot(t, i, i).term = t /\ Ballot(t, i, i).voter = i /\ Ballot(t, i, i).candidate = i
    BY DEF Ballot
<1> HIDE DEF t, calls
<1>6. BallotsStored'
    <2> SUFFICES ASSUME NEW b \in ballots'
                 PROVE  /\ b.term <= current_term'[b.voter]
                        /\ b.term = current_term'[b.voter] => voted_for'[b.voter] = b.candidate
        BY DEF BallotsStored
    <2>1. CASE b = Ballot(t, i, i)
        BY <1>1, <1>2, <1>3, <1>5, <2>1
    <2>2. CASE b \in ballots
        <3>1. /\ b.term <= current_term[b.voter]
              /\ b.term = current_term[b.voter] => voted_for[b.voter] = b.candidate
            BY <2>2 DEF ElectionInv, BallotsStored
        <3>2. CASE b.voter = i
            BY <1>1, <1>2, <1>3, <2>2, <3>2
        <3>3. CASE b.voter # i
            BY <1>1, <1>2, <2>2, <3>1, <3>3
        <3> QED BY <3>2, <3>3
    <2> QED BY <1>2, <2>1, <2>2
<1>7. OneVotePerTerm'
    BY <1>1, <1>2, <1>3, <1>5 DEF ElectionInv, OneVotePerTerm
<1>8. CountedVotes'
    <2> SUFFICES ASSUME NEW j \in Server, role'[j] = "Candidate", NEW w \in votes'[j]
                 PROVE  Ballot(current_term'[j], w, j) \in ballots'
        BY DEF CountedVotes
    <2>1. CASE j = i
        BY <1>1, <1>2, <2>1
    <2>2. CASE j # i
        BY <1>1, <1>2, <2>2 DEF ElectionInv, CountedVotes
    <2> QED BY <2>1, <2>2
<1>9. VotesOnTheWay'
    <2> SUFFICES ASSUME NEW m \in rpcs', m.kind = "VoteGranted"
                 PROVE  /\ role'[m.to] = "Candidate" /\ m.term = current_term'[m.to]
                        /\ Ballot(m.term, m.from, m.to) \in ballots'
        BY DEF VotesOnTheWay
    <2>1. m \in rpcs /\ m.to # i
        BY <1>1, <1>2, <1>4, AbandonFacts
    <2> QED BY <1>1, <1>2, <2>1 DEF ElectionInv, VotesOnTheWay
<1>10. CallsForVotes'
    <2> SUFFICES ASSUME NEW m \in rpcs', m.kind = "RequestVote", m.live
                 PROVE  role'[m.from] = "Candidate" /\ m.term = current_term'[m.from]
        BY DEF CallsForVotes
    <2>1. CASE m \in calls
        BY <1>1, <1>2, <1>4, <2>1
    <2>2. CASE m \in Abandon(i, rpcs)
        <3>1. m \in rpcs /\ m.from # i
            BY <1>1, <2>2, AbandonFacts
        <3> QED BY <1>1, <1>2, <3>1 DEF ElectionInv, CallsForVotes
    <2> QED BY <1>2, <2>1, <2>2
<1>11. WonByQuorum'
    BY <1>2 DEF ElectionInv, WonByQuorum
<1> QED BY <1>6, <1>7, <1>8, <1>9, <1>10, <1>11 DEF ElectionInv

LEMMA ReceiveVoteVotes ==
    ASSUME IndexInv, ElectionInv, NEW m \in rpcs, ReceiveVote(m)
    PROVE  ElectionInv'
<1> DEFINE i == m.to
           received == votes[i] \cup {m.from}
           won == Cardinality(received) >= Quorum
<1>1. /\ i \in Server /\ m.from \in Server /\ rpcs \in SUBSET Message
      /\ role \in [Server -> Roles] /\ votes \in [Server -> SUBSET Server]
      /\ \A x \in rpcs : x.from \in Server /\ x.to \in Server
    BY MessageKinds DEF IndexInv, TypeOK
<1>2. /\ m.kind = "VoteGranted" /\ role[i] = "Candidate"
      /\ votes' = [votes EXCEPT ![i] = IF won THEN {} ELSE received]
      /\ rpcs' = IF won THEN Abandon(i, rpcs) ELSE rpcs \ {m}
      /\ IF won
         THEN role' = [role EXCEPT ![i] = "Leader"] /\ elected' = elected \cup {[term |-> current_term[i], leader |-> i]}
         ELSE UNCHANGED <<role, elected>>
      /\ UNCHANGED <<current_term, voted_for, ballots>>
    BY DEF ReceiveVote, persistentVars
<1>3. \A v \in received : v \in Server /\ Ballot(current_term[i], v, i) \in ballots
    BY <1>1, <1>2 DEF ElectionInv, CountedVotes, VotesOnTheWay
<1> HIDE DEF received, won
<1>4. BallotsStored' /\ OneVotePerTerm'
    BY <1>2 DEF ElectionInv, BallotsStored, OneVotePerTerm
<1>5. \A x \in rpcs' : OfRound(x) => /\ x \in rpcs
                                     /\ won => /\ x.kind = "VoteGranted" => x.to # i
                                               /\ x.kind = "RequestVote" => x.from # i
    BY <1>1, <1>2, AbandonFacts DEF OfRound
<1>6. \A j \in Server : j # i \/ ~won => role'[j] = role[j]
    BY <1>1, <1>2
<1>7. CountedVotes'
    <2> SUFFICES ASSUME NEW j \in Server, role'[j] = "Candidate", NEW w \in votes'[j]
                 PROVE  Ballot(current_term[j], w, j) \in ballots
        BY <1>2 DEF CountedVotes
    <2>1. CASE j = i
        BY <1>1, <1>2, <1>3, <2>1
    <2>2. CASE j # i
        BY <1>1, <1>2, <1>6, <2>2 DEF ElectionInv, CountedVotes
    <2> QED BY <2>1, <2>2
<1>8. VotesOnTheWay' /\ CallsForVotes'
    BY <1>1, <1>2, <1>5, <1>6 DEF ElectionInv, VotesOnTheWay, CallsForVotes, OfRound
<1>9. WonByQuorum'
    <2>1. CASE won
        <3>1. received \in SUBSET Server /\ Cardinality(received) >= Quorum
            BY <1>3, <2>1 DEF won
        <3>2. elected' = elected \cup {[term |-> current_term[i], leader |-> i]}
            BY <1>2, <2>1
        <3> SUFFICES ASSUME NEW e \in elected'
                     PROVE  \E Q \in SUBSET Server :
                                Cardinality(Q) >= Quorum /\ \A v \in Q : Ballot(e.term, v, e.leader) \in ballots
            BY <1>2 DEF WonByQuorum
        <3>3. CASE e \in elected
            BY <3>3 DEF ElectionInv, WonByQuorum
        <3>4. CASE e = [term |-> current_term[i], leader |-> i]
            <4>1. e.term = current_term[i] /\ e.leader = i
                BY <3>4
            <4> QED BY <1>3, <3>1, <4>1
        <3> QED BY <3>2, <3>3, <3>4
    <2>2. CASE ~won
        BY <1>2, <2>2 DEF ElectionInv, WonByQuorum
    <2> QED BY <2>1, <2>2
<1> QED BY <1>4, <1>7, <1>8, <1>9 DEF ElectionInv

LEMMA ReceiveRequestVoteVotes ==
    ASSUME IndexInv, ElectionInv, NEW m \in rpcs, ReceiveRequestVote(m)
    PROVE  ElectionInv'
<1> DEFINE i == m.to
           newTerm == m.term > current_term[i]
           vote == IF newTerm THEN None ELSE voted_for[i]
           granted == (role[i] = "Leader" => newTerm) /\ VoteGrantedTo(m, i, vote)
           b0 == Ballot(m.term, i, m.from)
           reply == IF granted /\ m.live
                    THEN {[kind |-> "VoteGranted", from |-> i, to |-> m.from, term |-> m.term]} ELSE {}
           msgs == (rpcs \ {m}) \cup reply
<1>1. /\ m \in RequestVoteRequest /\ m.kind = "RequestVote"
      /\ i \in Server /\ m.from \in Server /\ m.term \in Nat /\ rpcs \in SUBSET Message
      /\ current_term \in [Server -> Nat] /\ voted_for \in [Server -> Server \cup {None}]
      /\ role \in [Server -> Roles] /\ votes \in [Server -> SUBSET Server]
      /\ \A b \in ballots : b.term \in Nat /\ b.voter \in Server /\ b.candidate \in Server
      /\ \A x \in rpcs : x.from \in Server /\ x.to \in Server
    <2>1. m.kind = "RequestVote"
        BY DEF ReceiveRequestVote
    <2> QED BY <2>1, MessageKinds DEF IndexInv, TypeOK, RequestVoteRequest, Term
<1>2. /\ current_term' = [current_term EXCEPT ![i] = Larger(@, m.term)]
      /\ voted_for' = [voted_for EXCEPT ![i] = IF granted THEN m.from ELSE vote]
      /\ ballots' = IF granted THEN ballots \cup {b0} ELSE ballots
      /\ IF newTerm THEN BecomeFollower(i, msgs) ELSE StayInRole(msgs)
      /\ elected' = elected
    BY DEF ReceiveRequestVote, Ballot
<1>3. b0.term = m.term /\ b0.voter = i /\ b0.candidate = m.from
    BY DEF Ballot
<1>4. granted => m.term >= current_term[i] /\ vote \in {None, m.from}
    BY DEF VoteGrantedTo
<1>5. ~newTerm => m.term <= current_term[i] /\ vote = voted_for[i]
    BY <1>1
<1>6. newTerm => vote = None
    OBVIOUS
<1>7. \A x \in reply : /\ granted /\ m.live /\ x = [kind |-> "VoteGranted", from |-> i, to |-> m.from, term |-> m.term]
                       /\ x \in Message
    BY <1>1 DEF Message, VoteGranted, Term
<1>8. m.live => role[m.from] = "Candidate" /\ m.term = current_term[m.from]
    BY <1>1 DEF ElectionInv, CallsForVotes
<1>9. current_term'[i] = (IF newTerm THEN m.term ELSE current_term[i])
      /\ \A j \in Server : j # i => current_term'[j] = current_term[j] /\ voted_for'[j] = voted_for[j]
    BY <1>1, <1>2 DEF Larger
<1>10. voted_for'[i] = IF granted THEN m.from ELSE vote
    BY <1>1, <1>2
<1> HIDE DEF reply, granted, vote, b0
<1>11. BallotsStored'
    <2> SUFFICES ASSUME NEW b \in ballots'
                 PROVE  /\ b.term <= current_term'[b.voter]
                        /\ b.term = current_term'[b.voter] => voted_for'[b.voter] = b.candidate
        BY DEF BallotsStored
    <2>1. CASE granted /\ b = b0
        BY <1>1, <1>3, <1>4, <1>5, <1>9, <1>10, <2>1
    <2>2. CASE b \in ballots
        <3>1. /\ b.term <= current_term[b.voter]
              /\ b.term = current_term[b.voter] => voted_for[b.voter] = b.candidate
            BY <2>2 DEF ElectionInv, BallotsStored
        <3>2. CASE b.voter = i /\ ~newTerm
            BY <1>1, <1>4, <1>5, <1>9, <1>10, <2>2, <3>1, <3>2, ServerAssumption
        <3>3. CASE b.voter = i /\ newTerm
            BY <1>1, <1>9, <2>2, <3>1, <3>3
        <3>4. CASE b.voter # i
            BY <1>1, <1>9, <2>2, <3>1, <3>4
        <3> QED BY <3>2, <3>3, <3>4
    <2> QED BY <1>2, <2>1, <2>2
<1>12. OneVotePerTerm'
    <2>1. ASSUME granted, NEW b \in ballots, b.term = m.term, b.voter = i
          PROVE  b.candidate = m.from
        <3>1. /\ b.term <= current_term[i]
              /\ b.term = current_term[i] => voted_for[i] = b.candidate
            BY <2>1 DEF ElectionInv, BallotsStored
        <3>2. m.term = current_term[i] /\ ~newTerm
            BY <1>1, <1>4, <2>1, <3>1
        <3> QED BY <1>1, <1>4, <1>5, <2>1, <3>1, <3>2, ServerAssumption
    <2> QED BY <1>2, <1>3, <2>1 DEF ElectionInv, OneVotePerTerm
<1>13. \A x \in msgs : OfRound(x) => x \in rpcs \/ x \in reply
    OBVIOUS
<1>14. msgs \in SUBSET Message
    BY <1>1, <1>7
<1>15. /\ \A j \in Server : j # i \/ ~newTerm => role'[j] = role[j] /\ votes'[j] = votes[j] /\ current_term'[j] = current_term[j]
       /\ \A x \in rpcs' : OfRound(x) => x \in rpcs \/ x \in reply
       /\ newTerm => /\ role'[i] # "Candidate"
                     /\ \A x \in rpcs' : OfRound(x) => /\ x.kind = "VoteGranted" => x.to # i
                                                       /\ x.kind = "RequestVote" => x.from # i
    <2>1. CASE newTerm
        <3>1. LeaveRole(i, "Follower", outcome, log[i], in_flight_client_requests[i], msgs)
            BY <1>2, <2>1 DEF BecomeFollower
        <3>2. /\ role' = [role EXCEPT ![i] = "Follower"] /\ votes' = [votes EXCEPT ![i] = {}]
              /\ \A x \in rpcs' : x \in Abandon(i, msgs) \/ x.kind = "ForwardAnswer"
            BY <3>1 DEF LeaveRole, AnswerClients
        <3> HIDE DEF msgs
        <3>3. \A x \in rpcs' : OfRound(x) => /\ x \in msgs
                                             /\ x.kind = "VoteGranted" => x.to # i
                                             /\ x.kind = "RequestVote" => x.from # i
            BY <1>1, <1>14, <3>2, AbandonFacts DEF OfRound
        <3> QED BY <1>1, <1>9, <1>13, <2>1, <3>2, <3>3
    <2>2. CASE ~newTerm
        BY <1>1, <1>2, <1>9, <1>13, <2>2 DEF StayInRole
    <2> QED BY <2>1, <2>2
<1> HIDE DEF msgs, newTerm
<1>21. newTerm => \A x \in rpcs' : x.kind = "VoteGranted" => x.to # i
    BY <1>15 DEF OfRound
<1>22. newTerm => \A x \in rpcs' : x.kind = "RequestVote" /\ x.live => x.from # i
    BY <1>15 DEF OfRound
<1>16. ballots \subseteq ballots' /\ (granted => b0 \in ballots')
    BY <1>2
<1>17. CountedVotes'
    <2> SUFFICES ASSUME NEW j \in Server, role'[j] = "Candidate", NEW w \in votes'[j]
                 PROVE  Ballot(current_term'[j], w, j) \in ballots'
        BY DEF CountedVotes
    <2> QED BY <1>15, <1>16 DEF ElectionInv, CountedVotes
<1>18. VotesOnTheWay'
    <2> SUFFICES ASSUME NEW x \in rpcs', x.kind = "VoteGranted"
                 PROVE  /\ role'[x.to] = "Candidate" /\ x.term = current_term'[x.to]
                        /\ Ballot(x.term, x.from, x.to) \in ballots'
        BY DEF VotesOnTheWay
    <2>1. CASE x \in rpcs
        <3>1. /\ role[x.to] = "Candidate" /\ x.term = current_term[x.to] /\ x.to \in Server
              /\ Ballot(x.term, x.from, x.to) \in ballots
            BY <1>1, <2>1 DEF ElectionInv, VotesOnTheWay
        <3>2. x.to # i \/ ~newTerm
            BY <1>21
        <3> QED BY <1>15, <1>16, <3>1, <3>2
    <2>2. CASE x \in reply
        <3>1. x.from = i /\ x.to = m.from /\ x.term = m.term /\ granted /\ m.live
            BY <1>7, <2>2
        <3>2. role'[m.from] = "Candidate" /\ m.term = current_term'[m.from]
            BY <1>1, <1>8, <1>15, <3>1 DEF OfRound
        <3> QED BY <1>16, <3>1, <3>2 DEF b0
    <2> QED BY <1>15, <2>1, <2>2 DEF OfRound
<1>19. CallsForVotes'
    <2> SUFFICES ASSUME NEW x \in rpcs', x.kind = "RequestVote", x.live
                 PROVE  role'[x.from] = "Candidate" /\ x.term = current_term'[x.from]
        BY DEF CallsForVotes
    <2>1. x \in rpcs
        BY <1>7, <1>15 DEF OfRound
    <2>2. role[x.from] = "Candidate" /\ x.term = current_term[x.from] /\ x.from \in Server
        BY <1>1, <2>1 DEF ElectionInv, CallsForVotes
    <2>3. x.from # i \/ ~newTerm
        BY <1>22
    <2> QED BY <1>15, <2>2, <2>3
<1>20. WonByQuorum'
    BY <1>2, <1>16 DEF ElectionInv, WonByQuorum
<1> QED BY <1>11, <1>12, <1>17, <1>18, <1>19, <1>20 DEF ElectionInv

-----------------------------------------------------------------------------
(* Theorems: elections *)

LEMMA ElectionInvInit == Init => ElectionInv
BY DEF Init, ElectionInv, BallotsStored, OneVotePerTerm, CountedVotes, VotesOnTheWay, CallsForVotes, WonByQuorum

LEMMA ElectionInvNext == IndexInv /\ ElectionInv /\ [Next]_vars => ElectionInv'
<1> SUFFICES ASSUME IndexInv, ElectionInv, [Next]_vars PROVE ElectionInv'
    OBVIOUS
<1>1. ASSUME NEW m \in rpcs, Receive(m) \/ AppendEntriesCallFails(m) PROVE ElectionInv'
    <2>1. CASE ReceiveRequestVote(m) \/ ReceiveVote(m)
        BY <2>1, ReceiveRequestVoteVotes, ReceiveVoteVotes
    <2>2. CASE ReceiveAppendEntries(m) \/ RefuseAppendEntries(m) \/ PanicInOverwriteLog(m)
        BY <2>2, ReceiveAppendEntriesVotes, VotelessStepKeeps
    <2>3. CASE ReceiveAppendEntriesResponse(m)
        BY <2>3, ResponseVotes, VotelessStepKeeps
    <2>4. CASE ReceiveForward(m) \/ ReceiveForwardAnswer(m) \/ AppendEntriesCallFails(m)
        <3>1. m.to \in Server
            BY MessageKinds DEF IndexInv, TypeOK
        <3> QED BY <2>4, <3>1, ClientVotes, VotelessStepKeeps
    <2> QED BY <1>1, <2>1, <2>2, <2>3, <2>4 DEF Receive
<1>2. ASSUME NEW c \in Cmd, ClientRequest(c) \/ ForwardCallFails(c) PROVE ElectionInv'
    <2>1. origin[c] \in Server
        BY DEF IndexInv, TypeOK
    <2> QED BY <1>2, <2>1, ClientVotes, VotelessStepKeeps
<1>3. ASSUME NEW i \in Server, ElectionTimeout(i) \/ Heartbeat(i) \/ CloseWindow(i) \/ Restart(i)
      PROVE  ElectionInv'
    BY <1>3, ElectionTimeoutVotes, HeartbeatVotes, WindowVotes, VotelessStepKeeps
<1>4. ASSUME NEW i \in Server, NEW j \in Server, Disconnect(i, j) \/ NewPeer(i, j) PROVE ElectionInv'
    BY <1>4, ClientVotes, VotelessStepKeeps
<1>5. CASE UNCHANGED vars
    BY <1>5 DEF vars, persistentVars, historyVars, ElectionInv, BallotsStored, OneVotePerTerm, CountedVotes,
                VotesOnTheWay, CallsForVotes, WonByQuorum
<1> QED BY <1>1, <1>2, <1>3, <1>4, <1>5 DEF Next

\* A voter that has stored its vote grants no other in the term: not after a
\* reload, nor to a candidate whose request comes late (worker.rs:170-189).
THEOREM VotesOncePerTerm == Spec => []OneVotePerTerm
<1>1. ElectionInv => OneVotePerTerm
    BY DEF ElectionInv
<1> QED BY <1>1, IndexInvInit, IndexInvNext, ElectionInvInit, ElectionInvNext, PTL DEF Spec

\* Two quorums of one term share a voter, which cast one vote.
LEMMA OneWinnerPerTerm == OneVotePerTerm /\ WonByQuorum /\ TypeOK => ElectionSafety
<1> SUFFICES ASSUME OneVotePerTerm, WonByQuorum, NEW a \in elected, NEW b \in elected, a.term = b.term
             PROVE  a.leader = b.leader
    BY DEF ElectionSafety
<1>1. PICK Q \in SUBSET Server :
          Cardinality(Q) >= Quorum /\ \A v \in Q : Ballot(a.term, v, a.leader) \in ballots
    BY DEF WonByQuorum
<1>2. PICK R \in SUBSET Server :
          Cardinality(R) >= Quorum /\ \A v \in R : Ballot(b.term, v, b.leader) \in ballots
    BY DEF WonByQuorum
<1>3. Q \cap R # {}
    <2>1. /\ IsFiniteSet(Server) /\ Cardinality(Server) \in Nat
          /\ Cardinality(Q) \in Nat /\ Cardinality(R) \in Nat
        BY ServerAssumption, FS_CardinalityType, FS_Subset
    <2>2. Cardinality(Q) + Cardinality(R) > Cardinality(Server)
        BY <1>1, <1>2, <2>1 DEF Quorum
    <2> QED BY <2>1, <2>2, FS_MajoritiesIntersect
<1>4. PICK v \in Q \cap R : TRUE
    BY <1>3
<1>5. Ballot(a.term, v, a.leader) \in ballots /\ Ballot(b.term, v, b.leader) \in ballots
    BY <1>1, <1>2, <1>4
<1> QED BY <1>5 DEF OneVotePerTerm, Ballot

\* No term has two leaders, not even one after the other (worker.rs:777-804):
\* whatever is closed, reloaded, lost, delayed or sent to an earlier round.
THEOREM ElectionsAreSafe == Spec => []ElectionSafety
<1>1. IndexInv /\ ElectionInv => ElectionSafety
    BY OneWinnerPerTerm DEF ElectionInv, IndexInv
<1> QED BY <1>1, IndexInvInit, IndexInvNext, ElectionInvInit, ElectionInvNext, PTL DEF Spec

=============================================================================
