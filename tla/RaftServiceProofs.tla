-------------------------- MODULE RaftServiceProofs --------------------------
(***************************************************************************)
(* What RaftWorker guarantees to those who wait for an answer.              *)
(*                                                                          *)
(* Whoever leads: a leader has one AppendEntries call under way per peer in *)
(* flight, whoever is told Ack has had its command applied, and is never    *)
(* told otherwise.  While one leader is the only one elected: commands that *)
(* are committed stay, on a majority, and all state machines receive them   *)
(* in one order, so that the workers implement ReplicatedLog.               *)
(***************************************************************************)
EXTENDS RaftLogProofs

\* m is a call of i to p that is still awaited, or what is to end that call.
IsCall(m, i, p) ==
    \/ m.kind = "AppendEntries" /\ m.from = i /\ m.to = p /\ m.live
    \/ m.kind \in {"AppendEntriesAnswer", "AppendEntriesError"} /\ m.from = p /\ m.to = i
CallsIn(msgs, i, p) == {m \in msgs : IsCall(m, i, p)}

\* Among msgs, i has one call to p when p is in flight, none otherwise.
OneCall(msgs, i, p, inFlight) ==
    IF inFlight THEN \E m : CallsIn(msgs, i, p) = {m} ELSE CallsIn(msgs, i, p) = {}
CallsFit(msgs, inFlightPeers) ==
    \A i \in Server : \A p \in Peers(i) : OneCall(msgs, i, p, p \in inFlightPeers[i])

\* The acknowledgements given, and those under way, are of commands in apps.
AcksApplied(apps, msgs, out) ==
    /\ \A c \in Cmd : out[c] = "ack" => \E a \in apps : a[2] = c
    /\ \A m \in msgs : m.kind = "ForwardAnswer" /\ m.ack => \E a \in apps : a[2] = m.cmd

\* Only a leader waits for anything, ...
IdleUnlessLeader ==
    \A i \in Server : role[i] # "Leader" => in_flight_peers[i] = {} /\ in_flight_client_requests[i] = {}
\* ... and a request in flight is for an index that is not applied yet.
WaitingNotApplied ==
    \A i \in Server : \A k \in in_flight_client_requests[i] : last_applied[i] < k

ServiceInv ==
    /\ CallsFit(rpcs, in_flight_peers)
    /\ AcksApplied(applied, rpcs, outcome)
    /\ IdleUnlessLeader
    /\ WaitingNotApplied

-----------------------------------------------------------------------------
(* Sets of messages *)

\* Sets of messages with the same calls of i to p.
LEMMA SameCalls ==
    ASSUME NEW i, NEW p, NEW msgs, NEW msgs2,
           \A m : IsCall(m, i, p) => (m \in msgs <=> m \in msgs2)
    PROVE  CallsIn(msgs, i, p) = CallsIn(msgs2, i, p)
BY DEF CallsIn

\* Messages of other kinds come and go without changing any call.
LEMMA OtherKinds ==
    ASSUME NEW msgs, NEW msgs2, NEW inFlightPeers, CallsFit(msgs, inFlightPeers),
           \A m \in msgs \ msgs2 : m.kind \in {"RequestVote", "VoteGranted", "Forward", "ForwardAnswer"},
           \A m \in msgs2 \ msgs : m.kind \in {"RequestVote", "VoteGranted", "Forward", "ForwardAnswer"}
    PROVE  CallsFit(msgs2, inFlightPeers)
<1> SUFFICES ASSUME NEW i \in Server, NEW p \in Peers(i)
             PROVE  OneCall(msgs2, i, p, p \in inFlightPeers[i])
    BY DEF CallsFit
<1>1. CallsIn(msgs, i, p) = CallsIn(msgs2, i, p)
    BY SameCalls DEF IsCall
<1> QED BY <1>1 DEF CallsFit, OneCall

\* A role that ends leaves no call of its own, and all the others.
LEMMA AbandonCalls ==
    ASSUME NEW i \in Server, NEW msgs \in SUBSET Message, NEW j \in Server, NEW p \in Server
    PROVE  CallsIn(Abandon(i, msgs), j, p) = IF j = i THEN {} ELSE CallsIn(msgs, j, p)
<1>1. CASE j = i
    BY <1>1, AbandonFacts DEF CallsIn, IsCall
<1>2. CASE j # i
    <2>1. ASSUME NEW m \in Abandon(i, msgs), IsCall(m, j, p) PROVE m \in msgs
        BY <2>1, AbandonFacts DEF IsCall
    <2>2. ASSUME NEW m \in msgs, IsCall(m, j, p) PROVE m \in Abandon(i, msgs)
        <3>1. /\ ~(m.to = i /\ m.kind \in {"VoteGranted", "AppendEntriesAnswer", "AppendEntriesError"})
              /\ ~(m.from = i /\ m.kind \in {"RequestVote", "AppendEntries"})
            BY <1>2, <2>2 DEF IsCall
        <3> QED BY <3>1 DEF Abandon
    <2> QED BY <1>2, <2>1, <2>2, SameCalls
<1> QED BY <1>1, <1>2

\* A handled AppendEntries request leaves its answer, or the error of the
\* failed call, in its place; a request that nobody awaits leaves no call.
LEMMA ReplacedCall ==
    ASSUME ServiceInv, NEW m \in rpcs, m \in Message, m.kind = "AppendEntries", NEW more,
           \A x \in more : \A i \in Server : \A p \in Peers(i) : ~IsCall(x, i, p), NEW a,
           a.kind \in {"AppendEntriesAnswer", "AppendEntriesError"}, a.from = m.to, a.to = m.from
    PROVE  CallsFit((rpcs \ {m}) \cup more \cup (IF m.live THEN {a} ELSE {}), in_flight_peers)
<1> DEFINE msgs == (rpcs \ {m}) \cup more \cup (IF m.live THEN {a} ELSE {})
<1> SUFFICES ASSUME NEW i \in Server, NEW p \in Peers(i)
             PROVE  OneCall(msgs, i, p, p \in in_flight_peers[i])
    BY DEF CallsFit
<1>1. OneCall(rpcs, i, p, p \in in_flight_peers[i])
    BY DEF ServiceInv, CallsFit
<1>2. CASE m.live /\ m.from = i /\ m.to = p
    <2>1. IsCall(m, i, p) /\ IsCall(a, i, p)
        BY <1>2 DEF IsCall
    <2>2. p \in in_flight_peers[i] /\ CallsIn(rpcs, i, p) = {m}
        BY <1>1, <2>1 DEF OneCall, CallsIn
    <2>3. CallsIn(msgs, i, p) = {a}
        BY <1>2, <2>1, <2>2 DEF CallsIn
    <2> QED BY <2>2, <2>3 DEF OneCall
<1>3. CASE ~(m.live /\ m.from = i /\ m.to = p)
    <2>1. ~IsCall(m, i, p) /\ (m.live => ~IsCall(a, i, p))
        BY <1>3 DEF IsCall
    <2>2. CallsIn(rpcs, i, p) = CallsIn(msgs, i, p)
        BY <2>1, SameCalls
    <2> QED BY <1>1, <2>2 DEF OneCall
<1> QED BY <1>2, <1>3

\* The end of a call reaches its leader: the peer is in flight no more.
LEMMA TakenCall ==
    ASSUME ServiceInv, TypeOK, NEW m \in rpcs, m.kind \in {"AppendEntriesAnswer", "AppendEntriesError"}
    PROVE  CallsFit(rpcs \ {m}, [in_flight_peers EXCEPT ![m.to] = @ \ {m.from}])
<1> DEFINE flying == [in_flight_peers EXCEPT ![m.to] = @ \ {m.from}]
<1> SUFFICES ASSUME NEW i \in Server, NEW p \in Peers(i)
             PROVE  OneCall(rpcs \ {m}, i, p, p \in flying[i])
    BY DEF CallsFit
<1>1. OneCall(rpcs, i, p, p \in in_flight_peers[i]) /\ in_flight_peers \in [Server -> SUBSET Server]
    BY DEF ServiceInv, CallsFit, TypeOK
<1>2. CASE i = m.to /\ p = m.from
    <2>1. IsCall(m, i, p)
        BY <1>2 DEF IsCall
    <2>2. CallsIn(rpcs, i, p) = {m}
        BY <1>1, <2>1 DEF OneCall, CallsIn
    <2>3. CallsIn(rpcs \ {m}, i, p) = {} /\ p \notin flying[i]
        BY <1>1, <1>2, <2>2 DEF CallsIn
    <2> QED BY <2>3 DEF OneCall
<1>3. CASE ~(i = m.to /\ p = m.from)
    <2>1. ~IsCall(m, i, p) /\ (p \in flying[i] <=> p \in in_flight_peers[i])
        BY <1>1, <1>3 DEF IsCall
    <2>2. CallsIn(rpcs, i, p) = CallsIn(rpcs \ {m}, i, p)
        BY <2>1, SameCalls
    <2> QED BY <1>1, <2>1, <2>2 DEF OneCall
<1> QED BY <1>2, <1>3

-----------------------------------------------------------------------------
(* The parts of a step that handlers share *)

LEMMA AcksStay ==
    ASSUME NEW apps, NEW apps2, apps \subseteq apps2, NEW msgs, NEW out, AcksApplied(apps, msgs, out),
           NEW msgs2, \A m \in msgs2 : m \in msgs \/ m.kind # "ForwardAnswer" \/ m.ack = FALSE,
           NEW out2, \A c \in Cmd : out2[c] = "ack" => out[c] = "ack"
    PROVE  AcksApplied(apps2, msgs2, out2)
BY DEF AcksApplied

\* What is applied stays so.
LEMMA ApplyLogService ==
    ASSUME TypeOK, NEW i \in Server, NEW lg, NEW commit, ApplyLog(i, lg, commit)
    PROVE  /\ applied \subseteq applied'
           /\ \A j \in Server \ {i} : last_applied'[j] = last_applied[j]
BY DEF ApplyLog, TypeOK

\* Callers who are refused: no acknowledgement, and no call, comes of it.
LEMMA RefusedClients ==
    ASSUME NEW i, NEW cmds, NEW out, NEW msgs, NEW apps, AcksApplied(apps, msgs, out),
           AnswerClients(i, cmds, FALSE, out, msgs)
    PROVE  /\ AcksApplied(apps, rpcs', outcome')
           /\ \A m \in rpcs' : m \in msgs \/ m.kind = "ForwardAnswer"
           /\ msgs \subseteq rpcs'
<1> DEFINE answers == {[kind |-> "ForwardAnswer", from |-> i, to |-> origin[c], cmd |-> c, ack |-> FALSE] :
                           c \in {d \in cmds : origin[d] # i /\ out[d] = "pending"}}
<1>1. rpcs' = msgs \cup answers /\ \A m \in answers : m.kind = "ForwardAnswer" /\ m.ack = FALSE
    BY DEF AnswerClients
<1>2. \A c \in Cmd : outcome'[c] = "ack" => out[c] = "ack"
    BY DEF AnswerClients
<1> HIDE DEF answers
<1>3. \A m \in rpcs' : m \in msgs \/ m.kind # "ForwardAnswer" \/ m.ack = FALSE
    BY <1>1
<1>4. AcksApplied(apps, rpcs', outcome')
    BY <1>2, <1>3 DEF AcksApplied
<1> QED BY <1>1, <1>4

\* A role that ends waits for nothing more.
LEMMA LeaveRoleService ==
    ASSUME TypeOK, ServiceInv, NEW i \in Server, NEW newRole, newRole # "Leader",
           NEW out, NEW lg, NEW inFlight, NEW msgs \in SUBSET Message,
           \A j \in Server \ {i} : \A p \in Peers(j) : OneCall(msgs, j, p, p \in in_flight_peers[j]),
           AcksApplied(applied', msgs, out),
           \A j \in Server \ {i} : last_applied'[j] = last_applied[j],
           LeaveRole(i, newRole, out, lg, inFlight, msgs)
    PROVE  ServiceInv'
<1>1. /\ role' = [role EXCEPT ![i] = newRole]
      /\ in_flight_client_requests' = [in_flight_client_requests EXCEPT ![i] = {}]
      /\ in_flight_peers' = [in_flight_peers EXCEPT ![i] = {}]
      /\ AnswerClients(i, Waiting(lg, inFlight), FALSE, out, Abandon(i, msgs))
    BY DEF LeaveRole
<1>2. role \in [Server -> Roles] /\ in_flight_peers \in [Server -> SUBSET Server] /\ in_flight_client_requests \in [Server -> SUBSET Nat]
    BY DEF TypeOK
<1>3. AcksApplied(applied', Abandon(i, msgs), out)
    <2>1. \A m \in Abandon(i, msgs) : m.kind = "ForwardAnswer" => m \in msgs
        BY AbandonFacts
    <2> QED BY <2>1 DEF AcksApplied
<1>4. /\ AcksApplied(applied', rpcs', outcome')
      /\ \A m \in rpcs' : m \in Abandon(i, msgs) \/ m.kind = "ForwardAnswer"
      /\ Abandon(i, msgs) \subseteq rpcs'
    BY <1>1, <1>3, RefusedClients
<1>5. CallsFit(Abandon(i, msgs), in_flight_peers')
    <2> SUFFICES ASSUME NEW j \in Server, NEW p \in Peers(j)
                 PROVE  OneCall(Abandon(i, msgs), j, p, p \in in_flight_peers'[j])
        BY DEF CallsFit
    <2>1. p \in Server
        BY DEF Peers
    <2>2. CallsIn(Abandon(i, msgs), j, p) = IF j = i THEN {} ELSE CallsIn(msgs, j, p)
        BY <2>1, AbandonCalls
    <2> QED BY <1>1, <1>2, <2>2 DEF OneCall
<1>6. CallsFit(rpcs', in_flight_peers')
    BY <1>4, <1>5, OtherKinds
<1>7. IdleUnlessLeader' /\ WaitingNotApplied'
    BY <1>1, <1>2 DEF ServiceInv, IdleUnlessLeader, WaitingNotApplied
<1> QED BY <1>4, <1>6, <1>7 DEF ServiceInv

\* The leader acknowledges what it has just applied.
LEMMA LeaderLoopTopService ==
    ASSUME TypeOK, NEW i \in Server, NEW lg \in Seq(Entry), NEW match,
           NEW inFlight \in SUBSET (1 .. Len(lg)), \A k \in inFlight : last_applied[i] < k,
           WaitingNotApplied, NEW out, NEW msgs, AcksApplied(applied, msgs, out),
           LeaderLoopTop(i, lg, match, inFlight, out, msgs)
    PROVE  /\ AcksApplied(applied', rpcs', outcome')
           /\ WaitingNotApplied'
           /\ \A m \in rpcs' : m \in msgs \/ m.kind = "ForwardAnswer"
           /\ msgs \subseteq rpcs'
           /\ \A j \in Server \ {i} : in_flight_client_requests'[j] = in_flight_client_requests[j]
<1>1. PICK n \in commit_index[i] .. Len(lg) :
          /\ ApplyLog(i, lg, n)
          /\ in_flight_client_requests' =
                 [in_flight_client_requests EXCEPT ![i] = inFlight \ Acknowledged(inFlight, n)]
          /\ AnswerClients(i, Waiting(lg, Acknowledged(inFlight, n)), TRUE, out, msgs)
    BY DEF LeaderLoopTop
<1>2. /\ Len(lg) \in Nat /\ n \in Nat /\ n <= Len(lg)
      /\ last_applied \in [Server -> Nat] /\ in_flight_client_requests \in [Server -> SUBSET Nat]
    BY LenProperties DEF TypeOK
<1>3. /\ applied' = applied \cup {<<k, lg[k].cmd>> : k \in last_applied[i] + 1 .. n}
      /\ last_applied' = [last_applied EXCEPT ![i] = Larger(last_applied[i], n)]
    BY <1>1, <1>2 DEF ApplyLog, Smaller
<1> DEFINE cmds == Waiting(lg, Acknowledged(inFlight, n))
           answers == {[kind |-> "ForwardAnswer", from |-> i, to |-> origin[c], cmd |-> c, ack |-> TRUE] :
                           c \in {d \in cmds : origin[d] # i /\ out[d] = "pending"}}
<1>4. ASSUME NEW c \in cmds PROVE \E a \in applied' : a[2] = c
    <2>1. PICK k \in Acknowledged(inFlight, n) : c = lg[k].cmd
        BY DEF Waiting
    <2>2. k \in last_applied[i] + 1 .. n
        BY <1>2 DEF Acknowledged
    <2>3. <<k, c>> \in applied'
        BY <1>3, <2>1, <2>2
    <2> QED BY <2>3
<1>5. /\ outcome' = [c \in Cmd |-> IF c \in cmds /\ origin[c] = i THEN "ack" ELSE out[c]]
      /\ rpcs' = msgs \cup answers
    BY <1>1 DEF AnswerClients
<1>6. \A m \in answers : m.kind = "ForwardAnswer" /\ m.cmd \in cmds
    OBVIOUS
<1>7. AcksApplied(applied', rpcs', outcome')
    <2> HIDE DEF cmds, answers
    <2>1. \A c \in Cmd : outcome'[c] = "ack" => c \in cmds \/ out[c] = "ack"
        BY <1>5
    <2>2. applied \subseteq applied'
        BY <1>3
    <2> QED BY <1>4, <1>5, <1>6, <2>1, <2>2 DEF AcksApplied
<1>8. WaitingNotApplied'
    <2> SUFFICES ASSUME NEW j \in Server, NEW k \in in_flight_client_requests'[j] PROVE last_applied'[j] < k
        BY DEF WaitingNotApplied
    <2>1. CASE j = i
        <3>1. k \in inFlight /\ k \in Nat /\ ~(k <= n) /\ last_applied[i] < k /\ last_applied[i] \in Nat
            BY <1>1, <1>2, <2>1 DEF Acknowledged
        <3>2. last_applied'[j] = Larger(last_applied[i], n)
            BY <1>2, <1>3, <2>1
        <3> QED BY <1>2, <3>1, <3>2 DEF Larger
    <2>2. CASE j # i
        BY <1>1, <1>2, <1>3, <2>2 DEF WaitingNotApplied
    <2> QED BY <2>1, <2>2
<1> HIDE DEF answers
<1> QED BY <1>1, <1>2, <1>5, <1>6, <1>7, <1>8

\* Each peer that append_entries calls had no call, and has this one now.
LEMMA ReplicateService ==
    ASSUME TypeOK, ServiceInv, NEW i \in Server, role[i] = "Leader", NEW lg \in Seq(Entry),
           NEW peers \in SUBSET Server, NEW next,
           NEW inFlight \in SUBSET (1 .. Len(lg)), \A k \in inFlight : last_applied[i] < k,
           NEW inFlightPeers \in SUBSET Server, NEW out, NEW msgs \in SUBSET Message,
           CallsFit(msgs, [in_flight_peers EXCEPT ![i] = inFlightPeers]),
           AcksApplied(applied, msgs, out),
           \A p \in Server : next[p] >= 1 => AppendEntriesTo(i, p, lg, next) \in Message,
           Replicate(i, peers, lg, next, inFlight, inFlightPeers, out, msgs)
    PROVE  ServiceInv'
<1> DEFINE targets == Targets(i, peers, inFlightPeers)
           flying == [in_flight_peers EXCEPT ![i] = inFlightPeers]
<1>1. /\ targets \subseteq Server /\ targets \cap inFlightPeers = {}
      /\ role \in [Server -> Roles]
      /\ in_flight_peers \in [Server -> SUBSET Server]
    BY DEF Targets, Peers, TypeOK
<1>2. ASSUME NEW p, NEW j \in Server, NEW q \in Peers(j)
      PROVE  IsCall(AppendEntriesTo(i, p, lg, next), j, q) <=> j = i /\ q = p
    BY DEF IsCall, AppendEntriesTo
<1> HIDE DEF targets
<1>3. CASE Underflows(targets, next)
    <2>1. PICK sent \in SUBSET {p \in targets : next[p] >= 1} :
              Stop(i, "UnderflowPanic", out, lg, inFlight, msgs \cup Calls(i, sent, lg, next))
        BY <1>3 DEF Replicate, targets, PanicInAppendEntries
    <2> DEFINE all == msgs \cup Calls(i, sent, lg, next)
    <2>2. /\ LeaveRole(i, "UnderflowPanic", out, lg, inFlight, all)
          /\ last_applied' = [last_applied EXCEPT ![i] = 0] /\ applied' = applied
        BY <2>1 DEF Stop
    <2>3. all \in SUBSET Message
        BY <1>1 DEF Calls
    <2>4. AcksApplied(applied', all, out)
        <3>1. \A m \in Calls(i, sent, lg, next) : m.kind = "AppendEntries"
            BY DEF Calls, AppendEntriesTo
        <3> QED BY <2>2, <3>1 DEF AcksApplied
    <2>5. ASSUME NEW j \in Server \ {i}, NEW p \in Peers(j)
          PROVE  OneCall(all, j, p, p \in in_flight_peers[j])
        <3>1. CallsIn(msgs, j, p) = CallsIn(all, j, p)
            BY <1>2, <2>5, SameCalls DEF Calls
        <3>2. OneCall(msgs, j, p, p \in in_flight_peers[j])
            BY <1>1, <2>5 DEF CallsFit
        <3> QED BY <3>1, <3>2 DEF OneCall
    <2>6. \A j \in Server \ {i} : last_applied'[j] = last_applied[j]
        BY <2>2 DEF TypeOK
    <2> HIDE DEF all
    <2> QED BY <2>2, <2>3, <2>4, <2>5, <2>6, LeaveRoleService
<1>4. CASE ~Underflows(targets, next)
    <2> DEFINE all == msgs \cup Calls(i, targets, lg, next)
    <2>1. /\ LeaderLoopTop(i, lg, match_indices[i], inFlight, out, all)
          /\ in_flight_peers' = [in_flight_peers EXCEPT ![i] = inFlightPeers \cup targets]
          /\ role' = role
        BY <1>4 DEF Replicate, targets
    <2>2. AcksApplied(applied, all, out)
        <3>1. \A m \in Calls(i, targets, lg, next) : m.kind = "AppendEntries"
            BY DEF Calls, AppendEntriesTo
        <3> QED BY <3>1 DEF AcksApplied
    <2>3. CallsFit(all, in_flight_peers')
        <3> SUFFICES ASSUME NEW j \in Server, NEW p \in Peers(j)
                     PROVE  OneCall(all, j, p, p \in in_flight_peers'[j])
            BY DEF CallsFit
        <3>1. OneCall(msgs, j, p, p \in flying[j])
            BY DEF CallsFit
        <3>2. CASE j = i /\ p \in targets
            <4>1. CallsIn(msgs, j, p) = {} /\ p \in in_flight_peers'[j]
                BY <1>1, <2>1, <3>1, <3>2 DEF OneCall
            <4>2. CallsIn(all, j, p) = {AppendEntriesTo(i, p, lg, next)}
                BY <1>2, <3>2, <4>1 DEF CallsIn, Calls
            <4> QED BY <4>1, <4>2 DEF OneCall
        <3>3. CASE ~(j = i /\ p \in targets)
            <4>1. CallsIn(msgs, j, p) = CallsIn(all, j, p)
                BY <1>2, <3>3, SameCalls DEF Calls
            <4>2. p \in in_flight_peers'[j] <=> p \in flying[j]
                BY <1>1, <2>1, <3>3
            <4> QED BY <3>1, <4>1, <4>2 DEF OneCall
        <3> QED BY <3>2, <3>3
    <2> HIDE DEF all
    <2>4. /\ AcksApplied(applied', rpcs', outcome')
          /\ WaitingNotApplied'
          /\ \A m \in rpcs' : m \in all \/ m.kind = "ForwardAnswer"
          /\ all \subseteq rpcs'
          /\ \A j \in Server \ {i} : in_flight_client_requests'[j] = in_flight_client_requests[j]
        BY <2>1, <2>2, LeaderLoopTopService DEF ServiceInv
    <2>5. CallsFit(rpcs', in_flight_peers')
        BY <2>3, <2>4, OtherKinds
    <2>6. IdleUnlessLeader'
        BY <1>1, <2>1, <2>4 DEF IdleUnlessLeader, ServiceInv
    <2> QED BY <2>4, <2>5, <2>6 DEF ServiceInv
<1> QED BY <1>3, <1>4

-----------------------------------------------------------------------------
(* Every action preserves ServiceInv *)

LEMMA AnsweredCall ==
    ASSUME ServiceInv, NEW m \in rpcs, m \in Message, m.kind = "AppendEntries", NEW term, NEW success
    PROVE  CallsFit((rpcs \ {m}) \cup AnswerAppendEntries(m, term, success), in_flight_peers)
<1> DEFINE a == [kind |-> "AppendEntriesAnswer", from |-> m.to, to |-> m.from, term |-> term, success |-> success,
                 start |-> IF m.entries = <<>> THEN m.prev_log_index ELSE m.prev_log_index + 1,
                 end |-> m.prev_log_index + Len(m.entries)]
<1>1. a.kind = "AppendEntriesAnswer" /\ a.from = m.to /\ a.to = m.from
    OBVIOUS
<1>2. AnswerAppendEntries(m, term, success) = IF m.live THEN {a} ELSE {}
    BY DEF AnswerAppendEntries
<1> DEFINE none == {}
<1>3. \A x \in none : \A i \in Server : \A p \in Peers(i) : ~IsCall(x, i, p)
    OBVIOUS
<1>4. (rpcs \ {m}) \cup none \cup (IF m.live THEN {a} ELSE {})
          = (rpcs \ {m}) \cup AnswerAppendEntries(m, term, success)
    BY <1>2
<1> HIDE DEF a, none
<1>5. CallsFit((rpcs \ {m}) \cup none \cup (IF m.live THEN {a} ELSE {}), in_flight_peers)
    BY <1>1, <1>3, ReplacedCall
<1> QED BY <1>4, <1>5

LEMMA FailedCall ==
    ASSUME ServiceInv, NEW m \in rpcs, m \in Message, m.kind = "AppendEntries", NEW more,
           \A x \in more : \A i \in Server : \A p \in Peers(i) : ~IsCall(x, i, p)
    PROVE  CallsFit((rpcs \ {m}) \cup more \cup FailAppendEntries(m), in_flight_peers)
<1> DEFINE a == [kind |-> "AppendEntriesError", from |-> m.to, to |-> m.from]
<1>1. a.kind = "AppendEntriesError" /\ a.from = m.to /\ a.to = m.from
    OBVIOUS
<1>2. FailAppendEntries(m) = IF m.live THEN {a} ELSE {}
    BY DEF FailAppendEntries
<1> HIDE DEF a
<1> QED BY <1>1, <1>2, ReplacedCall

\* Steps that leave the roles, what is in flight and what is applied alone.
LEMMA ExchangeService ==
    ASSUME ServiceInv,
           UNCHANGED <<role, in_flight_peers, in_flight_client_requests, last_applied, applied>>,
           CallsFit(rpcs', in_flight_peers), AcksApplied(applied, rpcs', outcome')
    PROVE  ServiceInv'
BY DEF ServiceInv, IdleUnlessLeader, WaitingNotApplied

LEMMA ElectionTimeoutService ==
    ASSUME IndexInv, ServiceInv, NEW i \in Server, ElectionTimeout(i)
    PROVE  ServiceInv'
<1> DEFINE targets == {q \in Peers(i) : {i, q} \in links}
           calls == {[kind |-> "RequestVote", from |-> i, to |-> p, term |-> current_term[i] + 1,
                      last_log_index |-> Len(log[i]), live |-> TRUE] : p \in targets}
<1>1. /\ rpcs' = Abandon(i, rpcs) \cup calls
      /\ role[i] # "Leader" /\ role' = [role EXCEPT ![i] = "Candidate"]
      /\ UNCHANGED <<in_flight_peers, in_flight_client_requests, last_applied, applied, outcome>>
    BY DEF ElectionTimeout, applyVars, leaderVars, userVars
<1> HIDE DEF targets
<1>2. \A m \in calls : m.kind = "RequestVote"
    OBVIOUS
<1> HIDE DEF calls
<1>3. rpcs \in SUBSET Message /\ role \in [Server -> Roles] /\ in_flight_peers[i] = {}
    BY <1>1 DEF IndexInv, TypeOK, ServiceInv, IdleUnlessLeader
<1>4. CallsFit(Abandon(i, rpcs), in_flight_peers)
    <2> SUFFICES ASSUME NEW j \in Server, NEW p \in Peers(j)
                 PROVE  OneCall(Abandon(i, rpcs), j, p, p \in in_flight_peers[j])
        BY DEF CallsFit
    <2>1. CallsIn(Abandon(i, rpcs), j, p) = IF j = i THEN {} ELSE CallsIn(rpcs, j, p)
        BY <1>3, AbandonCalls DEF Peers
    <2> QED BY <1>3, <2>1 DEF OneCall, ServiceInv, CallsFit
<1>5. CallsFit(rpcs', in_flight_peers')
    <2>1. CallsFit(Abandon(i, rpcs) \cup calls, in_flight_peers)
        BY <1>2, <1>4, OtherKinds
    <2> QED BY <1>1, <2>1
<1>6. AcksApplied(applied', rpcs', outcome')
    <2>1. \A m \in rpcs' : m.kind = "ForwardAnswer" => m \in rpcs
        BY <1>1, <1>2, <1>3, AbandonFacts
    <2> QED BY <1>1, <2>1 DEF ServiceInv, AcksApplied
<1>7. IdleUnlessLeader' /\ WaitingNotApplied'
    BY <1>1, <1>3 DEF ServiceInv, IdleUnlessLeader, WaitingNotApplied
<1> QED BY <1>5, <1>6, <1>7 DEF ServiceInv

LEMMA ReceiveRequestVoteService ==
    ASSUME IndexInv, ServiceInv, NEW m \in rpcs, ReceiveRequestVote(m)
    PROVE  ServiceInv'
<1> DEFINE newTerm == m.term > current_term[m.to]
           vote == IF newTerm THEN None ELSE voted_for[m.to]
           granted == (role[m.to] = "Leader" => newTerm) /\ VoteGrantedTo(m, m.to, vote)
           reply == IF granted /\ m.live
                    THEN {[kind |-> "VoteGranted", from |-> m.to, to |-> m.from, term |-> m.term]} ELSE {}
           msgs == (rpcs \ {m}) \cup reply
<1>1. /\ m.kind = "RequestVote" /\ m \in Message /\ m.to \in Server /\ rpcs \in SUBSET Message
      /\ m \in RequestVoteRequest
    BY MessageKinds DEF IndexInv, TypeOK, ReceiveRequestVote
<1>2. /\ IF newTerm THEN BecomeFollower(m.to, msgs) ELSE StayInRole(msgs)
      /\ applied' = applied /\ last_applied' = last_applied
    BY DEF ReceiveRequestVote, applyVars
<1>3. \A x \in reply : x \in Message /\ x.kind = "VoteGranted"
    BY <1>1 DEF RequestVoteRequest, VoteGranted, Message
<1> HIDE DEF reply
<1>4. msgs \in SUBSET Message
    BY <1>1, <1>3
<1>5. CallsFit(msgs, in_flight_peers)
    <2>1. \A x \in rpcs \ msgs : x.kind = "RequestVote"
        BY <1>1
    <2>2. \A x \in msgs \ rpcs : x.kind = "VoteGranted"
        BY <1>3
    <2> QED BY <2>1, <2>2, OtherKinds DEF ServiceInv
<1>6. AcksApplied(applied, msgs, outcome)
    BY <1>3 DEF ServiceInv, AcksApplied
<1> HIDE DEF msgs
<1>7. CASE newTerm
    <2>1. LeaveRole(m.to, "Follower", outcome, log[m.to], in_flight_client_requests[m.to], msgs)
        BY <1>2, <1>7 DEF BecomeFollower
    <2>2. \A j \in Server \ {m.to} : \A p \in Peers(j) : OneCall(msgs, j, p, p \in in_flight_peers[j])
        BY <1>5 DEF CallsFit
    <2> QED BY <1>1, <1>2, <1>4, <1>6, <2>1, <2>2, LeaveRoleService DEF IndexInv
<1>8. CASE ~newTerm
    <2>1. rpcs' = msgs /\ UNCHANGED <<role, in_flight_peers, in_flight_client_requests, last_applied, applied, outcome>>
        BY <1>2, <1>8 DEF StayInRole, leaderVars
    <2> QED BY <1>5, <1>6, <2>1, ExchangeService
<1> QED BY <1>7, <1>8

LEMMA ReceiveVoteService ==
    ASSUME IndexInv, ServiceInv, NEW m \in rpcs, ReceiveVote(m)
    PROVE  ServiceInv'
<1> DEFINE i == m.to
           won == Cardinality(votes[i] \cup {m.from}) >= Quorum
<1>1. /\ m.kind = "VoteGranted" /\ role[i] = "Candidate" /\ i \in Server
      /\ rpcs' = IF won THEN Abandon(i, rpcs) ELSE rpcs \ {m}
      /\ role' = IF won THEN [role EXCEPT ![i] = "Leader"] ELSE role
      /\ UNCHANGED <<in_flight_peers, in_flight_client_requests, last_applied, applied, outcome>>
      /\ rpcs \in SUBSET Message /\ role \in [Server -> Roles]
    BY MessageKinds DEF ReceiveVote, applyVars, userVars, IndexInv, TypeOK
<1>2. in_flight_peers[i] = {}
    BY <1>1 DEF ServiceInv, IdleUnlessLeader
<1> HIDE DEF i, won
<1>3. CallsFit(rpcs', in_flight_peers)
    <2>1. CASE won
        <3> SUFFICES ASSUME NEW j \in Server, NEW p \in Peers(j)
                     PROVE  OneCall(Abandon(i, rpcs), j, p, p \in in_flight_peers[j])
            BY <1>1, <2>1 DEF CallsFit
        <3>1. CallsIn(Abandon(i, rpcs), j, p) = IF j = i THEN {} ELSE CallsIn(rpcs, j, p)
            BY <1>1, AbandonCalls DEF Peers
        <3> QED BY <1>2, <3>1 DEF OneCall, ServiceInv, CallsFit
    <2>2. CASE ~won
        <3>1. CallsFit(rpcs \ {m}, in_flight_peers)
            BY <1>1, OtherKinds DEF ServiceInv
        <3> QED BY <1>1, <2>2, <3>1
    <2> QED BY <2>1, <2>2
<1>4. AcksApplied(applied, rpcs', outcome')
    <2>1. \A x \in rpcs' : x.kind = "ForwardAnswer" => x \in rpcs
        BY <1>1, AbandonFacts
    <2> QED BY <1>1, <2>1 DEF ServiceInv, AcksApplied
<1>5. IdleUnlessLeader' /\ WaitingNotApplied'
    BY <1>1 DEF ServiceInv, IdleUnlessLeader, WaitingNotApplied
<1> QED BY <1>1, <1>3, <1>4, <1>5 DEF ServiceInv

\* What Replicate is used with: the log of the leader, as it is or longer.
LEMMA ReplicateKeepsService ==
    ASSUME IndexInv, ServiceInv, NEW i \in Server, role[i] = "Leader", NEW lg, LogStep(i, lg),
           NEW peers \in SUBSET Server, NEW next \in [Server -> Int],
           \A p \in Server : next[p] <= Len(lg) + 1,
           NEW inFlight, \A k \in inFlight : k \in in_flight_client_requests[i]
                                                \/ k \in Len(log[i]) + 1 .. Len(lg),
           NEW inFlightPeers \in SUBSET Server, NEW out, NEW msgs \in SUBSET Message,
           CallsFit(msgs, [in_flight_peers EXCEPT ![i] = inFlightPeers]),
           AcksApplied(applied, msgs, out),
           Replicate(i, peers, lg, next, inFlight, inFlightPeers, out, msgs)
    PROVE  ServiceInv'
<1>1. /\ TypeOK /\ lg \in Seq(Entry) /\ Len(log[i]) \in Nat /\ Len(lg) \in Nat /\ Len(lg) >= Len(log[i])
      /\ last_applied[i] \in Nat /\ last_applied[i] <= Len(log[i])
    BY LenProperties DEF IndexInv, TypeOK, LogStep, CommitWithinLog
<1>2. inFlight \in SUBSET (1 .. Len(lg)) /\ \A k \in inFlight : last_applied[i] < k
    <2> SUFFICES ASSUME NEW k \in inFlight PROVE k \in 1 .. Len(lg) /\ last_applied[i] < k
        OBVIOUS
    <2>1. CASE k \in in_flight_client_requests[i]
        <3>1. k \in 1 .. Len(log[i]) /\ last_applied[i] < k
            BY <2>1 DEF IndexInv, WaitingWithinLog, ServiceInv, WaitingNotApplied
        <3> QED BY <1>1, <3>1
    <2>2. CASE k \in Len(log[i]) + 1 .. Len(lg)
        BY <1>1, <2>2
    <2> QED BY <2>1, <2>2
<1>3. \A p \in Server : next[p] >= 1 => AppendEntriesTo(i, p, lg, next) \in Message
    BY CallsCredible DEF Credible
<1> QED BY <1>1, <1>2, <1>3, ReplicateService

LEMMA HeartbeatService ==
    ASSUME IndexInv, ServiceInv, NEW i \in Server, Heartbeat(i)
    PROVE  ServiceInv'
<1>1. /\ role[i] = "Leader" /\ LogStep(i, log[i])
      /\ Replicate(i, Peers(i), log[i], next_indices[i], in_flight_client_requests[i], in_flight_peers[i],
                   outcome, rpcs)
    BY LogStays DEF Heartbeat, persistentVars, IndexInv
<1>2. /\ next_indices[i] \in [Server -> Int] /\ in_flight_peers \in [Server -> SUBSET Server]
      /\ in_flight_peers[i] \in SUBSET Server /\ rpcs \in SUBSET Message
      /\ \A p \in Server : next_indices[i][p] <= Len(log[i]) + 1
    BY DEF IndexInv, TypeOK, NextWithinLog
<1>3. [in_flight_peers EXCEPT ![i] = in_flight_peers[i]] = in_flight_peers
    BY <1>2
<1>4. CallsFit(rpcs, [in_flight_peers EXCEPT ![i] = in_flight_peers[i]]) /\ AcksApplied(applied, rpcs, outcome)
    BY <1>3 DEF ServiceInv
<1>5. Peers(i) \in SUBSET Server
    BY DEF Peers
<1> QED BY <1>1, <1>2, <1>4, <1>5, ReplicateKeepsService

LEMMA HandleLogUpdateService ==
    ASSUME IndexInv, ServiceInv, NEW i \in Server, NEW c \in Cmd, NEW out, NEW msgs, msgs \subseteq rpcs,
           CallsFit(msgs, in_flight_peers), AcksApplied(applied, msgs, out),
           HandleLogUpdate(i, c, out, msgs)
    PROVE  ServiceInv'
<1> DEFINE lg == Append(log[i], [term |-> current_term[i], cmd |-> c])
<1>1. log[i] \in Seq(Entry) /\ [term |-> current_term[i], cmd |-> c] \in Entry
    BY DEF IndexInv, TypeOK, Entry
<1>2. lg \in Seq(Entry) /\ Len(lg) = Len(log[i]) + 1 /\ Len(log[i]) \in Nat
    BY <1>1, AppendProperties, LenProperties
<1>3. /\ role[i] = "Leader" /\ log' = [log EXCEPT ![i] = lg]
      /\ Replicate(i, Peers(i), lg, next_indices[i], in_flight_client_requests[i] \cup {Len(lg)},
                   in_flight_peers[i], out, msgs)
    BY DEF HandleLogUpdate
<1> HIDE DEF lg
<1>4. LogStep(i, lg)
    BY <1>2, <1>3 DEF LogStep
<1>5. /\ next_indices[i] \in [Server -> Int] /\ in_flight_peers \in [Server -> SUBSET Server]
      /\ in_flight_peers[i] \in SUBSET Server /\ msgs \in SUBSET Message
      /\ \A p \in Server : next_indices[i][p] \in Int /\ next_indices[i][p] <= Len(log[i]) + 1
    BY DEF IndexInv, TypeOK, NextWithinLog
<1>6. \A p \in Server : next_indices[i][p] <= Len(lg) + 1
    BY <1>2, <1>5
<1>7. CallsFit(msgs, [in_flight_peers EXCEPT ![i] = in_flight_peers[i]])
    <2>1. [in_flight_peers EXCEPT ![i] = in_flight_peers[i]] = in_flight_peers
        BY <1>5
    <2> QED BY <2>1
<1> DEFINE inFlight == in_flight_client_requests[i] \cup {Len(lg)}
<1>8. \A k \in inFlight : k \in in_flight_client_requests[i] \/ k \in Len(log[i]) + 1 .. Len(lg)
    BY <1>2
<1>9. Replicate(i, Peers(i), lg, next_indices[i], inFlight, in_flight_peers[i], out, msgs)
    BY <1>3
<1>10. Peers(i) \in SUBSET Server
    BY DEF Peers
<1> HIDE DEF inFlight
<1> QED BY <1>3, <1>4, <1>5, <1>6, <1>7, <1>8, <1>9, <1>10, ReplicateKeepsService

LEMMA AppendEntriesFailedService ==
    ASSUME IndexInv, ServiceInv, NEW m \in rpcs, AppendEntriesFailed(m)
    PROVE  ServiceInv'
<1>1. /\ m.kind \in {"AppendEntriesAnswer", "AppendEntriesError"}
      /\ rpcs' = rpcs \ {m} /\ in_flight_peers' = [in_flight_peers EXCEPT ![m.to] = @ \ {m.from}]
      /\ UNCHANGED <<role, in_flight_client_requests, last_applied, applied, outcome>>
    BY DEF AppendEntriesFailed, applyVars, userVars
<1>2. CallsFit(rpcs', in_flight_peers')
    BY <1>1, TakenCall DEF IndexInv
<1>3. AcksApplied(applied', rpcs', outcome') /\ WaitingNotApplied'
    BY <1>1 DEF ServiceInv, AcksApplied, WaitingNotApplied
<1>4. IdleUnlessLeader'
    BY <1>1 DEF ServiceInv, IdleUnlessLeader, IndexInv, TypeOK
<1> QED BY <1>2, <1>3, <1>4 DEF ServiceInv

LEMMA AppendEntriesNewTermService ==
    ASSUME IndexInv, ServiceInv, NEW m \in rpcs, AppendEntriesNewTerm(m)
    PROVE  ServiceInv'
<1> DEFINE msgs == rpcs \ {m}
<1>1. /\ m.kind = "AppendEntriesAnswer" /\ m.to \in Server /\ m.from \in Server
      /\ LeaveRole(m.to, "Follower", outcome, log[m.to], in_flight_client_requests[m.to], msgs)
      /\ applied' = applied /\ last_applied' = last_applied /\ msgs \in SUBSET Message
      /\ in_flight_peers \in [Server -> SUBSET Server]
    BY MessageKinds DEF AppendEntriesNewTerm, BecomeFollower, applyVars, IndexInv, TypeOK
<1>2. ASSUME NEW j \in Server \ {m.to}, NEW p \in Peers(j)
      PROVE  OneCall(msgs, j, p, p \in in_flight_peers[j])
    <2>1. CallsFit(msgs, [in_flight_peers EXCEPT ![m.to] = @ \ {m.from}])
        BY <1>1, TakenCall DEF IndexInv
    <2> HIDE DEF msgs
    <2> QED BY <1>1, <1>2, <2>1 DEF CallsFit
<1>3. AcksApplied(applied', msgs, outcome)
    BY <1>1 DEF ServiceInv, AcksApplied
<1> HIDE DEF msgs
<1> QED BY <1>1, <1>2, <1>3, LeaveRoleService DEF IndexInv

LEMMA AppendEntriesSucceededService ==
    ASSUME IndexInv, ServiceInv, NEW m \in rpcs, AppendEntriesSucceeded(m)
    PROVE  ServiceInv'
<1> DEFINE i == m.to
           match == [match_indices[i] EXCEPT ![m.from] = Larger(@, m.end)]
           msgs == rpcs \ {m}
<1>1. /\ m.kind = "AppendEntriesAnswer" /\ role[i] = "Leader" /\ role' = role /\ i \in Server
      /\ in_flight_peers' = [in_flight_peers EXCEPT ![i] = @ \ {m.from}]
      /\ LeaderLoopTop(i, log[i], match, in_flight_client_requests[i], outcome, msgs)
    BY MessageKinds DEF AppendEntriesSucceeded, IndexInv, TypeOK
<1>2. /\ log[i] \in Seq(Entry) /\ in_flight_client_requests[i] \in SUBSET (1 .. Len(log[i]))
      /\ \A k \in in_flight_client_requests[i] : last_applied[i] < k
    BY <1>1 DEF IndexInv, TypeOK, WaitingWithinLog, ServiceInv, WaitingNotApplied
<1>3. AcksApplied(applied, msgs, outcome) /\ WaitingNotApplied
    BY DEF ServiceInv, AcksApplied
<1>4. CallsFit(msgs, in_flight_peers')
    BY <1>1, TakenCall DEF IndexInv
<1> HIDE DEF i, match, msgs
<1>5. /\ AcksApplied(applied', rpcs', outcome')
      /\ WaitingNotApplied'
      /\ \A x \in rpcs' : x \in msgs \/ x.kind = "ForwardAnswer"
      /\ msgs \subseteq rpcs'
      /\ \A j \in Server \ {i} : in_flight_client_requests'[j] = in_flight_client_requests[j]
    BY <1>1, <1>2, <1>3, LeaderLoopTopService DEF IndexInv
<1>6. CallsFit(rpcs', in_flight_peers')
    BY <1>4, <1>5, OtherKinds
<1>7. IdleUnlessLeader'
    BY <1>1, <1>5 DEF ServiceInv, IdleUnlessLeader, IndexInv, TypeOK
<1> QED BY <1>5, <1>6, <1>7 DEF ServiceInv

LEMMA AppendEntriesRefusedService ==
    ASSUME IndexInv, ServiceInv, NEW m \in rpcs, AppendEntriesRefused(m)
    PROVE  ServiceInv'
<1> DEFINE i == m.to
           next == [next_indices[i] EXCEPT ![m.from] = Smaller(@, m.start - 1)]
           flying == in_flight_peers[i] \ {m.from}
           msgs == rpcs \ {m}
<1>1. /\ m.kind = "AppendEntriesAnswer" /\ m \in AppendEntriesAnswer /\ i \in Server /\ m.from \in Server
      /\ m.start \in Nat
    BY MessageKinds DEF AppendEntriesRefused, IndexInv, TypeOK, AppendEntriesAnswer
<1>2. /\ role[i] = "Leader" /\ LogStep(i, log[i])
      /\ Replicate(i, {m.from}, log[i], next, in_flight_client_requests[i], flying, outcome, msgs)
    BY <1>1, LogStays DEF AppendEntriesRefused, persistentVars, IndexInv
<1>3. next \in [Server -> Int] /\ \A p \in Server : next[p] <= Len(log[i]) + 1
    <2>1. /\ next_indices[i] \in [Server -> Int] /\ Len(log[i]) \in Nat
          /\ \A p \in Server : next_indices[i][p] \in Int /\ next_indices[i][p] <= Len(log[i]) + 1
        BY <1>1, LenProperties DEF IndexInv, TypeOK, NextWithinLog
    <2> QED BY <1>1, <2>1 DEF Smaller
<1>4. flying \in SUBSET Server /\ msgs \in SUBSET Message
    BY <1>1 DEF IndexInv, TypeOK
<1>5. CallsFit(msgs, [in_flight_peers EXCEPT ![i] = flying])
    BY <1>1, TakenCall DEF IndexInv
<1>6. AcksApplied(applied, msgs, outcome)
    BY DEF ServiceInv, AcksApplied
<1> HIDE DEF next, flying, msgs
<1>7. {m.from} \in SUBSET Server
    BY <1>1
<1> QED BY <1>1, <1>2, <1>3, <1>4, <1>5, <1>6, <1>7, ReplicateKeepsService

LEMMA ReceiveAppendEntriesService ==
    ASSUME IndexInv, ServiceInv, NEW m \in rpcs, ReceiveAppendEntries(m)
    PROVE  ServiceInv'
<1> DEFINE i == m.to
           accepted == m.term >= current_term[i] /\ PrevLogMatches(log[i], m)
           lg == IF accepted THEN Merge(log[i], m.prev_log_index, m.entries) ELSE log[i]
           commit == IF accepted THEN FollowerCommit(commit_index[i], m) ELSE commit_index[i]
           answer == AnswerAppendEntries(m, Larger(current_term[i], m.term), accepted)
           msgs == (rpcs \ {m}) \cup answer
<1>1. /\ m \in Message /\ m.kind = "AppendEntries" /\ i \in Server /\ rpcs \in SUBSET Message
      /\ m \in AppendEntriesRequest /\ m.term \in Nat /\ current_term[i] \in Nat /\ Credible(m, log)
    BY MessageKinds DEF IndexInv, TypeOK, CredibleMessages, ReceiveAppendEntries, AppendEntriesRequest, Term
<1>2. /\ ApplyLog(i, lg, commit)
      /\ IF role[i] # "Follower" THEN BecomeFollower(i, msgs) ELSE StayInRole(msgs)
    BY DEF ReceiveAppendEntries
<1>3. \A x \in answer : x \in Message /\ x.kind = "AppendEntriesAnswer"
    <2>1. accepted \in BOOLEAN /\ Larger(current_term[i], m.term) \in Nat
        BY <1>1 DEF PrevLogMatches, Larger
    <2> HIDE DEF accepted
    <2> QED BY <1>1, <2>1, AnswerAppendEntriesFacts DEF Credible
<1>4. CallsFit(msgs, in_flight_peers)
    BY <1>1, AnsweredCall
<1> HIDE DEF i, lg, commit, answer
<1>5. /\ applied \subseteq applied'
      /\ \A j \in Server \ {i} : last_applied'[j] = last_applied[j]
    BY <1>1, <1>2, ApplyLogService DEF IndexInv
<1>6. AcksApplied(applied', msgs, outcome) /\ msgs \in SUBSET Message
    BY <1>1, <1>3, <1>5 DEF ServiceInv, AcksApplied
<1> HIDE DEF msgs
<1>7. CASE role[i] # "Follower"
    <2>1. LeaveRole(i, "Follower", outcome, log[i], in_flight_client_requests[i], msgs)
        BY <1>2, <1>7 DEF BecomeFollower
    <2>2. \A j \in Server \ {i} : \A p \in Peers(j) : OneCall(msgs, j, p, p \in in_flight_peers[j])
        BY <1>4 DEF CallsFit
    <2> QED BY <1>1, <1>5, <1>6, <2>1, <2>2, LeaveRoleService DEF IndexInv
<1>8. CASE role[i] = "Follower"
    <2>1. rpcs' = msgs /\ UNCHANGED <<role, in_flight_peers, in_flight_client_requests, outcome>>
        BY <1>2, <1>8 DEF StayInRole, leaderVars
    <2>2. in_flight_client_requests[i] = {}
        BY <1>1, <1>8 DEF ServiceInv, IdleUnlessLeader
    <2>3. WaitingNotApplied' /\ IdleUnlessLeader'
        BY <1>5, <2>1, <2>2 DEF ServiceInv, IdleUnlessLeader, WaitingNotApplied
    <2> QED BY <1>4, <1>6, <2>1, <2>3 DEF ServiceInv
<1> QED BY <1>7, <1>8

LEMMA RefuseAppendEntriesService ==
    ASSUME IndexInv, ServiceInv, NEW m \in rpcs, RefuseAppendEntries(m)
    PROVE  ServiceInv'
<1> DEFINE answer == AnswerAppendEntries(m, current_term[m.to], FALSE)
<1>1. /\ m \in Message /\ m.kind = "AppendEntries" /\ rpcs' = (rpcs \ {m}) \cup answer
      /\ UNCHANGED <<role, in_flight_peers, in_flight_client_requests, last_applied, applied, outcome>>
    BY DEF RefuseAppendEntries, leaderVars, applyVars, userVars, IndexInv, TypeOK
<1>2. CallsFit(rpcs', in_flight_peers)
    BY <1>1, AnsweredCall
<1>3. \A x \in answer : x.kind = "AppendEntriesAnswer"
    BY DEF AnswerAppendEntries
<1> HIDE DEF answer
<1>4. AcksApplied(applied, rpcs', outcome')
    BY <1>1, <1>3 DEF ServiceInv, AcksApplied
<1> QED BY <1>1, <1>2, <1>4, ExchangeService

\* A worker that stops waits for nothing, and nothing else changes.
LEMMA StopService ==
    ASSUME IndexInv, ServiceInv, NEW i \in Server, NEW newRole, newRole # "Leader",
           NEW out, NEW lg, NEW inFlight, NEW msgs \in SUBSET Message,
           CallsFit(msgs, in_flight_peers), AcksApplied(applied, msgs, out),
           Stop(i, newRole, out, lg, inFlight, msgs)
    PROVE  ServiceInv'
<1>1. /\ LeaveRole(i, newRole, out, lg, inFlight, msgs)
      /\ last_applied' = [last_applied EXCEPT ![i] = 0] /\ applied' = applied
    BY DEF Stop
<1>2. \A j \in Server \ {i} : last_applied'[j] = last_applied[j]
    BY <1>1 DEF IndexInv, TypeOK
<1>3. \A j \in Server \ {i} : \A p \in Peers(j) : OneCall(msgs, j, p, p \in in_flight_peers[j])
    BY DEF CallsFit
<1>4. AcksApplied(applied', msgs, out)
    BY <1>1
<1> QED BY <1>1, <1>2, <1>3, <1>4, LeaveRoleService DEF IndexInv

LEMMA PanicInOverwriteLogService ==
    ASSUME IndexInv, ServiceInv, NEW m \in rpcs, PanicInOverwriteLog(m)
    PROVE  ServiceInv'
<1> DEFINE none == {}
           msgs == (rpcs \ {m}) \cup none \cup FailAppendEntries(m)
<1>1. /\ m \in AppendEntriesRequest /\ m \in Message /\ m.kind = "AppendEntries" /\ m.to \in Server
      /\ rpcs \in SUBSET Message /\ Credible(m, log)
      /\ Stop(m.to, "OverwritePanic", outcome, log[m.to], in_flight_client_requests[m.to], msgs)
    BY MessageKinds DEF PanicInOverwriteLog, IndexInv, TypeOK, CredibleMessages
<1>2. \A x \in FailAppendEntries(m) : x \in Message /\ x.kind = "AppendEntriesError"
    <2>1. 0 \in Nat /\ FALSE \in BOOLEAN
        OBVIOUS
    <2> QED BY <1>1, <2>1, AnswerAppendEntriesFacts DEF Credible
<1>3. \A x \in none : \A i \in Server : \A p \in Peers(i) : ~IsCall(x, i, p)
    OBVIOUS
<1>4. msgs \in SUBSET Message /\ AcksApplied(applied, msgs, outcome)
    BY <1>1, <1>2 DEF ServiceInv, AcksApplied
<1> HIDE DEF none
<1>5. CallsFit(msgs, in_flight_peers)
    BY <1>1, <1>3, FailedCall
<1> HIDE DEF msgs
<1> QED BY <1>1, <1>4, <1>5, StopService

LEMMA AppendEntriesCallFailsService ==
    ASSUME IndexInv, ServiceInv, NEW m \in rpcs, AppendEntriesCallFails(m)
    PROVE  ServiceInv'
<1>1. /\ m \in Message
      /\ UNCHANGED <<role, in_flight_peers, in_flight_client_requests, last_applied, applied, outcome>>
    BY DEF AppendEntriesCallFails, leaderVars, applyVars, userVars, IndexInv, TypeOK
<1>2. CASE /\ m.kind = "AppendEntries" /\ m.live
           /\ rpcs' = (rpcs \ {m}) \cup {[m EXCEPT !.live = FALSE]} \cup FailAppendEntries(m)
    <2> DEFINE orphan == [m EXCEPT !.live = FALSE]
    <2>1. orphan.kind = "AppendEntries" /\ orphan.live = FALSE
        BY <1>1, <1>2, MessageKinds DEF AppendEntriesRequest
    <2>2. \A x \in FailAppendEntries(m) : x.kind = "AppendEntriesError"
        BY DEF FailAppendEntries
    <2>3. rpcs' = (rpcs \ {m}) \cup {orphan} \cup FailAppendEntries(m)
        BY <1>2
    <2> HIDE DEF orphan
    <2>4. CallsFit((rpcs \ {m}) \cup {orphan} \cup FailAppendEntries(m), in_flight_peers)
        <3> DEFINE orphans == {orphan}
        <3>1. \A x \in orphans : \A i \in Server : \A p \in Peers(i) : ~IsCall(x, i, p)
            BY <2>1 DEF IsCall
        <3> HIDE DEF orphans
        <3>2. CallsFit((rpcs \ {m}) \cup orphans \cup FailAppendEntries(m), in_flight_peers)
            BY <1>1, <1>2, <3>1, FailedCall
        <3> QED BY <3>2 DEF orphans
    <2>5. AcksApplied(applied, rpcs', outcome')
        BY <1>1, <2>1, <2>2, <2>3 DEF ServiceInv, AcksApplied
    <2> QED BY <1>1, <2>3, <2>4, <2>5, ExchangeService
<1>3. CASE /\ m.kind = "AppendEntriesAnswer"
           /\ rpcs' = (rpcs \ {m}) \cup {[kind |-> "AppendEntriesError", from |-> m.from, to |-> m.to]}
    <2> DEFINE error == [kind |-> "AppendEntriesError", from |-> m.from, to |-> m.to]
    <2>1. error.kind = "AppendEntriesError" /\ error.from = m.from /\ error.to = m.to /\ rpcs' = (rpcs \ {m}) \cup {error}
        BY <1>3
    <2> HIDE DEF error
    <2>2. CallsFit(rpcs', in_flight_peers)
        <3> SUFFICES ASSUME NEW i \in Server, NEW p \in Peers(i)
                     PROVE  OneCall(rpcs', i, p, p \in in_flight_peers[i])
            BY DEF CallsFit
        <3>1. OneCall(rpcs, i, p, p \in in_flight_peers[i])
            BY DEF ServiceInv, CallsFit
        <3>2. IsCall(m, i, p) <=> IsCall(error, i, p)
            BY <1>3, <2>1 DEF IsCall
        <3>3. CASE IsCall(m, i, p)
            <4>1. p \in in_flight_peers[i] /\ CallsIn(rpcs, i, p) = {m}
                BY <3>1, <3>3 DEF OneCall, CallsIn
            <4>2. CallsIn(rpcs', i, p) = {error}
                BY <2>1, <3>2, <3>3, <4>1 DEF CallsIn
            <4> QED BY <4>1, <4>2 DEF OneCall
        <3>4. CASE ~IsCall(m, i, p)
            <4>1. CallsIn(rpcs, i, p) = CallsIn(rpcs', i, p)
                BY <2>1, <3>2, <3>4, SameCalls
            <4> QED BY <3>1, <4>1 DEF OneCall
        <3> QED BY <3>3, <3>4
    <2>3. AcksApplied(applied, rpcs', outcome')
        BY <1>1, <2>1 DEF ServiceInv, AcksApplied
    <2> QED BY <1>1, <2>2, <2>3, ExchangeService
<1> QED BY <1>2, <1>3 DEF AppendEntriesCallFails

LEMMA ClientRequestService ==
    ASSUME IndexInv, ServiceInv, NEW c \in Cmd, ClientRequest(c)
    PROVE  ServiceInv'
<1>1. origin[c] \in Server /\ outcome \in [Cmd -> Outcomes]
    BY DEF IndexInv, TypeOK, Outcomes
<1>2. CASE FollowerClientRequest(c) \/ CandidateClientRequest(c)
    <2>1. /\ UNCHANGED <<role, in_flight_peers, in_flight_client_requests, last_applied, applied>>
          /\ \A d \in Cmd : outcome'[d] = "ack" => outcome[d] = "ack"
        BY <1>1, <1>2 DEF FollowerClientRequest, CandidateClientRequest, leaderVars, applyVars
    <2>2. rpcs \subseteq rpcs' /\ \A m \in rpcs' : m \in rpcs \/ m.kind = "Forward"
        BY <1>2 DEF FollowerClientRequest, CandidateClientRequest
    <2>3. CallsFit(rpcs', in_flight_peers)
        BY <2>2, OtherKinds DEF ServiceInv
    <2>4. AcksApplied(applied, rpcs', outcome')
        BY <2>1, <2>2 DEF ServiceInv, AcksApplied
    <2> QED BY <2>1, <2>3, <2>4, ExchangeService
<1>3. CASE LeaderClientRequest(c)
    <2> DEFINE out == [outcome EXCEPT ![c] = "pending"]
    <2>1. AcksApplied(applied, rpcs, out)
        BY <1>1 DEF ServiceInv, AcksApplied
    <2>2. HandleLogUpdate(origin[c], c, out, rpcs)
        BY <1>3 DEF LeaderClientRequest
    <2> HIDE DEF out
    <2>3. CallsFit(rpcs, in_flight_peers)
        BY DEF ServiceInv
    <2> QED BY <1>1, <2>1, <2>2, <2>3, HandleLogUpdateService
<1> QED BY <1>2, <1>3 DEF ClientRequest

LEMMA ReceiveForwardService ==
    ASSUME IndexInv, ServiceInv, NEW m \in rpcs, ReceiveForward(m)
    PROVE  ServiceInv'
<1>1. m.kind = "Forward" /\ m.to \in Server /\ m.cmd \in Cmd
    BY MessageKinds DEF ReceiveForward, IndexInv, TypeOK, ForwardRequest
<1>2. CASE HandleLogUpdate(m.to, m.cmd, outcome, rpcs \ {m})
    <2> DEFINE msgs == rpcs \ {m}
    <2>1. msgs \subseteq rpcs /\ \A x \in rpcs \ msgs : x.kind = "Forward"
        BY <1>1
    <2>2. AcksApplied(applied, msgs, outcome)
        BY DEF ServiceInv, AcksApplied
    <2>3. HandleLogUpdate(m.to, m.cmd, outcome, msgs)
        BY <1>2
    <2> HIDE DEF msgs
    <2>4. CallsFit(msgs, in_flight_peers)
        BY <2>1, OtherKinds DEF ServiceInv
    <2> QED BY <1>1, <2>1, <2>2, <2>3, <2>4, HandleLogUpdateService
<1> DEFINE answer == [kind |-> "ForwardAnswer", from |-> m.to, to |-> m.from, cmd |-> m.cmd, ack |-> FALSE]
<1>3. CASE /\ rpcs' = (rpcs \ {m}) \cup (IF outcome[m.cmd] = "pending" THEN {answer} ELSE {})
           /\ UNCHANGED <<persistentVars, role, leader_id, applyVars, votes, leaderVars, links, userVars,
                         faults, historyVars>>
    <2>1. answer.kind = "ForwardAnswer" /\ answer.ack = FALSE
        OBVIOUS
    <2>2. UNCHANGED <<role, in_flight_peers, in_flight_client_requests, last_applied, applied, outcome>>
        BY <1>3 DEF leaderVars, applyVars, userVars
    <2>3. /\ \A x \in rpcs' : x \in rpcs \/ x = answer
          /\ \A x \in rpcs : x \in rpcs' \/ x = m
        BY <1>3
    <2> HIDE DEF answer
    <2>4. CallsFit(rpcs', in_flight_peers)
        <3>1. \A x \in rpcs' \ rpcs : x.kind = "ForwardAnswer"
            BY <2>1, <2>3
        <3>2. \A x \in rpcs \ rpcs' : x.kind = "Forward"
            BY <1>1, <2>3
        <3> QED BY <3>1, <3>2, OtherKinds DEF ServiceInv
    <2>5. AcksApplied(applied, rpcs', outcome')
        BY <2>1, <2>2, <2>3 DEF ServiceInv, AcksApplied
    <2> QED BY <2>2, <2>4, <2>5, ExchangeService
<1> QED BY <1>2, <1>3 DEF ReceiveForward

LEMMA ReceiveForwardAnswerService ==
    ASSUME IndexInv, ServiceInv, NEW m \in rpcs, ReceiveForwardAnswer(m)
    PROVE  ServiceInv'
<1>1. /\ m.kind = "ForwardAnswer" /\ m.cmd \in Cmd /\ outcome \in [Cmd -> Outcomes]
      /\ outcome' = [outcome EXCEPT ![m.cmd] = IF m.ack THEN "ack" ELSE "unavailable"]
      /\ rpcs' = rpcs \ {m}
      /\ UNCHANGED <<role, in_flight_peers, in_flight_client_requests, last_applied, applied>>
    BY MessageKinds DEF ReceiveForwardAnswer, leaderVars, applyVars, IndexInv, TypeOK, ForwardAnswer, Outcomes
<1>2. CallsFit(rpcs', in_flight_peers)
    <2>1. CallsFit(rpcs \ {m}, in_flight_peers)
        BY <1>1, OtherKinds DEF ServiceInv
    <2> QED BY <1>1, <2>1
<1>3. AcksApplied(applied, rpcs', outcome')
    <2>1. \A c \in Cmd : outcome'[c] = "ack" => outcome[c] = "ack" \/ (c = m.cmd /\ m.ack)
        BY <1>1
    <2> QED BY <1>1, <2>1 DEF ServiceInv, AcksApplied
<1> QED BY <1>1, <1>2, <1>3, ExchangeService

LEMMA ForwardCallFailsService ==
    ASSUME IndexInv, ServiceInv, NEW c \in Cmd, ForwardCallFails(c)
    PROVE  ServiceInv'
<1>1. /\ outcome' = [outcome EXCEPT ![c] = "unavailable"] /\ outcome \in [Cmd -> Outcomes]
      /\ rpcs' = {m \in rpcs : ~(m.kind = "ForwardAnswer" /\ m.cmd = c)}
      /\ UNCHANGED <<role, in_flight_peers, in_flight_client_requests, last_applied, applied>>
    BY DEF ForwardCallFails, leaderVars, applyVars, IndexInv, TypeOK, Outcomes
<1>2. CallsFit(rpcs', in_flight_peers)
    BY <1>1, OtherKinds DEF ServiceInv
<1>3. AcksApplied(applied, rpcs', outcome')
    BY <1>1 DEF ServiceInv, AcksApplied
<1> QED BY <1>1, <1>2, <1>3, ExchangeService

LEMMA LinkService ==
    ASSUME IndexInv, ServiceInv, NEW i \in Server, NEW j \in Server, Disconnect(i, j) \/ NewPeer(i, j)
    PROVE  ServiceInv'
<1>1. UNCHANGED <<role, in_flight_peers, in_flight_client_requests, last_applied, applied, outcome, rpcs>>
    BY DEF Disconnect, NewPeer, leaderVars, applyVars, userVars
<1> QED BY <1>1, ExchangeService DEF ServiceInv

LEMMA CloseWindowService ==
    ASSUME IndexInv, ServiceInv, NEW i \in Server, CloseWindow(i)
    PROVE  ServiceInv'
<1> DEFINE msgs == WithoutAnswersFor(i)
<1>1. Stop(i, "Closed", Forget(i), log[i], in_flight_client_requests[i], msgs)
    BY DEF CloseWindow
<1>2. msgs \subseteq rpcs /\ \A m \in rpcs \ msgs : m.kind = "ForwardAnswer"
    BY DEF WithoutAnswersFor
<1>3. \A c \in Cmd : Forget(i)[c] = "ack" => outcome[c] = "ack"
    BY DEF Forget
<1> HIDE DEF msgs
<1>4. AcksApplied(applied, msgs, Forget(i))
    BY <1>2, <1>3 DEF ServiceInv, AcksApplied
<1>5. CallsFit(msgs, in_flight_peers)
    <2>1. \A m \in msgs \ rpcs : m.kind = "ForwardAnswer"
        BY <1>2
    <2>2. CallsFit(rpcs, in_flight_peers)
        BY DEF ServiceInv
    <2> QED BY <1>2, <2>1, <2>2, OtherKinds
<1>6. msgs \in SUBSET Message
    BY <1>2 DEF IndexInv, TypeOK
<1> QED BY <1>1, <1>4, <1>5, <1>6, StopService

\* The calls to a reloaded window end with errors, which take their places.
LEMMA RestartService ==
    ASSUME IndexInv, ServiceInv, NEW i \in Server, Restart(i)
    PROVE  ServiceInv'
<1>1. /\ role' = [role EXCEPT ![i] = "Follower"] /\ role \in [Server -> Roles] /\ ~Running(i)
      /\ outcome' = Forget(i) /\ rpcs \in SUBSET Message
      /\ UNCHANGED <<in_flight_peers, in_flight_client_requests, last_applied, applied>>
    BY DEF Restart, leaderVars, applyVars, IndexInv, TypeOK
<1>2. ASSUME NEW x
      PROVE  x \in rpcs' <=> \/ x \in rpcs /\ ~(x.kind = "ForwardAnswer" /\ x.to = i) /\ x \notin SentTo(i)
                             \/ \E m \in SentTo(i) : x \in CallErrors(m)
    BY DEF Restart, WithoutAnswersFor
<1>3. ASSUME NEW m \in SentTo(i), NEW x \in CallErrors(m)
      PROVE  \/ /\ m.kind = "AppendEntries" /\ m.live /\ x.kind = "AppendEntriesError"
                /\ x = [kind |-> "AppendEntriesError", from |-> m.to, to |-> m.from]
             \/ x.kind = "ForwardAnswer" /\ x.ack = FALSE
    <2>1. CASE m.kind = "AppendEntries"
        BY <1>3, <2>1 DEF CallErrors, FailAppendEntries
    <2>2. CASE m.kind # "AppendEntries"
        BY <1>3, <2>2 DEF CallErrors
    <2> QED BY <2>1, <2>2
<1>4. CallsFit(rpcs', in_flight_peers)
    <2> SUFFICES ASSUME NEW j \in Server, NEW p \in Peers(j)
                 PROVE  OneCall(rpcs', j, p, p \in in_flight_peers[j])
        BY DEF CallsFit
    <2>1. OneCall(rpcs, j, p, p \in in_flight_peers[j])
        BY DEF ServiceInv, CallsFit
    <2>2. CASE \E m \in SentTo(i) : IsCall(m, j, p)
        <3>1. PICK m \in SentTo(i) : IsCall(m, j, p)
            BY <2>2
        <3>2. m \in rpcs /\ m.kind = "AppendEntries" /\ m.live /\ m.from = j /\ m.to = p /\ p = i
            BY <3>1 DEF SentTo, IsCall
        <3>3. p \in in_flight_peers[j] /\ CallsIn(rpcs, j, p) = {m}
            BY <2>1, <3>1, <3>2 DEF OneCall, CallsIn
        <3> DEFINE error == [kind |-> "AppendEntriesError", from |-> p, to |-> j]
        <3>4. error \in rpcs' /\ IsCall(error, j, p)
            <4>1. error \in CallErrors(m)
                BY <3>2 DEF CallErrors, FailAppendEntries
            <4> QED BY <1>2, <4>1 DEF IsCall
        <3>5. ASSUME NEW x \in rpcs', IsCall(x, j, p) PROVE x = error
            <4>1. CASE x \in rpcs /\ x \notin SentTo(i)
                BY <3>3, <3>5, <4>1 DEF CallsIn
            <4>2. CASE \E y \in SentTo(i) : x \in CallErrors(y)
                <5>1. PICK y \in SentTo(i) : x \in CallErrors(y)
                    BY <4>2
                <5>2. x.kind = "AppendEntriesError" /\ x = [kind |-> "AppendEntriesError", from |-> y.to, to |-> y.from]
                    BY <1>3, <3>5, <5>1 DEF IsCall
                <5>3. y.to = p /\ y.from = j
                    BY <3>5, <5>2 DEF IsCall
                <5> QED BY <5>2, <5>3
            <4> QED BY <1>2, <4>1, <4>2
        <3> HIDE DEF error
        <3>6. CallsIn(rpcs', j, p) = {error}
            BY <3>4, <3>5 DEF CallsIn
        <3> QED BY <3>3, <3>6 DEF OneCall
    <2>3. CASE \A m \in SentTo(i) : ~IsCall(m, j, p)
        <3>1. ASSUME NEW x, IsCall(x, j, p), x \in rpcs PROVE x \in rpcs'
            BY <1>2, <2>3, <3>1 DEF IsCall
        <3>2. ASSUME NEW x, IsCall(x, j, p), x \in rpcs' PROVE x \in rpcs
            <4>1. CASE \E y \in SentTo(i) : x \in CallErrors(y)
                <5>1. PICK y \in SentTo(i) : x \in CallErrors(y)
                    BY <4>1
                <5>2. y.kind = "AppendEntries" /\ y.live /\ x = [kind |-> "AppendEntriesError", from |-> y.to, to |-> y.from]
                    BY <1>3, <3>2, <5>1 DEF IsCall
                <5>3. y.to = p /\ y.from = j
                    BY <3>2, <5>2 DEF IsCall
                <5>4. IsCall(y, j, p)
                    BY <5>2, <5>3 DEF IsCall
                <5> QED BY <2>3, <5>1, <5>4
            <4> QED BY <1>2, <3>2, <4>1
        <3>3. CallsIn(rpcs, j, p) = CallsIn(rpcs', j, p)
            BY <3>1, <3>2, SameCalls
        <3> QED BY <2>1, <3>3 DEF OneCall
    <2> QED BY <2>2, <2>3
<1>5. AcksApplied(applied, rpcs', outcome')
    <2>1. \A c \in Cmd : outcome'[c] = "ack" => outcome[c] = "ack"
        BY <1>1 DEF Forget
    <2>2. ASSUME NEW x \in rpcs', x.kind = "ForwardAnswer" PROVE x \in rpcs \/ x.ack = FALSE
        <3>1. CASE \E m \in SentTo(i) : x \in CallErrors(m)
            <4>1. PICK m \in SentTo(i) : x \in CallErrors(m)
                BY <3>1
            <4> QED BY <1>3, <2>2, <4>1
        <3> QED BY <1>2, <3>1
    <2> QED BY <2>1, <2>2 DEF ServiceInv, AcksApplied
<1>6. IdleUnlessLeader' /\ WaitingNotApplied'
    <2>1. \A j \in Server : role'[j] # "Leader" => role[j] # "Leader"
        BY <1>1 DEF Running, RunningRoles
    <2> QED BY <1>1, <2>1 DEF ServiceInv, IdleUnlessLeader, WaitingNotApplied
<1> QED BY <1>1, <1>4, <1>5, <1>6 DEF ServiceInv

-----------------------------------------------------------------------------

LEMMA ServiceInvInit == Init => ServiceInv
BY DEF Init, ServiceInv, CallsFit, OneCall, CallsIn, Peers, AcksApplied, IdleUnlessLeader, WaitingNotApplied

LEMMA ServiceInvNext == IndexInv /\ ServiceInv /\ [Next]_vars => ServiceInv'
<1> SUFFICES ASSUME IndexInv, ServiceInv, [Next]_vars PROVE ServiceInv'
    OBVIOUS
<1>1. ASSUME NEW m \in rpcs, Receive(m) \/ AppendEntriesCallFails(m) PROVE ServiceInv'
    BY <1>1, ReceiveRequestVoteService, ReceiveVoteService, ReceiveAppendEntriesService,
       RefuseAppendEntriesService, PanicInOverwriteLogService, AppendEntriesFailedService,
       AppendEntriesNewTermService, AppendEntriesSucceededService, AppendEntriesRefusedService,
       ReceiveForwardService, ReceiveForwardAnswerService, AppendEntriesCallFailsService
       DEF Receive, ReceiveAppendEntriesResponse
<1>2. ASSUME NEW c \in Cmd, ClientRequest(c) \/ ForwardCallFails(c) PROVE ServiceInv'
    BY <1>2, ClientRequestService, ForwardCallFailsService
<1>3. ASSUME NEW i \in Server, ElectionTimeout(i) \/ Heartbeat(i) \/ CloseWindow(i) \/ Restart(i)
      PROVE  ServiceInv'
    BY <1>3, ElectionTimeoutService, HeartbeatService, CloseWindowService, RestartService
<1>4. ASSUME NEW i \in Server, NEW j \in Server, Disconnect(i, j) \/ NewPeer(i, j) PROVE ServiceInv'
    BY <1>4, LinkService
<1>5. CASE UNCHANGED vars
    <2>1. UNCHANGED <<role, in_flight_peers, in_flight_client_requests, last_applied, applied, outcome, rpcs>>
        BY <1>5 DEF vars, applyVars, leaderVars, userVars
    <2> QED BY <2>1, ExchangeService DEF ServiceInv
<1> QED BY <1>1, <1>2, <1>3, <1>4, <1>5 DEF Next

\* A leader never has two AppendEntries calls to one peer under way, and while
\* the peer is marked in flight (worker.rs:609, 625) something is under way that
\* will unmark it: no time-out, broken link, panic or reload loses the mark's end.
THEOREM OneCallPerPeer == Spec => []OneCallInFlight
<1>1. ServiceInv => OneCallInFlight
    <2> SUFFICES ASSUME ServiceInv, NEW i \in Server, NEW p \in Peers(i)
                 PROVE  Cardinality(CallsTo(i, p)) = IF p \in in_flight_peers[i] THEN 1 ELSE 0
        BY DEF OneCallInFlight
    <2>1. CallsTo(i, p) = CallsIn(rpcs, i, p)
        BY DEF CallsTo, CallsIn, IsCall
    <2>2. OneCall(rpcs, i, p, p \in in_flight_peers[i])
        BY DEF ServiceInv, CallsFit
    <2> QED BY <2>1, <2>2, FS_EmptySet, FS_Singleton DEF OneCall
<1> QED BY <1>1, IndexInvInit, IndexInvNext, ServiceInvInit, ServiceInvNext, PTL DEF Spec

\* Whoever gets Ack (worker.rs:567-571), from its own worker or through the one it
\* asked, issued a command that a state machine has received: requests that a
\* deposed, panicked or closed leader held are never acknowledged.
THEOREM AcksAreApplied == Spec => []AckedWasApplied
<1>1. ServiceInv => AckedWasApplied
    BY DEF ServiceInv, AcksApplied, AckedWasApplied
<1> QED BY <1>1, IndexInvInit, IndexInvNext, ServiceInvInit, ServiceInvNext, PTL DEF Spec

-----------------------------------------------------------------------------
(* One leader, whoever it is and whenever it is elected: as long as no other *)
(* election is won, what is committed is on a majority and stays.  (With a   *)
(* second leader it need not: votes do not compare the terms of logs.)       *)

OneLeader == \A a, b \in elected : a = b

\* A log keeps its entries and may get more.
Extends(lg, lg2) == Len(lg2) >= Len(lg) /\ \A k \in 1 .. Len(lg) : lg2[k] = lg[k]

\* The entries of one leader: at most one for each index.
LogsAgree ==
    \A i, j \in Server : \A k \in 1 .. Len(log[i]) : k <= Len(log[j]) => log[i][k] = log[j][k]

LEMMA OneLeaderOneLog == IndexInv /\ LogInv /\ OneLeader => LogsAgree
<1> SUFFICES ASSUME IndexInv, LogInv, OneLeader, NEW i \in Server, NEW j \in Server,
                    NEW k \in 1 .. Len(log[i]), k <= Len(log[j])
             PROVE  log[i][k] = log[j][k]
    BY DEF LogsAgree
<1> DEFINE a == Placed(k, log[i][k], IF k = 1 THEN 0 ELSE log[i][k - 1].term)
           b == Placed(k, log[j][k], IF k = 1 THEN 0 ELSE log[j][k - 1].term)
<1>1. k \in 1 .. Len(log[j])
    BY LenProperties DEF IndexInv, TypeOK
<1>2. a \in Places /\ b \in Places
    BY <1>1, PlaceOfEntry
<1>3. a.idx = k /\ b.idx = k /\ a.entry = log[i][k] /\ b.entry = log[j][k]
    BY DEF Placed
<1> HIDE DEF a, b
<1>4. a.entry.term = b.entry.term
    BY <1>2 DEF LogInv, EntriesOfWinners, OneLeader
<1>5. a = b
    BY <1>2, <1>3, <1>4 DEF LogInv, OneEntryPerPlace
<1> QED BY <1>3, <1>5

\* The receiver of a call has nothing that conflicts with it.
LEMMA ReceivedEntriesExtend ==
    ASSUME IndexInv, LogInv, OneLeader, NEW m \in rpcs, ReceiveAppendEntries(m), NEW j \in Server
    PROVE  Extends(log[j], log'[j])
<1> DEFINE i == m.to
           accepted == m.term >= current_term[i] /\ PrevLogMatches(log[i], m)
           lg == IF accepted THEN Merge(log[i], m.prev_log_index, m.entries) ELSE log[i]
<1>1. /\ m.kind = "AppendEntries" /\ i \in Server /\ m \in AppendEntriesRequest
      /\ log \in [Server -> Seq(Entry)] /\ log[i] \in Seq(Entry) /\ m.prev_log_index \in Nat
      /\ m.entries \in Seq(Entry)
    <2>1. m.kind = "AppendEntries"
        BY DEF ReceiveAppendEntries
    <2> QED BY <2>1, MessageKinds DEF IndexInv, TypeOK, AppendEntriesRequest
<1>2. /\ accepted => ~OverwritePanics(log[i], m.prev_log_index, m.entries)
      /\ log' = [log EXCEPT ![i] = lg]
    BY DEF ReceiveAppendEntries
<1>3. Len(log[i]) \in Nat /\ Len(log[j]) \in Nat
    BY <1>1, LenProperties
<1>4. Extends(log[i], lg)
    <2>1. CASE accepted
        <3> DEFINE prev == m.prev_log_index
                   es == m.entries
                   merged == Merge(log[i], prev, es)
        <3>1. PICK kept \in prev .. Len(log[i]) :
                  /\ Len(merged) \in Nat /\ kept <= Len(merged)
                  /\ \A k \in 1 .. kept : merged[k] = log[i][k]
                  /\ \A k \in kept + 1 .. Len(merged) : k - prev \in 1 .. Len(es) /\ merged[k] = es[k - prev]
            BY <1>1, <1>2, <2>1, MergeEntries
        <3>2. prev <= Len(log[i])
            BY <1>1, <1>3, <2>1 DEF PrevLogMatches
        <3>3. Len(merged) >= Len(log[i])
            BY <1>1, <3>2, MergeGrows
        <3>4. ASSUME NEW k \in 1 .. Len(log[i]) PROVE merged[k] = log[i][k]
            <4>1. CASE k <= kept
                BY <1>1, <1>3, <3>1, <4>1
            <4>2. CASE k > kept
                <5> DEFINE n == k - prev
                           a == Placed(k, log[i][k], IF k = 1 THEN 0 ELSE log[i][k - 1].term)
                           b == Placed(prev + n, es[n], SentPrev(m, n))
                <5>1. k \in kept + 1 .. Len(merged)
                    BY <1>1, <1>3, <3>1, <3>3, <4>2
                <5>2. n \in 1 .. Len(es) /\ merged[k] = es[n] /\ prev + n = k
                    BY <1>1, <1>3, <3>1, <5>1
                <5>3. a \in Places
                    BY <1>1, PlaceOfEntry
                <5>4. b \in Places
                    <6>1. b \in PlacedInCall(m)
                        BY <5>2 DEF PlacedInCall
                    <6> HIDE DEF b
                    <6> QED BY <1>1, <6>1 DEF Places, PlacedInCalls
                <5>5. a.idx = k /\ b.idx = k /\ a.entry = log[i][k] /\ b.entry = es[n]
                    BY <5>2 DEF Placed
                <5> HIDE DEF a, b
                <5>6. a = b
                    BY <5>3, <5>4, <5>5 DEF LogInv, EntriesOfWinners, OneLeader, OneEntryPerPlace
                <5> QED BY <5>2, <5>5, <5>6
            <4> QED BY <1>1, <1>3, <3>1, <4>1, <4>2
        <3> HIDE DEF merged
        <3>5. lg = merged
            BY <2>1 DEF merged
        <3> QED BY <3>3, <3>4, <3>5 DEF Extends
    <2>2. CASE ~accepted
        BY <1>3, <2>2 DEF Extends
    <2> QED BY <2>1, <2>2
<1> HIDE DEF lg
<1>5. CASE j = i
    BY <1>1, <1>2, <1>4, <1>5
<1>6. CASE j # i
    BY <1>1, <1>2, <1>3, <1>6 DEF Extends
<1> QED BY <1>5, <1>6

LEMMA LogUpdateExtends ==
    ASSUME IndexInv, NEW i \in Server, NEW c \in Cmd, NEW out, NEW msgs, HandleLogUpdate(i, c, out, msgs),
           NEW j \in Server
    PROVE  Extends(log[j], log'[j])
<1> DEFINE lg == Append(log[i], [term |-> current_term[i], cmd |-> c])
<1>1. log[i] \in Seq(Entry) /\ [term |-> current_term[i], cmd |-> c] \in Entry /\ log \in [Server -> Seq(Entry)]
    BY DEF IndexInv, TypeOK, Entry
<1>2. Extends(log[i], lg)
    BY <1>1, AppendProperties, LenProperties DEF Extends
<1>3. log' = [log EXCEPT ![i] = lg]
    BY DEF HandleLogUpdate
<1> HIDE DEF lg
<1>4. Extends(log[j], log[j])
    BY <1>1, LenProperties DEF Extends
<1> QED BY <1>1, <1>2, <1>3, <1>4

LEMMA LogsExtend ==
    IndexInv /\ LogInv /\ OneLeader /\ [Next]_vars => \A i \in Server : Extends(log[i], log'[i])
<1> SUFFICES ASSUME IndexInv, LogInv, OneLeader, [Next]_vars, NEW i \in Server
             PROVE  Extends(log[i], log'[i])
    OBVIOUS
<1>1. Len(log[i]) \in Nat
    BY LenProperties DEF IndexInv, TypeOK
<1>2. UNCHANGED log => Extends(log[i], log'[i])
    BY <1>1 DEF Extends
<1>3. ASSUME NEW m \in rpcs, Receive(m) PROVE Extends(log[i], log'[i])
    <2>1. CASE ReceiveRequestVote(m) \/ ReceiveVote(m) \/ RefuseAppendEntries(m) \/ PanicInOverwriteLog(m)
                   \/ ReceiveForwardAnswer(m)
        BY <1>2, <2>1 DEF ReceiveRequestVote, ReceiveVote, RefuseAppendEntries, PanicInOverwriteLog,
                    ReceiveForwardAnswer, persistentVars
    <2>2. CASE ReceiveAppendEntries(m)
        BY <2>2, ReceivedEntriesExtend
    <2>3. CASE ReceiveAppendEntriesResponse(m)
        BY <1>2, <2>3 DEF ReceiveAppendEntriesResponse, AppendEntriesFailed, AppendEntriesNewTerm,
                    AppendEntriesSucceeded, AppendEntriesRefused, persistentVars
    <2>4. CASE ReceiveForward(m)
        <3>1. m.to \in Server /\ m.cmd \in Cmd
            BY <2>4, MessageKinds DEF ReceiveForward, IndexInv, TypeOK, ForwardRequest
        <3> QED BY <1>2, <2>4, <3>1, LogUpdateExtends DEF ReceiveForward, persistentVars
    <2> QED BY <1>3, <2>1, <2>2, <2>3, <2>4 DEF Receive
<1>4. ASSUME NEW c \in Cmd, ClientRequest(c) PROVE Extends(log[i], log'[i])
    <2>1. origin[c] \in Server
        BY DEF IndexInv, TypeOK
    <2> QED BY <1>2, <1>4, <2>1, LogUpdateExtends
               DEF ClientRequest, FollowerClientRequest, CandidateClientRequest, LeaderClientRequest, persistentVars
<1>5. ASSUME \/ \E m \in rpcs : AppendEntriesCallFails(m)
             \/ \E c \in Cmd : ForwardCallFails(c)
             \/ \E j \in Server : ElectionTimeout(j) \/ Heartbeat(j) \/ CloseWindow(j) \/ Restart(j)
             \/ \E j, k \in Server : Disconnect(j, k) \/ NewPeer(j, k)
             \/ UNCHANGED vars
      PROVE  UNCHANGED log
    BY <1>5 DEF AppendEntriesCallFails, ForwardCallFails, ElectionTimeout, Heartbeat, CloseWindow, Restart,
                Disconnect, NewPeer, vars, persistentVars
<1> QED BY <1>2, <1>3, <1>4, <1>5 DEF Next

-----------------------------------------------------------------------------
(* What a majority holds *)

\* The windows whose log reaches index k, and whether they are a majority.
Holders(lgs, k) == {p \in Server : k <= Len(lgs[p])}
OnQuorum(lgs, k) == Cardinality(Holders(lgs, k)) >= Quorum

\* A majority holds what anyone commits, is told to commit, or has applied, ...
CommitsOnQuorum == \A i \in Server : OnQuorum(log, commit_index[i])
CallsOnQuorum == \A m \in rpcs : m.kind = "AppendEntries" => OnQuorum(log, m.leader_commit)
AppliedHeld ==
    \A a \in applied : /\ OnQuorum(log, a[1])
                       /\ \E p \in Server : a[1] \in 1 .. Len(log[p]) /\ log[p][a[1]].cmd = a[2]
\* ... and a leader counts on a peer for what that peer holds.
CountsHeld ==
    /\ \A i, p \in Server : match_indices[i][p] <= Len(log[p])
    /\ \A m \in rpcs : m.kind = "AppendEntriesAnswer" /\ m.success => m.end <= Len(log[m.from])

QuorumInv == CommitsOnQuorum /\ CallsOnQuorum /\ AppliedHeld /\ CountsHeld

LEMMA QuorumCounts == Cardinality(Server) \in Nat /\ Quorum \in Nat /\ (Server # {} => Quorum <= Cardinality(Server))
<1>1. Cardinality(Server) \in Nat /\ (Server # {} => Cardinality(Server) # 0)
    BY ServerAssumption, FS_CardinalityType, FS_EmptySet
<1> QED BY <1>1 DEF Quorum

LEMMA LargerQuorum ==
    ASSUME NEW S \in SUBSET Server, NEW T \in SUBSET S, Cardinality(T) >= Quorum
    PROVE  Cardinality(S) >= Quorum
<1>1. IsFiniteSet(S) /\ IsFiniteSet(T)
    BY ServerAssumption, FS_Subset
<1>2. Cardinality(T) <= Cardinality(S) /\ Cardinality(S) \in Nat /\ Cardinality(T) \in Nat
    BY <1>1, FS_Subset, FS_CardinalityType
<1> QED BY <1>2, QuorumCounts

\* Logs that grow hold at least as much, and what reaches k reaches what is before k.
LEMMA QuorumStays ==
    ASSUME NEW lgs, NEW lgs2,
           \A p \in Server : Len(lgs[p]) \in Nat /\ Len(lgs2[p]) \in Nat /\ Len(lgs2[p]) >= Len(lgs[p]),
           NEW k \in Nat, NEW n \in Nat, n <= k, OnQuorum(lgs, k)
    PROVE  OnQuorum(lgs2, n)
<1>1. Holders(lgs, k) \in SUBSET Holders(lgs2, n) /\ Holders(lgs2, n) \in SUBSET Server
    BY DEF Holders
<1> QED BY <1>1, LargerQuorum DEF OnQuorum

LEMMA NothingIsOnQuorum ==
    ASSUME NEW lgs, \A p \in Server : Len(lgs[p]) \in Nat, Server # {}
    PROVE  OnQuorum(lgs, 0)
<1>1. Holders(lgs, 0) = Server
    BY DEF Holders
<1> QED BY <1>1, QuorumCounts DEF OnQuorum

\* The leader and the peers that agree are a majority.
LEMMA AgreedOnQuorum ==
    ASSUME NEW i \in Server, NEW lgs, \A p \in Server : Len(lgs[p]) \in Nat,
           NEW match, \A p \in Server : match[p] \in Nat /\ match[p] <= Len(lgs[p]),
           NEW k \in Nat, k <= Len(lgs[i]), Agreed(i, match, k)
    PROVE  OnQuorum(lgs, k)
<1> DEFINE S == {p \in Peers(i) : match[p] >= k}
<1>1. S \in SUBSET Server /\ i \notin S
    BY DEF Peers
<1>2. IsFiniteSet(S) /\ Cardinality(S) >= Quorum - 1
    BY <1>1, ServerAssumption, FS_Subset DEF Agreed
<1>3. S \cup {i} \in SUBSET Holders(lgs, k) /\ Holders(lgs, k) \in SUBSET Server
    BY DEF Holders, Peers
<1> HIDE DEF S
<1>4. Cardinality(S \cup {i}) = Cardinality(S) + 1
    BY <1>1, <1>2, FS_AddElement
<1>5. Cardinality(S \cup {i}) >= Quorum
    BY <1>2, <1>4, FS_CardinalityType, QuorumCounts
<1> QED BY <1>3, <1>5, LargerQuorum DEF OnQuorum

-----------------------------------------------------------------------------
(* Steps of logs that extend *)

LEMMA TypedLogs ==
    ASSUME IndexInv, IndexInv', \A j \in Server : Extends(log[j], log'[j])
    PROVE  \A j \in Server : /\ Len(log[j]) \in Nat /\ Len(log'[j]) \in Nat /\ Len(log'[j]) >= Len(log[j])
                             /\ commit_index[j] \in Nat
BY LenProperties DEF IndexInv, TypeOK, Extends

\* What a majority held, it still holds.
LEMMA HeldStays ==
    ASSUME IndexInv, IndexInv', QuorumInv, \A j \in Server : Extends(log[j], log'[j])
    PROVE  /\ \A j \in Server : OnQuorum(log', commit_index[j])
           /\ \A m \in rpcs : m.kind = "AppendEntries" => OnQuorum(log', m.leader_commit)
           /\ \A a \in applied :
                 /\ OnQuorum(log', a[1])
                 /\ \E p \in Server : a[1] \in 1 .. Len(log'[p]) /\ log'[p][a[1]].cmd = a[2]
<1>1. \A j \in Server : /\ Len(log[j]) \in Nat /\ Len(log'[j]) \in Nat /\ Len(log'[j]) >= Len(log[j])
                        /\ commit_index[j] \in Nat
    BY TypedLogs
<1>2. ASSUME NEW k \in Nat, OnQuorum(log, k) PROVE OnQuorum(log', k)
    <2>1. k <= k
        OBVIOUS
    <2> QED BY <1>1, <1>2, <2>1, QuorumStays
<1>3. \A j \in Server : OnQuorum(log', commit_index[j])
    BY <1>1, <1>2 DEF QuorumInv, CommitsOnQuorum
<1>4. ASSUME NEW m \in rpcs, m.kind = "AppendEntries" PROVE OnQuorum(log', m.leader_commit)
    <2>1. m.leader_commit \in Nat
        BY <1>4, MessageKinds DEF IndexInv, TypeOK, AppendEntriesRequest
    <2> QED BY <1>2, <1>4, <2>1 DEF QuorumInv, CallsOnQuorum
<1>5. ASSUME NEW a \in applied
      PROVE  /\ OnQuorum(log', a[1])
             /\ \E p \in Server : a[1] \in 1 .. Len(log'[p]) /\ log'[p][a[1]].cmd = a[2]
    <2>1. a[1] \in Nat
        BY DEF IndexInv, TypeOK
    <2>2. PICK p \in Server : a[1] \in 1 .. Len(log[p]) /\ log[p][a[1]].cmd = a[2]
        BY DEF QuorumInv, AppliedHeld
    <2>3. a[1] \in 1 .. Len(log'[p]) /\ log'[p][a[1]].cmd = a[2]
        BY <1>1, <2>2 DEF Extends
    <2> QED BY <1>2, <2>1, <2>3 DEF QuorumInv, AppliedHeld
<1> QED BY <1>3, <1>4, <1>5

\* Steps that commit nothing.
CommitsNothing ==
    /\ UNCHANGED applied
    /\ \A j \in Server : commit_index'[j] = commit_index[j] \/ commit_index'[j] = 0

LEMMA NothingCommitted ==
    ASSUME IndexInv, IndexInv', QuorumInv, \A j \in Server : Extends(log[j], log'[j]), CommitsNothing
    PROVE  CommitsOnQuorum' /\ AppliedHeld'
<1>1. ASSUME NEW j \in Server PROVE OnQuorum(log', commit_index'[j])
    BY TypedLogs, HeldStays, NothingIsOnQuorum DEF CommitsNothing
<1>2. CommitsOnQuorum'
    BY <1>1 DEF CommitsOnQuorum, OnQuorum, Holders, Quorum
<1>3. AppliedHeld'
    BY HeldStays DEF CommitsNothing, AppliedHeld, OnQuorum, Holders, Quorum
<1> QED BY <1>2, <1>3

\* A worker that applies what a majority holds.
LEMMA HeldCommitted ==
    ASSUME IndexInv, IndexInv', QuorumInv, \A j \in Server : Extends(log[j], log'[j]),
           NEW i \in Server, NEW n \in Nat, OnQuorum(log', n), ApplyLog(i, log'[i], n)
    PROVE  CommitsOnQuorum' /\ AppliedHeld'
<1> DEFINE last == Smaller(n, Len(log'[i]))
<1>1. /\ \A j \in Server : Len(log[j]) \in Nat /\ Len(log'[j]) \in Nat /\ Len(log'[j]) >= Len(log[j])
      /\ \A j \in Server : Len(log'[j]) >= Len(log'[j])
      /\ commit_index \in [Server -> Nat] /\ last_applied[i] \in Nat
    <2>1. commit_index \in [Server -> Nat] /\ last_applied[i] \in Nat
        BY DEF IndexInv, TypeOK
    <2> QED BY <2>1, TypedLogs
<1>2. last \in Nat /\ last <= n /\ last <= Len(log'[i])
    BY <1>1 DEF Smaller
<1>3. /\ commit_index' = [commit_index EXCEPT ![i] = n]
      /\ applied' = applied \cup {<<k, log'[i][k].cmd>> : k \in last_applied[i] + 1 .. last}
    BY DEF ApplyLog
<1> HIDE DEF last
<1>4. \A j \in Server : OnQuorum(log', commit_index'[j])
    BY <1>1, <1>3, HeldStays
<1>5. ASSUME NEW a \in applied'
      PROVE  /\ OnQuorum(log', a[1])
             /\ \E p \in Server : a[1] \in 1 .. Len(log'[p]) /\ log'[p][a[1]].cmd = a[2]
    <2>1. CASE a \in applied
        BY <2>1, HeldStays
    <2>2. CASE a \notin applied
        <3>1. PICK k \in last_applied[i] + 1 .. last : a = <<k, log'[i][k].cmd>>
            BY <1>3, <2>2
        <3>2. k \in Nat /\ k <= n /\ k \in 1 .. Len(log'[i])
            BY <1>1, <1>2
        <3>3. OnQuorum(log', k)
            BY <1>1, <3>2, QuorumStays
        <3> QED BY <3>1, <3>2, <3>3
    <2> QED BY <2>1, <2>2
<1> QED BY <1>4, <1>5 DEF CommitsOnQuorum, AppliedHeld, OnQuorum, Holders, Quorum

\* A leader commits what a majority has agreed on.
LEMMA LeaderCommitted ==
    ASSUME IndexInv, IndexInv', QuorumInv, \A j \in Server : Extends(log[j], log'[j]),
           NEW i \in Server, NEW match, \A p \in Server : match[p] \in Nat /\ match[p] <= Len(log'[p]),
           NEW inFlight, NEW out, NEW msgs, LeaderLoopTop(i, log'[i], match, inFlight, out, msgs)
    PROVE  CommitsOnQuorum' /\ AppliedHeld'
<1>1. PICK n \in commit_index[i] .. Len(log'[i]) :
          Committable(i, log'[i], match, n) /\ ApplyLog(i, log'[i], n)
    BY DEF LeaderLoopTop
<1>2. \A j \in Server : Len(log'[j]) \in Nat /\ commit_index[j] \in Nat
    BY TypedLogs
<1>3. n \in Nat /\ n <= Len(log'[i])
    BY <1>2
<1>4. OnQuorum(log', n)
    <2>1. CASE n = commit_index[i]
        BY <2>1, HeldStays
    <2>2. CASE n # commit_index[i]
        <3>1. n \in commit_index[i] + 1 .. n
            BY <1>2, <2>2
        <3>2. Agreed(i, match, n)
            BY <1>1, <3>1 DEF Committable
        <3> QED BY <1>2, <1>3, <3>2, AgreedOnQuorum
    <2> QED BY <2>1, <2>2
<1> QED BY <1>1, <1>3, <1>4, HeldCommitted

LEMMA ReplicateCommitted ==
    ASSUME IndexInv, IndexInv', QuorumInv, \A j \in Server : Extends(log[j], log'[j]),
           NEW i \in Server, NEW peers, NEW next, NEW inFlight, NEW inFlightPeers, NEW out, NEW msgs,
           Replicate(i, peers, log'[i], next, inFlight, inFlightPeers, out, msgs)
    PROVE  CommitsOnQuorum' /\ AppliedHeld'
<1> DEFINE targets == Targets(i, peers, inFlightPeers)
<1>1. CASE Underflows(targets, next)
    <2>1. /\ commit_index' = [commit_index EXCEPT ![i] = 0] /\ applied' = applied
          /\ commit_index \in [Server -> Nat]
        BY <1>1 DEF Replicate, PanicInAppendEntries, Stop, IndexInv, TypeOK
    <2>2. CommitsNothing
        BY <2>1 DEF CommitsNothing
    <2> QED BY <2>2, NothingCommitted
<1>2. CASE ~Underflows(targets, next)
    <2>1. LeaderLoopTop(i, log'[i], match_indices[i], inFlight, out, msgs \cup Calls(i, targets, log'[i], next))
        BY <1>2 DEF Replicate
    <2>2. ASSUME NEW p \in Server PROVE match_indices[i][p] \in Nat /\ match_indices[i][p] <= Len(log'[p])
        <3>1. match_indices[i][p] \in Nat /\ match_indices[i][p] <= Len(log[p])
            BY DEF QuorumInv, CountsHeld, IndexInv, TypeOK
        <3>2. Len(log[p]) \in Nat /\ Len(log'[p]) \in Nat /\ Len(log'[p]) >= Len(log[p])
            BY TypedLogs
        <3> QED BY <3>1, <3>2
    <2> HIDE DEF targets
    <2> QED BY <2>1, <2>2, LeaderCommitted
<1> QED BY <1>1, <1>2

\* Calls repeat what others said or what their leader has committed; counts
\* come from answers.
LEMMA QuietHeld ==
    ASSUME IndexInv, IndexInv', QuorumInv, \A j \in Server : Extends(log[j], log'[j]),
           Told(rpcs'), \A j \in Server : CountsKept(j)
    PROVE  CallsOnQuorum' /\ CountsHeld'
<1>1. \A j \in Server : Len(log[j]) \in Nat /\ Len(log'[j]) \in Nat /\ Len(log'[j]) >= Len(log[j])
    BY TypedLogs
<1>2. \A m \in rpcs' : m \in Message /\ m.from \in Server
    BY MessageKinds DEF IndexInv, TypeOK
<1>3. ASSUME NEW m \in rpcs', m.kind = "AppendEntries" PROVE OnQuorum(log', m.leader_commit)
    <2>1. CASE \E x \in rpcs : SameCall(m, x)
        <3>1. PICK x \in rpcs : SameCall(m, x)
            BY <2>1
        <3>2. x.kind = "AppendEntries" /\ m.leader_commit = x.leader_commit
            BY <3>1 DEF SameCall
        <3> QED BY <3>2, HeldStays
    <2>2. CASE m.leader_commit = commit_index[m.from]
        BY <1>2, <2>2, HeldStays
    <2> QED BY <1>3, <2>1, <2>2 DEF Told
<1>4. ASSUME NEW m \in rpcs, m.kind = "AppendEntriesAnswer", m.success PROVE m.end <= Len(log'[m.from])
    <2>1. m.end \in Nat /\ m.from \in Server /\ m.end <= Len(log[m.from])
        BY <1>4, MessageKinds DEF IndexInv, TypeOK, AppendEntriesAnswer, QuorumInv, CountsHeld
    <2> QED BY <1>1, <2>1
<1>5. ASSUME NEW i \in Server, NEW p \in Server PROVE match_indices'[i][p] <= Len(log'[p])
    <2>1. CASE match_indices'[i][p] = 0
        BY <1>1, <2>1
    <2>2. CASE match_indices'[i][p] = match_indices[i][p]
        <3>1. match_indices[i][p] \in Nat /\ match_indices[i][p] <= Len(log[p])
            BY DEF IndexInv, TypeOK, QuorumInv, CountsHeld
        <3> QED BY <1>1, <2>2, <3>1
    <2>3. CASE Counted(i, p, match_indices'[i][p])
        BY <1>4, <2>3 DEF Counted
    <2> QED BY <2>1, <2>2, <2>3 DEF CountsKept
<1>6. \A m \in rpcs' : m.kind = "AppendEntriesAnswer" /\ m.success => m.end <= Len(log'[m.from])
    BY <1>4 DEF Told
<1> QED BY <1>3, <1>5, <1>6 DEF CallsOnQuorum, CountsHeld, OnQuorum, Holders, Quorum

\* The steps in which nobody takes entries, and no vote wins.
LEMMA QuietCommits ==
    ASSUME IndexInv, IndexInv', LogInv, QuorumInv, \A j \in Server : Extends(log[j], log'[j]), MatchQuiet,
           [Next]_vars, ~ \E m \in rpcs : ReceiveVote(m) \/ ReceiveAppendEntries(m)
    PROVE  CommitsOnQuorum' /\ AppliedHeld'
<1>1. CommitsNothing => CommitsOnQuorum' /\ AppliedHeld'
    BY NothingCommitted
<1>2. UNCHANGED applyVars => CommitsNothing
    BY DEF applyVars, CommitsNothing
<1>3. ASSUME NEW i, applied' = applied, commit_index' = [commit_index EXCEPT ![i] = 0] PROVE CommitsNothing
    BY <1>3 DEF CommitsNothing, IndexInv, TypeOK
<1>4. \A i \in Server : UNCHANGED log => log'[i] = log[i]
    OBVIOUS
<1>5. ASSUME NEW i \in Server, NEW c \in Cmd, NEW out, NEW msgs, HandleLogUpdate(i, c, out, msgs)
      PROVE  CommitsOnQuorum' /\ AppliedHeld'
    <2> DEFINE lg == Append(log[i], [term |-> current_term[i], cmd |-> c])
    <2>1. /\ log' = [log EXCEPT ![i] = lg]
          /\ Replicate(i, Peers(i), lg, next_indices[i], in_flight_client_requests[i] \cup {Len(lg)},
                       in_flight_peers[i], out, msgs)
        BY <1>5 DEF HandleLogUpdate
    <2> HIDE DEF lg
    <2>2. log'[i] = lg
        BY <2>1 DEF IndexInv, TypeOK
    <2>3. Replicate(i, Peers(i), log'[i], next_indices[i], in_flight_client_requests[i] \cup {Len(lg)},
                    in_flight_peers[i], out, msgs)
        BY <2>1, <2>2
    <2> QED BY <2>3, ReplicateCommitted
<1>6. ASSUME NEW m \in rpcs, Receive(m) \/ AppendEntriesCallFails(m) PROVE CommitsOnQuorum' /\ AppliedHeld'
    <2>1. m.to \in Server
        BY MessageKinds DEF IndexInv, TypeOK
    <2>2. CASE ReceiveRequestVote(m) \/ RefuseAppendEntries(m) \/ ReceiveForwardAnswer(m)
                   \/ AppendEntriesCallFails(m) \/ AppendEntriesFailed(m) \/ AppendEntriesNewTerm(m)
        BY <1>1, <1>2, <2>2 DEF ReceiveRequestVote, RefuseAppendEntries, ReceiveForwardAnswer,
                    AppendEntriesCallFails, AppendEntriesFailed, AppendEntriesNewTerm
    <2>3. CASE PanicInOverwriteLog(m)
        BY <1>1, <1>3, <2>3 DEF PanicInOverwriteLog, Stop
    <2>4. CASE AppendEntriesSucceeded(m)
        <3> DEFINE match == [match_indices[m.to] EXCEPT ![m.from] = Larger(@, m.end)]
        <3>1. /\ match_indices' = [match_indices EXCEPT ![m.to] = match] /\ UNCHANGED log
              /\ LeaderLoopTop(m.to, log[m.to], match, in_flight_client_requests[m.to], outcome, rpcs \ {m})
            BY <2>4 DEF AppendEntriesSucceeded, persistentVars
        <3> HIDE DEF match
        <3>2. match_indices'[m.to] = match
            BY <2>1, <3>1 DEF IndexInv, TypeOK
        <3>3. CountsHeld' /\ match_indices' \in [Server -> [Server -> Nat]]
            BY QuietHeld DEF MatchQuiet, IndexInv, TypeOK
        <3>4. \A p \in Server : match[p] \in Nat /\ match[p] <= Len(log'[p])
            BY <2>1, <3>2, <3>3 DEF CountsHeld
        <3>5. LeaderLoopTop(m.to, log'[m.to], match, in_flight_client_requests[m.to], outcome, rpcs \ {m})
            BY <3>1
        <3> QED BY <2>1, <3>4, <3>5, LeaderCommitted
    <2>5. CASE AppendEntriesRefused(m)
        <3> DEFINE next == [next_indices[m.to] EXCEPT ![m.from] = Smaller(@, m.start - 1)]
        <3>1. /\ UNCHANGED log
              /\ Replicate(m.to, {m.from}, log[m.to], next, in_flight_client_requests[m.to],
                           in_flight_peers[m.to] \ {m.from}, outcome, rpcs \ {m})
            BY <2>5 DEF AppendEntriesRefused, persistentVars
        <3> HIDE DEF next
        <3>2. Replicate(m.to, {m.from}, log'[m.to], next, in_flight_client_requests[m.to],
                        in_flight_peers[m.to] \ {m.from}, outcome, rpcs \ {m})
            BY <3>1
        <3> QED BY <2>1, <3>2, ReplicateCommitted
    <2>6. CASE ReceiveForward(m)
        <3>1. m.cmd \in Cmd
            BY <2>6, MessageKinds DEF ReceiveForward, IndexInv, TypeOK, ForwardRequest
        <3> QED BY <1>1, <1>2, <1>5, <2>1, <2>6, <3>1 DEF ReceiveForward
    <2> QED BY <1>6, <2>2, <2>3, <2>4, <2>5, <2>6 DEF Receive, ReceiveAppendEntriesResponse
<1>7. ASSUME NEW c \in Cmd, ClientRequest(c) \/ ForwardCallFails(c) PROVE CommitsOnQuorum' /\ AppliedHeld'
    <2>1. origin[c] \in Server
        BY DEF IndexInv, TypeOK
    <2> QED BY <1>1, <1>2, <1>5, <1>7, <2>1 DEF ClientRequest, FollowerClientRequest, CandidateClientRequest,
                    LeaderClientRequest, ForwardCallFails
<1>8. ASSUME NEW i \in Server, ElectionTimeout(i) \/ CloseWindow(i) \/ Restart(i)
      PROVE  CommitsOnQuorum' /\ AppliedHeld'
    BY <1>1, <1>2, <1>3, <1>8 DEF ElectionTimeout, CloseWindow, Restart, Stop
<1>9. ASSUME NEW i \in Server, Heartbeat(i) PROVE CommitsOnQuorum' /\ AppliedHeld'
    <2>1. Replicate(i, Peers(i), log'[i], next_indices[i], in_flight_client_requests[i], in_flight_peers[i],
                    outcome, rpcs)
        BY <1>9 DEF Heartbeat, persistentVars
    <2> QED BY <2>1, ReplicateCommitted
<1>10. ASSUME NEW i \in Server, NEW j \in Server, Disconnect(i, j) \/ NewPeer(i, j)
       PROVE  CommitsOnQuorum' /\ AppliedHeld'
    BY <1>1, <1>2, <1>10 DEF Disconnect, NewPeer
<1>11. CASE UNCHANGED vars
    BY <1>1, <1>2, <1>11 DEF vars
<1> QED BY <1>6, <1>7, <1>8, <1>9, <1>10, <1>11 DEF Next

LEMMA ReceiveVoteHeld ==
    ASSUME IndexInv, IndexInv', MatchInv, QuorumInv, NEW m \in rpcs, ReceiveVote(m)
    PROVE  QuorumInv'
<1> DEFINE i == m.to
<1>1. /\ role[i] = "Candidate" /\ UNCHANGED <<log, applyVars, match_indices>>
      /\ rpcs' = Abandon(i, rpcs) \/ rpcs' = rpcs \ {m}
      /\ role' = [role EXCEPT ![i] = "Leader"] \/ role' = role
    BY DEF ReceiveVote, persistentVars
<1>2. i \in Server /\ rpcs \in SUBSET Message /\ \A j \in Server : Extends(log[j], log'[j])
    BY <1>1, MessageKinds, LenProperties DEF IndexInv, TypeOK, Extends
<1>3. Told(rpcs')
    BY <1>1, <1>2, ToldBefore, AbandonTold
<1>4. \A j \in Server : CountsKept(j)
    <2>1. \A j \in Server : role[j] = "Leader" => role'[j] = "Leader"
        BY <1>1 DEF IndexInv, TypeOK
    <2> QED BY <1>1, <2>1, CountsStay
<1>5. CommitsNothing
    BY <1>1 DEF CommitsNothing, applyVars
<1> QED BY <1>2, <1>3, <1>4, <1>5, QuietHeld, NothingCommitted DEF QuorumInv

\* A follower commits no more than it is told; it answers for what it has.
LEMMA ReceiveAppendEntriesHeld ==
    ASSUME IndexInv, IndexInv', QuorumInv, \A j \in Server : Extends(log[j], log'[j]),
           NEW m \in rpcs, ReceiveAppendEntries(m)
    PROVE  QuorumInv'
<1> DEFINE i == m.to
           accepted == m.term >= current_term[i] /\ PrevLogMatches(log[i], m)
           lg == IF accepted THEN Merge(log[i], m.prev_log_index, m.entries) ELSE log[i]
           commit == IF accepted THEN FollowerCommit(commit_index[i], m) ELSE commit_index[i]
           answers == AnswerAppendEntries(m, Larger(current_term[i], m.term), accepted)
           msgs == (rpcs \ {m}) \cup answers
<1>1. /\ m.kind = "AppendEntries" /\ i \in Server /\ m.from \in Server /\ m \in AppendEntriesRequest
      /\ m.prev_log_index \in Nat /\ m.leader_commit \in Nat /\ m.entries \in Seq(Entry)
      /\ log \in [Server -> Seq(Entry)] /\ log[i] \in Seq(Entry) /\ rpcs \in SUBSET Message
      /\ m.term \in Nat /\ current_term[i] \in Nat
    <2>1. m.kind = "AppendEntries"
        BY DEF ReceiveAppendEntries
    <2> QED BY <2>1, MessageKinds DEF IndexInv, TypeOK, AppendEntriesRequest, Term
<1>2. /\ log' = [log EXCEPT ![i] = lg] /\ ApplyLog(i, lg, commit)
      /\ IF role[i] # "Follower" THEN BecomeFollower(i, msgs) ELSE StayInRole(msgs)
    BY DEF ReceiveAppendEntries
<1>3. \A j \in Server : /\ Len(log[j]) \in Nat /\ Len(log'[j]) \in Nat /\ Len(log'[j]) >= Len(log[j])
                        /\ Len(log'[j]) >= Len(log'[j]) /\ commit_index[j] \in Nat
    BY TypedLogs
<1>4. log'[i] = lg /\ (accepted => m.prev_log_index + Len(m.entries) <= Len(lg)) /\ Len(m.entries) \in Nat
    <2>1. log'[i] = lg /\ Len(m.entries) \in Nat
        BY <1>1, <1>2, LenProperties
    <2>2. accepted => m.prev_log_index <= Len(log[i])
        BY <1>1, <1>3 DEF PrevLogMatches
    <2> QED BY <1>1, <2>1, <2>2, MergeGrows
<1>5. \A x \in answers : /\ x.kind = "AppendEntriesAnswer" /\ x \in Message
                         /\ x.success => accepted /\ x.from = i /\ x.end = m.prev_log_index + Len(m.entries)
    <2>1. Credible(m, log) /\ Larger(current_term[i], m.term) \in Nat /\ accepted \in BOOLEAN
        BY <1>1 DEF IndexInv, CredibleMessages, Larger
    <2> HIDE DEF accepted
    <2>2. \A x \in answers : /\ x.kind = "AppendEntriesAnswer"
                             /\ x.success => accepted /\ x.from = i /\ x.end = m.prev_log_index + Len(m.entries)
        BY DEF AnswerAppendEntries
    <2>3. \A x \in answers : x \in Message
        BY <1>1, <2>1, AnswerAppendEntriesFacts DEF Credible
    <2> QED BY <2>2, <2>3
<1>6. CommitsOnQuorum' /\ AppliedHeld'
    <2>1. commit \in Nat /\ (commit = commit_index[i] \/ commit <= m.leader_commit)
        BY <1>1, <1>3, <1>4 DEF FollowerCommit, Smaller
    <2>2. OnQuorum(log', commit_index[i]) /\ OnQuorum(log', m.leader_commit)
        BY <1>1, HeldStays
    <2> HIDE DEF commit
    <2>3. OnQuorum(log', commit)
        BY <1>1, <1>3, <2>1, <2>2, QuorumStays
    <2>4. ApplyLog(i, log'[i], commit)
        BY <1>2, <1>4
    <2> QED BY <1>1, <2>1, <2>3, <2>4, HeldCommitted
<1> HIDE DEF answers, accepted, lg, commit
<1>7. msgs \in SUBSET Message
    BY <1>1, <1>5
<1>8. /\ \A x \in rpcs' : x \in msgs \/ x \in Abandon(i, msgs) \/ x.kind = "ForwardAnswer"
      /\ match_indices' = match_indices \/ match_indices' = [match_indices EXCEPT ![i] = [p \in Server |-> 0]]
    <2> HIDE DEF msgs
    <2>1. CASE role[i] = "Follower"
        BY <1>2, <2>1 DEF StayInRole, leaderVars
    <2>2. CASE role[i] # "Follower"
        <3>1. LeaveRole(i, "Follower", outcome, log[i], in_flight_client_requests[i], msgs)
            BY <1>2, <2>2 DEF BecomeFollower
        <3>2. /\ match_indices' = [match_indices EXCEPT ![i] = [p \in Server |-> 0]]
              /\ AnswerClients(i, Waiting(log[i], in_flight_client_requests[i]), FALSE, outcome, Abandon(i, msgs))
            BY <3>1 DEF LeaveRole
        <3> QED BY <3>2 DEF AnswerClients
    <2> QED BY <2>1, <2>2
<1>9. ASSUME NEW x \in rpcs', x.kind = "AppendEntries" PROVE OnQuorum(log', x.leader_commit)
    <2>1. \E y \in rpcs : y.kind = "AppendEntries" /\ y.leader_commit = x.leader_commit
        <3>1. CASE x \in msgs
            BY <1>5, <1>9, <3>1
        <3>2. CASE x \notin msgs
            <4>1. x \in Abandon(i, msgs)
                <5> HIDE DEF msgs
                <5> QED BY <1>8, <1>9, <3>2
            <4>2. PICK y \in msgs : SameCall(x, y)
                BY <1>1, <1>7, <1>9, <4>1, AbandonedCall
            <4> QED BY <1>5, <4>2 DEF SameCall
        <3> QED BY <3>1, <3>2
    <2> QED BY <2>1, HeldStays
<1>10. ASSUME NEW x \in rpcs', x.kind = "AppendEntriesAnswer", x.success PROVE x.end <= Len(log'[x.from])
    <2>1. x \in msgs
        <3> HIDE DEF msgs
        <3>1. x \in msgs \/ x \in Abandon(i, msgs)
            BY <1>8, <1>10
        <3> QED BY <1>1, <1>7, <1>10, <3>1, AbandonFacts
    <2>2. CASE x \in answers
        BY <1>4, <1>5, <1>10, <2>2
    <2>3. CASE x \in rpcs
        <3>1. x.end \in Nat /\ x.from \in Server /\ x.end <= Len(log[x.from])
            BY <1>10, <2>3, MessageKinds DEF IndexInv, TypeOK, AppendEntriesAnswer, QuorumInv, CountsHeld
        <3> QED BY <1>3, <3>1
    <2> QED BY <2>1, <2>2, <2>3
<1>11. ASSUME NEW j \in Server, NEW p \in Server PROVE match_indices'[j][p] <= Len(log'[p])
    <2>1. match_indices'[j][p] = match_indices[j][p] \/ match_indices'[j][p] = 0
        <3>1. match_indices \in [Server -> [Server -> Nat]]
            BY DEF IndexInv, TypeOK
        <3> HIDE DEF i
        <3> QED BY <1>8, <3>1
    <2>2. match_indices[j][p] \in Nat /\ match_indices[j][p] <= Len(log[p])
        BY DEF IndexInv, TypeOK, QuorumInv, CountsHeld
    <2> QED BY <1>3, <2>1, <2>2
<1> QED BY <1>6, <1>9, <1>10, <1>11 DEF QuorumInv, CallsOnQuorum, CountsHeld, OnQuorum, Holders, Quorum

LEMMA QuorumInvInit == Init => QuorumInv
<1> SUFFICES ASSUME Init PROVE QuorumInv
    OBVIOUS
<1>1. \A p \in Server : Len(log[p]) = 0 /\ commit_index[p] = 0
    BY DEF Init
<1>2. \A i \in Server : OnQuorum(log, 0)
    BY <1>1, NothingIsOnQuorum
<1> QED BY <1>1, <1>2 DEF Init, QuorumInv, CommitsOnQuorum, CallsOnQuorum, AppliedHeld, CountsHeld

LEMMA QuorumInvNext ==
    IndexInv /\ IndexInv' /\ LogInv /\ MatchInv /\ OneLeader /\ QuorumInv /\ [Next]_vars => QuorumInv'
<1> SUFFICES ASSUME IndexInv, IndexInv', LogInv, MatchInv, OneLeader, QuorumInv, [Next]_vars PROVE QuorumInv'
    OBVIOUS
<1>1. \A i \in Server : Extends(log[i], log'[i])
    BY LogsExtend
<1>2. CASE \E m \in rpcs : ReceiveVote(m) \/ ReceiveAppendEntries(m)
    BY <1>1, <1>2, ReceiveVoteHeld, ReceiveAppendEntriesHeld
<1>3. CASE ~ \E m \in rpcs : ReceiveVote(m) \/ ReceiveAppendEntries(m)
    <2>1. MatchQuiet
        BY <1>3, MatchQuietNext
    <2>2. CommitsOnQuorum' /\ AppliedHeld'
        BY <1>1, <1>3, <2>1, QuietCommits
    <2>3. CallsOnQuorum' /\ CountsHeld'
        BY <1>1, <2>1, QuietHeld DEF MatchQuiet
    <2> QED BY <2>2, <2>3 DEF QuorumInv
<1> QED BY <1>2, <1>3

\* While no second leader is elected, an entry that a worker counts as committed
\* (advance_commit_index, worker.rs:547-572, and the leader_commit of a call,
\* worker.rs:217-222) stays at its index in its log.
THEOREM CommitsAreStable == Spec /\ []OneLeader => CommittedIsStable
<1>1. IndexInv /\ ElectionInv => ElectionSafety
    BY OneWinnerPerTerm DEF ElectionInv, IndexInv
<1>2. IndexInv /\ LogInv /\ OneLeader /\ [Next]_vars =>
          [\A i \in Server : \A k \in 1 .. commit_index[i] : k <= Len(log'[i]) /\ log'[i][k] = log[i][k]]_vars
    <2> SUFFICES ASSUME IndexInv, LogInv, OneLeader, [Next]_vars, ~UNCHANGED vars,
                        NEW i \in Server, NEW k \in 1 .. commit_index[i]
                 PROVE  k <= Len(log'[i]) /\ log'[i][k] = log[i][k]
        OBVIOUS
    <2>1. Extends(log[i], log'[i])
        BY LogsExtend
    <2>2. Len(log[i]) \in Nat /\ commit_index[i] \in Nat /\ commit_index[i] <= Len(log[i])
        BY LenProperties DEF IndexInv, TypeOK, CommitWithinLog
    <2>3. k \in 1 .. Len(log[i])
        BY <2>2
    <2>4. Len(log'[i]) >= Len(log[i]) /\ log'[i][k] = log[i][k]
        BY <2>1, <2>3 DEF Extends
    <2>5. Len(log'[i]) \in Nat
        BY IndexInvNext, LenProperties DEF IndexInv, TypeOK
    <2> QED BY <2>2, <2>4, <2>5
<1> QED BY <1>1, <1>2, IndexInvInit, IndexInvNext, ElectionInvInit, ElectionInvNext, LogInvInit, LogInvNext,
           PTL DEF Spec, CommittedIsStable

\* While no second leader is elected, all state machines, also those of
\* reloaded windows, receive the same command at an index.
THEOREM OneLeaderOneOrder == Spec /\ []OneLeader => []StateMachineSafety
<1>1. IndexInv /\ ElectionInv => ElectionSafety
    BY OneWinnerPerTerm DEF ElectionInv, IndexInv
<1>2. IndexInv /\ LogInv /\ OneLeader /\ QuorumInv => StateMachineSafety
    <2> SUFFICES ASSUME IndexInv, LogInv, OneLeader, QuorumInv, NEW a \in applied, NEW b \in applied, a[1] = b[1]
                 PROVE  a[2] = b[2]
        BY DEF StateMachineSafety
    <2>1. PICK p \in Server : a[1] \in 1 .. Len(log[p]) /\ log[p][a[1]].cmd = a[2]
        BY DEF QuorumInv, AppliedHeld
    <2>2. PICK q \in Server : b[1] \in 1 .. Len(log[q]) /\ log[q][b[1]].cmd = b[2]
        BY DEF QuorumInv, AppliedHeld
    <2>3. Len(log[q]) \in Nat
        BY LenProperties DEF IndexInv, TypeOK
    <2> QED BY <2>1, <2>2, <2>3, OneLeaderOneLog DEF LogsAgree
<1> QED BY <1>1, <1>2, IndexInvInit, IndexInvNext, ElectionInvInit, ElectionInvNext, LogInvInit, LogInvNext,
           MatchInvInit, MatchInvNext, QuorumInvInit, QuorumInvNext, PTL DEF Spec

\* While no second leader is elected, a command whose user is told Ack
\* (worker.rs:567-571) is in the logs of a majority, and stays there.
THEOREM AcksAreOnQuorum == Spec /\ []OneLeader => []AckedIsOnQuorum
<1>1. IndexInv /\ ElectionInv => ElectionSafety
    BY OneWinnerPerTerm DEF ElectionInv, IndexInv
<1>2. IndexInv /\ LogInv /\ OneLeader /\ QuorumInv /\ ServiceInv => AckedIsOnQuorum
    <2> SUFFICES ASSUME IndexInv, LogInv, OneLeader, QuorumInv, ServiceInv, NEW c \in Cmd, outcome[c] = "ack"
                 PROVE  Cardinality({i \in Server : \E k \in 1 .. Len(log[i]) : log[i][k].cmd = c}) >= Quorum
        BY DEF AckedIsOnQuorum
    <2>1. PICK a \in applied : a[2] = c
        BY DEF ServiceInv, AcksApplied
    <2>2. OnQuorum(log, a[1]) /\ \E p \in Server : a[1] \in 1 .. Len(log[p]) /\ log[p][a[1]].cmd = c
        BY <2>1 DEF QuorumInv, AppliedHeld
    <2>3. PICK p \in Server : a[1] \in 1 .. Len(log[p]) /\ log[p][a[1]].cmd = c
        BY <2>2
    <2> DEFINE S == {i \in Server : \E k \in 1 .. Len(log[i]) : log[i][k].cmd = c}
    <2>4. ASSUME NEW q \in Holders(log, a[1]) PROVE q \in S
        <3>1. q \in Server /\ a[1] <= Len(log[q]) /\ Len(log[q]) \in Nat /\ Len(log[p]) \in Nat
            BY LenProperties DEF Holders, IndexInv, TypeOK
        <3>2. log[p][a[1]] = log[q][a[1]]
            BY <2>3, <3>1, OneLeaderOneLog DEF LogsAgree
        <3> QED BY <2>3, <3>1, <3>2
    <2>5. S \in SUBSET Server /\ Holders(log, a[1]) \in SUBSET S
        BY <2>4
    <2> QED BY <2>2, <2>5, LargerQuorum DEF OnQuorum
<1> QED BY <1>1, <1>2, IndexInvInit, IndexInvNext, ElectionInvInit, ElectionInvNext, LogInvInit, LogInvNext,
           MatchInvInit, MatchInvNext, QuorumInvInit, QuorumInvNext, ServiceInvInit, ServiceInvNext, PTL DEF Spec

-----------------------------------------------------------------------------
(* An acknowledgement is never taken back.  What can still answer a user is  *)
(* a ticket for its command: the forwarded request, the answer to it, or the *)
(* request that a leader holds.  A command has at most one.                  *)

Forwarding(msgs) == {m \in msgs : m.kind \in {"Forward", "ForwardAnswer"}}
HeldTicket(i, k, c) == [kind |-> "Held", at |-> i, idx |-> k, cmd |-> c]
HeldTickets(lgs, flights) == UNION {{HeldTicket(i, k, lgs[i][k].cmd) : k \in flights[i]} : i \in Server}
Tickets(msgs, lgs, flights) == Forwarding(msgs) \cup HeldTickets(lgs, flights)

\* Only a forwarded command has an answer under way, and its user still waits;
\* a leader that holds its own user's command has not acknowledged it.
Backed(t, out) ==
    /\ t.cmd \in Cmd /\ out[t.cmd] # "new"
    /\ t.kind = "Forward" => t.from = origin[t.cmd] /\ t.to # origin[t.cmd]
    /\ t.kind = "ForwardAnswer" => t.to = origin[t.cmd] /\ out[t.cmd] = "pending"
    /\ t.kind = "Held" /\ t.at = origin[t.cmd] => out[t.cmd] # "ack"

TicketsFit(T, out) ==
    /\ \A s, t \in T : s.cmd = t.cmd => s = t
    /\ \A t \in T : Backed(t, out)

TicketInv ==
    /\ TicketsFit(Tickets(rpcs, log, in_flight_client_requests), outcome)
    /\ \A l \in links : \A i \in Server : l # {i}

LEMMA HeldCases ==
    ASSUME NEW lgs, NEW flights, NEW t
    PROVE  t \in HeldTickets(lgs, flights) <=>
               \E i \in Server : \E k \in flights[i] : t = HeldTicket(i, k, lgs[i][k].cmd)
BY DEF HeldTickets

LEMMA TicketsTyped ==
    ASSUME IndexInv, NEW t \in Tickets(rpcs, log, in_flight_client_requests)
    PROVE  t.cmd \in Cmd /\ t.kind \in {"Forward", "ForwardAnswer", "Held"}
<1>1. CASE t \in Forwarding(rpcs)
    BY <1>1, MessageKinds DEF Forwarding, IndexInv, TypeOK, ForwardRequest, ForwardAnswer
<1>2. CASE t \in HeldTickets(log, in_flight_client_requests)
    <2>1. PICK i \in Server : \E k \in in_flight_client_requests[i] : t = HeldTicket(i, k, log[i][k].cmd)
        BY <1>2, HeldCases
    <2>4. PICK k \in in_flight_client_requests[i] : t = HeldTicket(i, k, log[i][k].cmd)
        BY <2>1
    <2>2. log[i] \in Seq(Entry) /\ k \in 1 .. Len(log[i])
        BY DEF IndexInv, TypeOK, WaitingWithinLog
    <2>3. log[i][k] \in Entry
        BY <2>2, ElementOfSeq
    <2> QED BY <2>3, <2>4 DEF HeldTicket, Entry
<1> QED BY <1>1, <1>2 DEF Tickets

\* A ticket is replaced, or given for a command that has none.
LEMMA ReplacedTickets ==
    ASSUME NEW T, NEW out, TicketsFit(T, out), NEW T2, NEW out2,
           \A t \in T2 : t \in T \/ \A s \in T : s.cmd = t.cmd => s \notin T2,
           \A s, t \in T2 : s \notin T /\ t \notin T /\ s.cmd = t.cmd => s = t,
           \A t \in T2 : Backed(t, out2)
    PROVE  TicketsFit(T2, out2)
BY DEF TicketsFit

\* No ticket is given, and no user with a ticket learns more than that its
\* request is lost.
LEMMA FewerTickets ==
    ASSUME NEW T, NEW out, TicketsFit(T, out), NEW T2 \in SUBSET T, NEW out2,
           \A t \in T2 : \/ out2[t.cmd] = out[t.cmd]
                         \/ t.kind # "ForwardAnswer" /\ out2[t.cmd] = "unavailable"
    PROVE  TicketsFit(T2, out2)
BY DEF TicketsFit, Backed

\* A command that has no ticket is given one.
LEMMA OneMoreTicket ==
    ASSUME NEW T, NEW out, TicketsFit(T, out), NEW new, \A t \in T : t.cmd # new.cmd, Backed(new, out)
    PROVE  TicketsFit(T \cup {new}, out)
BY DEF TicketsFit

\* The callers of cmds are answered by i, the others are not.
Answered(i, cmds, out, msgs) ==
    LET answers == rpcs' \ msgs IN
    /\ \A c \in Cmd : \/ outcome'[c] = out[c]
                      \/ c \in cmds /\ origin[c] = i /\ outcome'[c] \in {"ack", "unavailable"}
    /\ \A a, b \in answers : a.cmd = b.cmd => a = b
    /\ \A a \in answers : /\ a.kind = "ForwardAnswer" /\ a.cmd \in cmds /\ a.to = origin[a.cmd]
                          /\ origin[a.cmd] # i /\ out[a.cmd] = "pending"

LEMMA ClientsAnswered ==
    ASSUME NEW i, NEW cmds, NEW out, NEW msgs
    PROVE  /\ AnswerClients(i, cmds, TRUE, out, msgs) => Answered(i, cmds, out, msgs)
           /\ AnswerClients(i, cmds, FALSE, out, msgs) =>
                  Answered(i, cmds, out, msgs) /\ \A c \in Cmd : outcome'[c] = "ack" => out[c] = "ack"
<1>1. ASSUME NEW ack, AnswerClients(i, cmds, ack, out, msgs) PROVE Answered(i, cmds, out, msgs)
    <2> DEFINE answers == {[kind |-> "ForwardAnswer", from |-> i, to |-> origin[c], cmd |-> c, ack |-> ack] :
                               c \in {d \in cmds : origin[d] # i /\ out[d] = "pending"}}
    <2>1. /\ outcome' = [c \in Cmd |-> IF c \in cmds /\ origin[c] = i THEN IF ack THEN "ack" ELSE "unavailable"
                                       ELSE out[c]]
          /\ rpcs' = msgs \cup answers
        BY <1>1 DEF AnswerClients
    <2>2. \A a \in answers : /\ a.kind = "ForwardAnswer" /\ a.cmd \in cmds /\ a.to = origin[a.cmd]
                             /\ origin[a.cmd] # i /\ out[a.cmd] = "pending"
                             /\ a = [kind |-> "ForwardAnswer", from |-> i, to |-> origin[a.cmd], cmd |-> a.cmd, ack |-> ack]
        OBVIOUS
    <2> HIDE DEF answers
    <2> QED BY <2>1, <2>2 DEF Answered
<1>2. ASSUME AnswerClients(i, cmds, FALSE, out, msgs)
      PROVE  \A c \in Cmd : outcome'[c] = "ack" => out[c] = "ack"
    BY <1>2 DEF AnswerClients
<1>3. AnswerClients(i, cmds, TRUE, out, msgs) => Answered(i, cmds, out, msgs)
    <2> DEFINE yes == TRUE
    <2> HIDE DEF yes
    <2>1. AnswerClients(i, cmds, yes, out, msgs) => Answered(i, cmds, out, msgs)
        BY <1>1
    <2> QED BY <2>1 DEF yes
<1>4. AnswerClients(i, cmds, FALSE, out, msgs) => Answered(i, cmds, out, msgs)
    <2> DEFINE no == FALSE
    <2> HIDE DEF no
    <2>1. AnswerClients(i, cmds, no, out, msgs) => Answered(i, cmds, out, msgs)
        BY <1>1
    <2> QED BY <2>1 DEF no
<1> QED BY <1>2, <1>3, <1>4

\* The callers of some of the requests that a leader holds are answered.
LEMMA AnsweredTickets ==
    ASSUME NEW i \in Server, NEW lgs, NEW flights, NEW S \in SUBSET flights[i], NEW out, NEW msgs,
           Answered(i, Waiting(lgs[i], S), out, msgs),
           TicketsFit(Tickets(msgs, lgs, flights), out),
           in_flight_client_requests'[i] = flights[i] \ S,
           \A j \in Server : j # i => in_flight_client_requests'[j] = flights[j],
           \A j \in Server : \A k \in in_flight_client_requests'[j] : log'[j][k] = lgs[j][k]
    PROVE  /\ TicketsFit(Tickets(rpcs', log', in_flight_client_requests'), outcome')
           /\ \A c \in Cmd : out[c] = "ack" => outcome'[c] = "ack"
<1> DEFINE T == Tickets(msgs, lgs, flights)
           T2 == Tickets(rpcs', log', in_flight_client_requests')
           cmds == Waiting(lgs[i], S)
           answers == rpcs' \ msgs
<1>1. /\ \A c \in Cmd : \/ outcome'[c] = out[c]
                        \/ c \in cmds /\ origin[c] = i /\ outcome'[c] \in {"ack", "unavailable"}
      /\ \A a, b \in answers : a.cmd = b.cmd => a = b
    BY DEF Answered
<1>2. ASSUME NEW c \in cmds
      PROVE  \E g \in T : /\ g.cmd = c /\ g.kind = "Held" /\ g.at = i /\ g \notin T2
    <2>1. PICK k \in S : c = lgs[i][k].cmd
        BY DEF Waiting
    <2> DEFINE g == HeldTicket(i, k, c)
    <2>2. g \in T
        <3>1. g \in HeldTickets(lgs, flights)
            BY <2>1, HeldCases
        <3> QED BY <3>1 DEF Tickets
    <2>3. g.cmd = c /\ g.kind = "Held" /\ g.at = i /\ g.idx = k
        BY DEF HeldTicket
    <2>4. g \notin T2
        <3>1. g \notin Forwarding(rpcs')
            BY <2>3 DEF Forwarding
        <3>2. ASSUME NEW j \in Server, NEW n \in in_flight_client_requests'[j], g = HeldTicket(j, n, log'[j][n].cmd)
              PROVE  FALSE
            <4>1. j = i /\ n = k
                BY <2>3, <3>2 DEF HeldTicket
            <4> QED BY <2>1, <4>1
        <3> QED BY <3>1, <3>2, HeldCases DEF Tickets
    <2> HIDE DEF g, T, T2
    <2> QED BY <2>2, <2>3, <2>4
<1>3. \A a \in answers : /\ a.kind = "ForwardAnswer" /\ a.cmd \in cmds /\ a.to = origin[a.cmd]
                         /\ origin[a.cmd] # i /\ out[a.cmd] = "pending"
    BY DEF Answered
<1>0. rpcs' \subseteq msgs \cup answers
    OBVIOUS
<1> HIDE DEF answers, cmds
<1>4. ASSUME NEW t \in T2 PROVE t \in T \/ t \in answers
    <2>1. CASE t \in Forwarding(rpcs')
        BY <1>0, <2>1 DEF Forwarding, Tickets
    <2>2. CASE t \in HeldTickets(log', in_flight_client_requests')
        <3>1. PICK j \in Server : \E k \in in_flight_client_requests'[j] : t = HeldTicket(j, k, log'[j][k].cmd)
            BY <2>2, HeldCases
        <3>4. PICK k \in in_flight_client_requests'[j] : t = HeldTicket(j, k, log'[j][k].cmd)
            BY <3>1
        <3>2. k \in flights[j] /\ t = HeldTicket(j, k, lgs[j][k].cmd)
            BY <3>4
        <3>3. t \in HeldTickets(lgs, flights)
            BY <3>2, HeldCases
        <3> QED BY <3>3 DEF Tickets
    <2> QED BY <2>1, <2>2 DEF Tickets
<1> HIDE DEF T, T2
<1>5. \A s, t \in T : s.cmd = t.cmd => s = t
    BY DEF TicketsFit, T
<1>6. \A t \in T2 : t \in T => t.cmd \notin cmds
    BY <1>2, <1>5
<1>7. \A t \in T2 : t \in T \/ \A s \in T : s.cmd = t.cmd => s \notin T2
    <2> SUFFICES ASSUME NEW t \in T2, t \notin T, NEW s \in T, s.cmd = t.cmd PROVE s \notin T2
        OBVIOUS
    <2>1. t.cmd \in cmds
        BY <1>3, <1>4
    <2>2. PICK g \in T : g.cmd = t.cmd /\ g \notin T2
        BY <1>2, <2>1
    <2> QED BY <1>5, <2>2
<1>8. \A s, t \in T2 : s \notin T /\ t \notin T /\ s.cmd = t.cmd => s = t
    BY <1>1, <1>4
<1>9. \A c \in Cmd : out[c] = "ack" => outcome'[c] = "ack"
    <2> SUFFICES ASSUME NEW c \in Cmd, out[c] = "ack" PROVE outcome'[c] = "ack"
        OBVIOUS
    <2>1. CASE c \in cmds /\ origin[c] = i
        <3>1. PICK g \in T : g.cmd = c /\ g.kind = "Held" /\ g.at = i
            BY <1>2, <2>1
        <3> QED BY <2>1, <3>1 DEF TicketsFit, Backed, T
    <2>2. CASE ~(c \in cmds /\ origin[c] = i)
        BY <1>1, <2>2
    <2> QED BY <2>1, <2>2
<1>10. ASSUME NEW t \in T2 PROVE Backed(t, outcome')
    <2>1. CASE t \in T
        <3>1. Backed(t, out) /\ t.cmd \notin cmds
            BY <1>6, <2>1 DEF TicketsFit, T
        <3>2. outcome'[t.cmd] = out[t.cmd]
            BY <1>1, <3>1 DEF Backed
        <3> QED BY <3>1, <3>2 DEF Backed
    <2>2. CASE t \in answers
        <3>1. t.kind = "ForwardAnswer" /\ t.cmd \in cmds /\ t.to = origin[t.cmd] /\ origin[t.cmd] # i /\ out[t.cmd] = "pending"
            BY <1>3, <2>2
        <3>2. PICK g \in T : g.cmd = t.cmd
            BY <1>2, <3>1
        <3>3. t.cmd \in Cmd
            BY <3>2 DEF TicketsFit, Backed, T
        <3>4. outcome'[t.cmd] = "pending"
            BY <1>1, <3>1, <3>3
        <3> QED BY <3>1, <3>3, <3>4 DEF Backed
    <2> QED BY <1>4, <2>1, <2>2
<1>11. TicketsFit(T, out)
    BY DEF T
<1>12. TicketsFit(T2, outcome')
    BY <1>7, <1>8, <1>10, <1>11, ReplacedTickets
<1> QED BY <1>9, <1>12 DEF T2

-----------------------------------------------------------------------------
(* The parts of a step that handlers share *)

LEMMA SameForwarding ==
    ASSUME NEW msgs, NEW msgs2,
           \A m : m.kind = "Forward" \/ m.kind = "ForwardAnswer" => (m \in msgs <=> m \in msgs2)
    PROVE  Forwarding(msgs) = Forwarding(msgs2)
BY DEF Forwarding

LEMMA AbandonForwarding ==
    ASSUME NEW i \in Server, NEW msgs \in SUBSET Message
    PROVE  /\ Forwarding(Abandon(i, msgs)) = Forwarding(msgs)
           /\ \A m : m.kind = "Forward" \/ m.kind = "ForwardAnswer" => (m \in Abandon(i, msgs) <=> m \in msgs)
<1>1. ASSUME NEW m, m.kind = "Forward" \/ m.kind = "ForwardAnswer", m \in msgs PROVE m \in Abandon(i, msgs)
    BY <1>1 DEF Abandon
<1>2. ASSUME NEW m, m.kind = "Forward" \/ m.kind = "ForwardAnswer", m \in Abandon(i, msgs) PROVE m \in msgs
    BY <1>2, AbandonFacts
<1> QED BY <1>1, <1>2, SameForwarding

\* What a user learns is not taken back, ...
AcksStand(out) == \A c \in Cmd : out[c] = "ack" => outcome'[c] = "ack"
\* ... and there is no news of a success.
NoNewAcks(out) == \A c \in Cmd : outcome'[c] = "ack" => out[c] = "ack"

\* Requests that a role leaves behind are refused.
LEMMA LeaveRoleTickets ==
    ASSUME NEW i \in Server, NEW newRole, NEW out, NEW inFlight, NEW msgs \in SUBSET Message, NEW lgs,
           NEW flights, flights[i] = inFlight, TypeOK,
           \A j \in Server \ {i} : flights[j] = in_flight_client_requests[j],
           \A j \in Server \ {i} : log'[j] = lgs[j],
           TicketsFit(Tickets(msgs, lgs, flights), out),
           LeaveRole(i, newRole, out, lgs[i], inFlight, msgs)
    PROVE  /\ TicketsFit(Tickets(rpcs', log', in_flight_client_requests'), outcome')
           /\ AcksStand(out) /\ NoNewAcks(out)
<1>1. /\ in_flight_client_requests' = [in_flight_client_requests EXCEPT ![i] = {}]
      /\ AnswerClients(i, Waiting(lgs[i], flights[i]), FALSE, out, Abandon(i, msgs))
    BY DEF LeaveRole
<1>2. Tickets(Abandon(i, msgs), lgs, flights) = Tickets(msgs, lgs, flights)
    BY AbandonForwarding DEF Tickets
<1>3. /\ in_flight_client_requests'[i] = flights[i] \ flights[i]
      /\ \A j \in Server : j # i => in_flight_client_requests'[j] = flights[j]
    BY <1>1 DEF TypeOK
<1>4. \A j \in Server : \A k \in in_flight_client_requests'[j] : log'[j][k] = lgs[j][k]
    BY <1>3
<1> DEFINE left == Abandon(i, msgs)
           S == flights[i]
<1>5. /\ S \in SUBSET flights[i] /\ TicketsFit(Tickets(left, lgs, flights), out)
      /\ Answered(i, Waiting(lgs[i], S), out, left)
      /\ in_flight_client_requests'[i] = flights[i] \ S
    BY <1>1, <1>2, <1>3, ClientsAnswered
<1> HIDE DEF left, S
<1>6. /\ TicketsFit(Tickets(rpcs', log', in_flight_client_requests'), outcome')
      /\ \A c \in Cmd : out[c] = "ack" => outcome'[c] = "ack"
    BY <1>3, <1>4, <1>5, AnsweredTickets
<1>7. NoNewAcks(out)
    BY <1>1, ClientsAnswered DEF NoNewAcks
<1> QED BY <1>6, <1>7 DEF AcksStand

\* Requests that are committed are acknowledged.
LEMMA LeaderLoopTopTickets ==
    ASSUME NEW i \in Server, NEW match, NEW inFlight, NEW out, NEW msgs, NEW flights,
           flights[i] = inFlight, TypeOK,
           \A j \in Server \ {i} : flights[j] = in_flight_client_requests[j],
           TicketsFit(Tickets(msgs, log', flights), out),
           LeaderLoopTop(i, log'[i], match, inFlight, out, msgs)
    PROVE  /\ TicketsFit(Tickets(rpcs', log', in_flight_client_requests'), outcome')
           /\ AcksStand(out)
           /\ \E n \in commit_index[i] .. Len(log'[i]) : ApplyLog(i, log'[i], n)
<1>1. PICK n :
          /\ n \in commit_index[i] .. Len(log'[i])
          /\ ApplyLog(i, log'[i], n)
          /\ in_flight_client_requests' =
                 [in_flight_client_requests EXCEPT ![i] = inFlight \ Acknowledged(inFlight, n)]
          /\ AnswerClients(i, Waiting(log'[i], Acknowledged(inFlight, n)), TRUE, out, msgs)
    BY DEF LeaderLoopTop
<1>4. PICK lgs : lgs = log'
    OBVIOUS
<1> DEFINE S == Acknowledged(inFlight, n)
<1>2. /\ S \in SUBSET flights[i] /\ TicketsFit(Tickets(msgs, lgs, flights), out)
      /\ Answered(i, Waiting(lgs[i], S), out, msgs)
      /\ in_flight_client_requests'[i] = flights[i] \ S
      /\ \A j \in Server : j # i => in_flight_client_requests'[j] = flights[j]
      /\ \A j \in Server : \A k \in in_flight_client_requests'[j] : log'[j][k] = lgs[j][k]
    BY <1>1, <1>4, ClientsAnswered DEF TypeOK, Acknowledged
<1> HIDE DEF S
<1>3. /\ TicketsFit(Tickets(rpcs', log', in_flight_client_requests'), outcome')
      /\ \A c \in Cmd : out[c] = "ack" => outcome'[c] = "ack"
    BY <1>2, AnsweredTickets
<1> QED BY <1>1, <1>3 DEF AcksStand

\* What a step does to the state machines.
Reset(i) == last_applied' = [last_applied EXCEPT ![i] = 0] /\ UNCHANGED applied
Applies(i) == \E n \in Nat : ApplyLog(i, log'[i], n)

LEMMA ReplicateTickets ==
    ASSUME NEW i \in Server, NEW peers, NEW next, NEW inFlight, NEW inFlightPeers, NEW out,
           NEW msgs \in SUBSET Message, NEW flights, flights[i] = inFlight, TypeOK,
           log'[i] \in Seq(Entry), \A p \in Server : next[p] >= 1 => AppendEntriesTo(i, p, log'[i], next) \in Message,
           peers \subseteq Server,
           \A j \in Server \ {i} : flights[j] = in_flight_client_requests[j],
           TicketsFit(Tickets(msgs, log', flights), out),
           Replicate(i, peers, log'[i], next, inFlight, inFlightPeers, out, msgs)
    PROVE  /\ TicketsFit(Tickets(rpcs', log', in_flight_client_requests'), outcome')
           /\ AcksStand(out)
           /\ Applies(i) \/ (Reset(i) /\ NoNewAcks(out))
<1> DEFINE targets == Targets(i, peers, inFlightPeers)
           lg == log'[i]
<1>1. targets \subseteq Server
    BY DEF Targets
<1>2. ASSUME NEW sent \in SUBSET targets
      PROVE  Tickets(msgs \cup Calls(i, sent, lg, next), log', flights) = Tickets(msgs, log', flights)
    <2>1. \A m \in Calls(i, sent, lg, next) : m.kind = "AppendEntries"
        BY DEF Calls, AppendEntriesTo
    <2>2. Forwarding(msgs \cup Calls(i, sent, lg, next)) = Forwarding(msgs)
        BY <2>1, SameForwarding
    <2> QED BY <2>2 DEF Tickets
<1>3. CASE Underflows(targets, next)
    <2>1. PICK sent \in SUBSET {p \in targets : next[p] >= 1} :
              Stop(i, "UnderflowPanic", out, lg, inFlight, msgs \cup Calls(i, sent, lg, next))
        BY <1>3 DEF Replicate, PanicInAppendEntries
    <2> DEFINE all == msgs \cup Calls(i, sent, lg, next)
               lgs == log'
    <2>2. /\ LeaveRole(i, "UnderflowPanic", out, lgs[i], inFlight, all)
          /\ Reset(i)
        BY <2>1 DEF Stop, Reset
    <2>3. all \in SUBSET Message
        BY <1>1 DEF Calls
    <2>4. sent \in SUBSET targets
        OBVIOUS
    <2>5. TicketsFit(Tickets(all, lgs, flights), out)
        BY <1>2, <2>4
    <2>6. \A j \in Server \ {i} : log'[j] = lgs[j]
        OBVIOUS
    <2> HIDE DEF all, lgs, lg
    <2> QED BY <2>2, <2>3, <2>5, <2>6, LeaveRoleTickets
<1>4. CASE ~Underflows(targets, next)
    <2> DEFINE all == msgs \cup Calls(i, targets, lg, next)
    <2>1. LeaderLoopTop(i, log'[i], match_indices[i], inFlight, out, all)
        BY <1>4 DEF Replicate
    <2>2. TicketsFit(Tickets(all, log', flights), out)
        BY <1>2
    <2> HIDE DEF all, lg, targets
    <2>5. flights[i] = inFlight /\ TypeOK
        OBVIOUS
    <2>3. /\ TicketsFit(Tickets(rpcs', log', in_flight_client_requests'), outcome')
          /\ AcksStand(out)
          /\ \E n \in commit_index[i] .. Len(log'[i]) : ApplyLog(i, log'[i], n)
        BY <2>1, <2>2, <2>5, LeaderLoopTopTickets
    <2>4. Applies(i)
        <3>1. commit_index[i] \in Nat
            BY DEF TypeOK
        <3>2. Len(log'[i]) \in Nat
            BY LenProperties
        <3> QED BY <2>3, <3>1, <3>2 DEF Applies
    <2> QED BY <2>3, <2>4
<1> QED BY <1>3, <1>4

-----------------------------------------------------------------------------
(* Every action keeps the tickets, takes no acknowledgement back, and does   *)
(* one thing to one state machine at most.                                   *)

Serves ==
    /\ TicketInv'
    /\ AcksStand(outcome)
    /\ \/ UNCHANGED <<last_applied, applied>>
       \/ \E i \in Server : Applies(i) \/ (Reset(i) /\ NoNewAcks(outcome))

\* No window has a connection to itself.
NoSelfLink(lks) == \A l \in lks : \A i \in Server : l # {i}

LEMMA TicketsKept ==
    ASSUME UNCHANGED origin, TicketsFit(Tickets(rpcs', log', in_flight_client_requests'), outcome'),
           NoSelfLink(links')
    PROVE  TicketInv'
BY DEF TicketInv, TicketsFit, Backed, NoSelfLink

\* A handler that answers no user and takes no client request.
LEMMA SameTickets ==
    ASSUME TicketInv, UNCHANGED <<origin, outcome, in_flight_client_requests>>, NoSelfLink(links'),
           Forwarding(rpcs') = Forwarding(rpcs),
           \A j \in Server : \A k \in in_flight_client_requests[j] : log'[j][k] = log[j][k]
    PROVE  TicketInv' /\ AcksStand(outcome)
<1>1. HeldTickets(log', in_flight_client_requests') = HeldTickets(log, in_flight_client_requests)
    <2>1. ASSUME NEW t \in HeldTickets(log', in_flight_client_requests')
          PROVE  t \in HeldTickets(log, in_flight_client_requests)
        <3>1. PICK j \in Server : \E k \in in_flight_client_requests'[j] : t = HeldTicket(j, k, log'[j][k].cmd)
            BY <2>1, HeldCases
        <3>2. \E k \in in_flight_client_requests[j] : t = HeldTicket(j, k, log[j][k].cmd)
            BY <3>1
        <3> QED BY <3>2, HeldCases
    <2>2. ASSUME NEW t \in HeldTickets(log, in_flight_client_requests)
          PROVE  t \in HeldTickets(log', in_flight_client_requests')
        <3>1. PICK j \in Server : \E k \in in_flight_client_requests[j] : t = HeldTicket(j, k, log[j][k].cmd)
            BY <2>2, HeldCases
        <3>2. \E k \in in_flight_client_requests'[j] : t = HeldTicket(j, k, log'[j][k].cmd)
            BY <3>1
        <3> QED BY <3>2, HeldCases
    <2> QED BY <2>1, <2>2
<1>2. Tickets(rpcs', log', in_flight_client_requests') = Tickets(rpcs, log, in_flight_client_requests)
    BY <1>1 DEF Tickets
<1>3. TicketsFit(Tickets(rpcs', log', in_flight_client_requests'), outcome')
    BY <1>2 DEF TicketInv
<1> QED BY <1>3, TicketsKept DEF AcksStand

LEMMA Unlinked == TicketInv => NoSelfLink(links) /\ \A lks \in SUBSET links : NoSelfLink(lks)
BY DEF TicketInv, NoSelfLink

\* A role that ends with the requests it held.
LEMMA BecomeFollowerTickets ==
    ASSUME IndexInv, TicketInv, NEW i \in Server, NEW newRole, NEW msgs \in SUBSET Message,
           Forwarding(msgs) = Forwarding(rpcs),
           \A j \in Server \ {i} : log'[j] = log[j], UNCHANGED <<origin, links>>,
           LeaveRole(i, newRole, outcome, log[i], in_flight_client_requests[i], msgs)
    PROVE  TicketInv' /\ AcksStand(outcome) /\ NoNewAcks(outcome)
<1>1. TicketsFit(Tickets(msgs, log, in_flight_client_requests), outcome)
    BY DEF TicketInv, Tickets
<1>2. TypeOK
    BY DEF IndexInv
<1>3. /\ TicketsFit(Tickets(rpcs', log', in_flight_client_requests'), outcome')
      /\ AcksStand(outcome) /\ NoNewAcks(outcome)
    BY <1>1, <1>2, LeaveRoleTickets
<1>4. NoSelfLink(links')
    BY Unlinked
<1> QED BY <1>3, <1>4, TicketsKept

\* The actions that only exchange messages of other kinds, or change links.
LEMMA ExchangeServes ==
    ASSUME TicketInv, UNCHANGED <<origin, outcome, in_flight_client_requests, log, last_applied, applied>>,
           Forwarding(rpcs') = Forwarding(rpcs), NoSelfLink(links')
    PROVE  Serves
<1>1. TicketInv' /\ AcksStand(outcome)
    BY SameTickets
<1> QED BY <1>1 DEF Serves

LEMMA ElectionTimeoutServes ==
    ASSUME IndexInv, TicketInv, NEW i \in Server, ElectionTimeout(i)
    PROVE  Serves
<1> DEFINE targets == {q \in Peers(i) : {i, q} \in links}
           calls == {[kind |-> "RequestVote", from |-> i, to |-> p, term |-> current_term[i] + 1,
                      last_log_index |-> Len(log[i]), live |-> TRUE] : p \in targets}
<1>1. /\ rpcs' = Abandon(i, rpcs) \cup calls
      /\ UNCHANGED <<origin, outcome, in_flight_client_requests, log, last_applied, applied, links>>
    BY DEF ElectionTimeout, applyVars, leaderVars, userVars
<1> HIDE DEF targets
<1>2. \A m \in calls : m.kind = "RequestVote"
    OBVIOUS
<1> HIDE DEF calls
<1>3. Forwarding(rpcs') = Forwarding(rpcs)
    <2>1. rpcs \in SUBSET Message
        BY DEF IndexInv, TypeOK
    <2>2. \A m : m.kind = "Forward" \/ m.kind = "ForwardAnswer" => (m \in Abandon(i, rpcs) <=> m \in rpcs)
        BY <2>1, AbandonForwarding
    <2> QED BY <1>1, <1>2, <2>2, SameForwarding
<1>4. NoSelfLink(links')
    BY <1>1, Unlinked
<1> QED BY <1>1, <1>3, <1>4, ExchangeServes

LEMMA ReceiveRequestVoteServes ==
    ASSUME IndexInv, TicketInv, NEW m \in rpcs, ReceiveRequestVote(m)
    PROVE  Serves
<1> DEFINE i == m.to
           newTerm == m.term > current_term[i]
           vote == IF newTerm THEN None ELSE voted_for[i]
           granted == (role[i] = "Leader" => newTerm) /\ VoteGrantedTo(m, i, vote)
           reply == IF granted /\ m.live
                    THEN {[kind |-> "VoteGranted", from |-> i, to |-> m.from, term |-> m.term]} ELSE {}
           msgs == (rpcs \ {m}) \cup reply
<1>1. /\ m.kind = "RequestVote" /\ i \in Server /\ m.from \in Server /\ m.term \in Nat /\ rpcs \in SUBSET Message
    BY MessageKinds DEF ReceiveRequestVote, IndexInv, TypeOK, RequestVoteRequest, Term
<1>2. /\ IF newTerm THEN BecomeFollower(i, msgs) ELSE StayInRole(msgs)
      /\ UNCHANGED <<log, last_applied, applied, links, origin>>
    BY DEF ReceiveRequestVote, applyVars
<1>3. \A x \in reply : x.kind = "VoteGranted" /\ x \in Message
    BY <1>1 DEF Message, VoteGranted, Term
<1> HIDE DEF reply, newTerm
<1>4. Forwarding(msgs) = Forwarding(rpcs) /\ msgs \in SUBSET Message
    BY <1>1, <1>3, SameForwarding
<1> HIDE DEF msgs, i
<1>5. CASE newTerm
    <2>1. LeaveRole(i, "Follower", outcome, log[i], in_flight_client_requests[i], msgs)
        BY <1>2, <1>5 DEF BecomeFollower
    <2>2. TicketInv' /\ AcksStand(outcome)
        BY <1>1, <1>2, <1>4, <2>1, BecomeFollowerTickets
    <2> QED BY <1>2, <2>2 DEF Serves
<1>6. CASE ~newTerm
    <2>1. rpcs' = msgs /\ UNCHANGED <<in_flight_client_requests, outcome>>
        BY <1>2, <1>6 DEF StayInRole, leaderVars
    <2>2. NoSelfLink(links')
        BY <1>2, Unlinked
    <2> QED BY <1>2, <1>4, <2>1, <2>2, ExchangeServes
<1> QED BY <1>5, <1>6

LEMMA ReceiveVoteServes ==
    ASSUME IndexInv, TicketInv, NEW m \in rpcs, ReceiveVote(m)
    PROVE  Serves
<1>1. /\ m.kind = "VoteGranted" /\ m.to \in Server /\ rpcs \in SUBSET Message
      /\ rpcs' = Abandon(m.to, rpcs) \/ rpcs' = rpcs \ {m}
      /\ UNCHANGED <<origin, outcome, in_flight_client_requests, log, last_applied, applied, links>>
    BY MessageKinds DEF ReceiveVote, persistentVars, applyVars, userVars, IndexInv, TypeOK
<1>2. Forwarding(rpcs') = Forwarding(rpcs)
    BY <1>1, AbandonForwarding, SameForwarding
<1>3. NoSelfLink(links')
    BY <1>1, Unlinked
<1> QED BY <1>1, <1>2, <1>3, ExchangeServes

LEMMA AppendEntriesFailedServes ==
    ASSUME IndexInv, TicketInv, NEW m \in rpcs, AppendEntriesFailed(m)
    PROVE  Serves
<1>1. /\ m.kind # "Forward" /\ m.kind # "ForwardAnswer" /\ rpcs' = rpcs \ {m}
      /\ UNCHANGED <<origin, outcome, in_flight_client_requests, log, last_applied, applied, links>>
    BY DEF AppendEntriesFailed, persistentVars, applyVars, userVars
<1>2. Forwarding(rpcs') = Forwarding(rpcs)
    BY <1>1, SameForwarding
<1>3. NoSelfLink(links')
    BY <1>1, Unlinked
<1> QED BY <1>1, <1>2, <1>3, ExchangeServes

LEMMA AppendEntriesNewTermServes ==
    ASSUME IndexInv, TicketInv, NEW m \in rpcs, AppendEntriesNewTerm(m)
    PROVE  Serves
<1> DEFINE msgs == rpcs \ {m}
           i == m.to
<1>1. /\ m.kind = "AppendEntriesAnswer" /\ i \in Server /\ msgs \in SUBSET Message
      /\ LeaveRole(i, "Follower", outcome, log[i], in_flight_client_requests[i], msgs)
      /\ UNCHANGED <<log, last_applied, applied, links, origin>>
    BY MessageKinds DEF AppendEntriesNewTerm, BecomeFollower, applyVars, IndexInv, TypeOK
<1>2. Forwarding(msgs) = Forwarding(rpcs)
    BY <1>1, SameForwarding
<1> HIDE DEF msgs, i
<1>3. TicketInv' /\ AcksStand(outcome)
    BY <1>1, <1>2, BecomeFollowerTickets
<1> QED BY <1>1, <1>3 DEF Serves

LEMMA ReplicateServes ==
    ASSUME IndexInv, TicketInv, NEW i \in Server, NEW lg, LogStep(i, lg),
           NEW peers \in SUBSET Server, NEW next \in [Server -> Int],
           \A p \in Server : next[p] <= Len(lg) + 1,
           NEW inFlight, NEW inFlightPeers, NEW out, NEW msgs \in SUBSET Message,
           NEW flights, flights[i] = inFlight,
           \A j \in Server \ {i} : flights[j] = in_flight_client_requests[j],
           TicketsFit(Tickets(msgs, log', flights), out),
           \A c \in Cmd : outcome[c] = "ack" <=> out[c] = "ack", UNCHANGED <<origin, links>>,
           Replicate(i, peers, lg, next, inFlight, inFlightPeers, out, msgs)
    PROVE  Serves
<1>1. log'[i] = lg /\ lg \in Seq(Entry) /\ TypeOK
    BY LogStepFacts DEF LogStep, IndexInv
<1>2. \A p \in Server : next[p] >= 1 => AppendEntriesTo(i, p, lg, next) \in Message
    BY CallsCredible DEF Credible
<1>3. Replicate(i, peers, log'[i], next, inFlight, inFlightPeers, out, msgs)
    BY <1>1
<1>4. /\ TicketsFit(Tickets(rpcs', log', in_flight_client_requests'), outcome')
      /\ AcksStand(out)
      /\ Applies(i) \/ (Reset(i) /\ NoNewAcks(out))
    BY <1>1, <1>2, <1>3, ReplicateTickets
<1>5. TicketInv'
    BY <1>4, Unlinked, TicketsKept
<1>6. AcksStand(outcome) /\ (NoNewAcks(out) => NoNewAcks(outcome))
    BY <1>4 DEF AcksStand, NoNewAcks
<1> QED BY <1>4, <1>5, <1>6 DEF Serves

LEMMA HeartbeatServes ==
    ASSUME IndexInv, TicketInv, NEW i \in Server, Heartbeat(i)
    PROVE  Serves
<1>1. /\ LogStep(i, log[i]) /\ UNCHANGED <<log, origin, links>>
      /\ Replicate(i, Peers(i), log[i], next_indices[i], in_flight_client_requests[i], in_flight_peers[i],
                   outcome, rpcs)
    BY LogStays DEF Heartbeat, persistentVars, IndexInv
<1>2. /\ next_indices[i] \in [Server -> Int] /\ rpcs \in SUBSET Message
      /\ \A p \in Server : next_indices[i][p] <= Len(log[i]) + 1
    BY DEF IndexInv, TypeOK, NextWithinLog
<1>3. TicketsFit(Tickets(rpcs, log', in_flight_client_requests), outcome)
    BY <1>1 DEF TicketInv
<1>4. Peers(i) \in SUBSET Server
    BY DEF Peers
<1> QED BY <1>1, <1>2, <1>3, <1>4, ReplicateServes

LEMMA AppendEntriesRefusedServes ==
    ASSUME IndexInv, TicketInv, NEW m \in rpcs, AppendEntriesRefused(m)
    PROVE  Serves
<1> DEFINE i == m.to
           next == [next_indices[i] EXCEPT ![m.from] = Smaller(@, m.start - 1)]
           flying == in_flight_peers[i] \ {m.from}
           msgs == rpcs \ {m}
<1>1. /\ m.kind = "AppendEntriesAnswer" /\ m \in AppendEntriesAnswer /\ i \in Server /\ m.from \in Server
      /\ m.start \in Nat
    BY MessageKinds DEF AppendEntriesRefused, IndexInv, TypeOK, AppendEntriesAnswer
<1>2. /\ LogStep(i, log[i]) /\ UNCHANGED <<log, origin, links>>
      /\ Replicate(i, {m.from}, log[i], next, in_flight_client_requests[i], flying, outcome, msgs)
    BY <1>1, LogStays DEF AppendEntriesRefused, persistentVars, IndexInv
<1>3. next \in [Server -> Int] /\ \A p \in Server : next[p] <= Len(log[i]) + 1
    <2>1. /\ next_indices[i] \in [Server -> Int] /\ Len(log[i]) \in Nat
          /\ \A p \in Server : next_indices[i][p] \in Int /\ next_indices[i][p] <= Len(log[i]) + 1
        BY <1>1, LenProperties DEF IndexInv, TypeOK, NextWithinLog
    <2> QED BY <1>1, <2>1 DEF Smaller
<1>4. msgs \in SUBSET Message
    BY <1>1 DEF IndexInv, TypeOK
<1>5. TicketsFit(Tickets(msgs, log', in_flight_client_requests), outcome)
    <2>1. Forwarding(msgs) = Forwarding(rpcs)
        BY <1>1, SameForwarding
    <2> QED BY <1>2, <2>1 DEF TicketInv, Tickets
<1>6. {m.from} \in SUBSET Server
    BY <1>1
<1> HIDE DEF next, flying, msgs, i
<1> QED BY <1>1, <1>2, <1>3, <1>4, <1>5, <1>6, ReplicateServes

LEMMA AppendEntriesSucceededServes ==
    ASSUME IndexInv, TicketInv, NEW m \in rpcs, AppendEntriesSucceeded(m)
    PROVE  Serves
<1> DEFINE i == m.to
           match == [match_indices[i] EXCEPT ![m.from] = Larger(@, m.end)]
           msgs == rpcs \ {m}
<1>1. /\ m.kind = "AppendEntriesAnswer" /\ i \in Server
      /\ LeaderLoopTop(i, log[i], match, in_flight_client_requests[i], outcome, msgs)
      /\ UNCHANGED <<log, origin, links>>
    BY MessageKinds DEF AppendEntriesSucceeded, persistentVars, IndexInv, TypeOK
<1>2. TicketsFit(Tickets(msgs, log', in_flight_client_requests), outcome)
    <2>1. Forwarding(msgs) = Forwarding(rpcs)
        BY <1>1, SameForwarding
    <2> QED BY <1>1, <2>1 DEF TicketInv, Tickets
<1>3. TypeOK /\ commit_index[i] \in Nat /\ Len(log'[i]) \in Nat
    BY <1>1, LenProperties DEF IndexInv, TypeOK
<1> HIDE DEF i, match, msgs
<1>4. LeaderLoopTop(i, log'[i], match, in_flight_client_requests[i], outcome, msgs)
    BY <1>1
<1>5. /\ TicketsFit(Tickets(rpcs', log', in_flight_client_requests'), outcome')
      /\ AcksStand(outcome)
      /\ \E n \in commit_index[i] .. Len(log'[i]) : ApplyLog(i, log'[i], n)
    <2>1. TypeOK
        BY <1>3
    <2> QED BY <1>1, <1>2, <1>4, <2>1, LeaderLoopTopTickets
<1>6. Applies(i)
    BY <1>3, <1>5 DEF Applies
<1>7. TicketInv'
    BY <1>1, <1>5, Unlinked, TicketsKept
<1> QED BY <1>1, <1>5, <1>6, <1>7 DEF Serves

\* The new entry's request is a ticket, for a command that has no other.
LEMMA HandleLogUpdateServes ==
    ASSUME IndexInv, TicketInv, NEW i \in Server, NEW c \in Cmd, NEW out, NEW msgs \in SUBSET rpcs,
           TicketsFit(Tickets(msgs, log, in_flight_client_requests), out),
           \A t \in Tickets(msgs, log, in_flight_client_requests) : t.cmd # c,
           out[c] # "new", i = origin[c] => out[c] # "ack",
           \A d \in Cmd : outcome[d] = "ack" <=> out[d] = "ack",
           HandleLogUpdate(i, c, out, msgs)
    PROVE  Serves
<1> DEFINE entry == [term |-> current_term[i], cmd |-> c]
           lg == Append(log[i], entry)
           inFlight == in_flight_client_requests[i] \cup {Len(lg)}
           flights == [in_flight_client_requests EXCEPT ![i] = inFlight]
           t == HeldTicket(i, Len(lg), c)
<1>1. log[i] \in Seq(Entry) /\ entry \in Entry /\ log \in [Server -> Seq(Entry)]
    BY DEF IndexInv, TypeOK, Entry
<1>2. /\ lg \in Seq(Entry) /\ Len(lg) = Len(log[i]) + 1 /\ Len(log[i]) \in Nat
      /\ lg[Len(lg)] = entry /\ \A k \in 1 .. Len(log[i]) : lg[k] = log[i][k]
    BY <1>1, AppendProperties, LenProperties
<1>3. /\ log' = [log EXCEPT ![i] = lg] /\ UNCHANGED <<origin, links>>
      /\ Replicate(i, Peers(i), lg, next_indices[i], inFlight, in_flight_peers[i], out, msgs)
    BY DEF HandleLogUpdate
<1>4. entry.cmd = c
    OBVIOUS
<1> HIDE DEF lg, entry
<1>5. LogStep(i, lg) /\ log'[i] = lg /\ \A j \in Server \ {i} : log'[j] = log[j]
    BY <1>1, <1>2, <1>3 DEF LogStep
<1>6. /\ flights[i] = inFlight
      /\ \A j \in Server \ {i} : flights[j] = in_flight_client_requests[j]
      /\ in_flight_client_requests[i] \subseteq 1 .. Len(log[i])
    BY DEF IndexInv, TypeOK, WaitingWithinLog
<1> HIDE DEF flights
<1>7. Tickets(msgs, log', flights) \subseteq Tickets(msgs, log, in_flight_client_requests) \cup {t}
    <2> SUFFICES ASSUME NEW s \in HeldTickets(log', flights), s # t
                 PROVE  s \in HeldTickets(log, in_flight_client_requests)
        BY DEF Tickets
    <2>1. PICK j \in Server : \E k \in flights[j] : s = HeldTicket(j, k, log'[j][k].cmd)
        BY HeldCases
    <2>2. PICK k \in flights[j] : s = HeldTicket(j, k, log'[j][k].cmd)
        BY <2>1
    <2>3. CASE j = i
        <3>1. k # Len(lg)
            BY <1>2, <1>4, <1>5, <2>2, <2>3
        <3>2. k \in in_flight_client_requests[i] /\ k \in 1 .. Len(log[i])
            BY <1>6, <2>3, <3>1
        <3>3. \E n \in in_flight_client_requests[i] : s = HeldTicket(i, n, log[i][n].cmd)
            BY <1>2, <1>5, <2>2, <2>3, <3>2
        <3> QED BY <3>3, HeldCases
    <2>4. CASE j # i
        <3>1. \E n \in in_flight_client_requests[j] : s = HeldTicket(j, n, log[j][n].cmd)
            BY <1>5, <1>6, <2>2, <2>4
        <3> QED BY <3>1, HeldCases
    <2> QED BY <2>3, <2>4
<1>8. TicketsFit(Tickets(msgs, log', flights), out)
    <2>1. t.cmd = c /\ t.kind = "Held" /\ t.at = i
        BY DEF HeldTicket
    <2> HIDE DEF t
    <2>2. Backed(t, out)
        BY <2>1 DEF Backed
    <2> DEFINE T == Tickets(msgs, log, in_flight_client_requests)
    <2>3. TicketsFit(T, out) /\ \A s \in T : s.cmd # t.cmd
        BY <2>1
    <2> HIDE DEF T
    <2>4. TicketsFit(T \cup {t}, out)
        BY <2>2, <2>3, OneMoreTicket
    <2>5. Tickets(msgs, log', flights) \subseteq T \cup {t}
        BY <1>7 DEF T
    <2> QED BY <2>4, <2>5 DEF TicketsFit
<1>9. /\ next_indices[i] \in [Server -> Int] /\ msgs \in SUBSET Message
      /\ \A p \in Server : next_indices[i][p] \in Int /\ next_indices[i][p] <= Len(log[i]) + 1
    BY DEF IndexInv, TypeOK, NextWithinLog
<1>10. \A p \in Server : next_indices[i][p] <= Len(lg) + 1
    BY <1>2, <1>9
<1>11. Peers(i) \in SUBSET Server
    BY DEF Peers
<1> HIDE DEF inFlight
<1> QED BY <1>3, <1>5, <1>6, <1>8, <1>9, <1>10, <1>11, ReplicateServes

LEMMA ReceiveAppendEntriesServes ==
    ASSUME IndexInv, IndexInv', ServiceInv, TicketInv, NEW m \in rpcs, ReceiveAppendEntries(m)
    PROVE  Serves
<1> DEFINE i == m.to
           accepted == m.term >= current_term[i] /\ PrevLogMatches(log[i], m)
           lg == IF accepted THEN Merge(log[i], m.prev_log_index, m.entries) ELSE log[i]
           commit == IF accepted THEN FollowerCommit(commit_index[i], m) ELSE commit_index[i]
           answers == AnswerAppendEntries(m, Larger(current_term[i], m.term), accepted)
           msgs == (rpcs \ {m}) \cup answers
<1>1. /\ m.kind = "AppendEntries" /\ i \in Server /\ m \in AppendEntriesRequest /\ rpcs \in SUBSET Message
      /\ m.term \in Nat /\ current_term[i] \in Nat /\ Credible(m, log)
      /\ log \in [Server -> Seq(Entry)] /\ commit_index \in [Server -> Nat]
    <2>1. m.kind = "AppendEntries"
        BY DEF ReceiveAppendEntries
    <2> HIDE DEF i, accepted, lg, commit, answers, msgs
    <2>2. m \in AppendEntriesRequest /\ rpcs \in SUBSET Message /\ Credible(m, log)
        BY <2>1, MessageKinds DEF IndexInv, TypeOK, CredibleMessages
    <2>3. m.term \in Nat /\ m.to \in Server
        BY <2>2 DEF AppendEntriesRequest, Term
    <2>4. /\ log \in [Server -> Seq(Entry)] /\ commit_index \in [Server -> Nat]
          /\ current_term \in [Server -> Nat]
        BY DEF IndexInv, TypeOK, Term
    <2> QED BY <2>1, <2>2, <2>3, <2>4 DEF i
<1>2. /\ log' = [log EXCEPT ![i] = lg] /\ ApplyLog(i, lg, commit)
      /\ IF role[i] # "Follower" THEN BecomeFollower(i, msgs) ELSE StayInRole(msgs)
      /\ UNCHANGED <<links, origin>>
    BY DEF ReceiveAppendEntries
<1>3. \A x \in answers : x \in Message /\ x.kind = "AppendEntriesAnswer"
    <2>1. accepted \in BOOLEAN /\ Larger(current_term[i], m.term) \in Nat
        BY <1>1 DEF PrevLogMatches, Larger
    <2> HIDE DEF accepted
    <2> QED BY <1>1, <2>1, AnswerAppendEntriesFacts DEF Credible
<1> HIDE DEF answers, lg, commit
<1>4. Forwarding(msgs) = Forwarding(rpcs) /\ msgs \in SUBSET Message
    BY <1>1, <1>3, SameForwarding
<1>5. log'[i] = lg /\ \A j \in Server \ {i} : log'[j] = log[j]
    BY <1>1, <1>2
<1>6. Applies(i)
    <2>1. commit_index'[i] = commit /\ commit_index'[i] \in Nat
        <3>1. commit_index' = [commit_index EXCEPT ![i] = commit]
            BY <1>2 DEF ApplyLog
        <3> QED BY <1>1, <3>1 DEF IndexInv, TypeOK
    <2> QED BY <1>2, <1>5, <2>1 DEF Applies
<1> HIDE DEF msgs
<1>7. CASE role[i] # "Follower"
    <2>1. LeaveRole(i, "Follower", outcome, log[i], in_flight_client_requests[i], msgs)
        BY <1>2, <1>7 DEF BecomeFollower
    <2> HIDE DEF i
    <2>2. TicketInv' /\ AcksStand(outcome)
        BY <1>1, <1>2, <1>4, <1>5, <2>1, BecomeFollowerTickets
    <2> QED BY <1>1, <1>6, <2>2 DEF Serves
<1>8. CASE role[i] = "Follower"
    <2>1. rpcs' = msgs /\ UNCHANGED <<in_flight_client_requests, outcome>>
        BY <1>2, <1>8 DEF StayInRole, leaderVars
    <2>2. in_flight_client_requests[i] = {}
        BY <1>1, <1>8 DEF ServiceInv, IdleUnlessLeader
    <2>3. \A j \in Server : \A k \in in_flight_client_requests[j] : log'[j][k] = log[j][k]
        BY <1>5, <2>2
    <2>4. TicketInv' /\ AcksStand(outcome)
        BY <1>2, <1>4, <2>1, <2>3, Unlinked, SameTickets
    <2> QED BY <1>1, <1>6, <2>4 DEF Serves
<1> QED BY <1>7, <1>8

LEMMA RefuseAppendEntriesServes ==
    ASSUME IndexInv, TicketInv, NEW m \in rpcs, RefuseAppendEntries(m)
    PROVE  Serves
<1> DEFINE answers == AnswerAppendEntries(m, current_term[m.to], FALSE)
<1>1. /\ m.kind = "AppendEntries" /\ rpcs' = (rpcs \ {m}) \cup answers
      /\ UNCHANGED <<origin, outcome, in_flight_client_requests, log, last_applied, applied, links>>
    BY DEF RefuseAppendEntries, persistentVars, applyVars, leaderVars, userVars
<1>2. \A x \in answers : x.kind = "AppendEntriesAnswer"
    BY DEF AnswerAppendEntries
<1> HIDE DEF answers
<1>3. Forwarding(rpcs') = Forwarding(rpcs)
    BY <1>1, <1>2, SameForwarding
<1> QED BY <1>1, <1>3, Unlinked, ExchangeServes

LEMMA PanicInOverwriteLogServes ==
    ASSUME IndexInv, TicketInv, NEW m \in rpcs, PanicInOverwriteLog(m)
    PROVE  Serves
<1> DEFINE i == m.to
           errors == FailAppendEntries(m)
           msgs == (rpcs \ {m}) \cup errors
<1>1. /\ m \in AppendEntriesRequest /\ m.kind = "AppendEntries" /\ i \in Server
      /\ rpcs \in SUBSET Message /\ Credible(m, log) /\ UNCHANGED <<log, links, origin>>
      /\ Stop(i, "OverwritePanic", outcome, log[i], in_flight_client_requests[i], msgs)
    BY MessageKinds DEF PanicInOverwriteLog, IndexInv, TypeOK, CredibleMessages
<1>2. \A x \in errors : x \in Message /\ x.kind = "AppendEntriesError"
    <2>1. 0 \in Nat /\ FALSE \in BOOLEAN
        OBVIOUS
    <2> QED BY <1>1, <2>1, AnswerAppendEntriesFacts DEF Credible
<1> HIDE DEF errors
<1>3. Forwarding(msgs) = Forwarding(rpcs) /\ msgs \in SUBSET Message
    BY <1>1, <1>2, SameForwarding
<1> HIDE DEF msgs, i
<1>4. LeaveRole(i, "OverwritePanic", outcome, log[i], in_flight_client_requests[i], msgs) /\ Reset(i)
    BY <1>1 DEF Stop, Reset
<1>5. TicketInv' /\ AcksStand(outcome) /\ NoNewAcks(outcome)
    BY <1>1, <1>3, <1>4, BecomeFollowerTickets
<1> QED BY <1>1, <1>4, <1>5 DEF Serves

LEMMA AppendEntriesCallFailsServes ==
    ASSUME IndexInv, TicketInv, NEW m \in rpcs, AppendEntriesCallFails(m)
    PROVE  Serves
<1>1. UNCHANGED <<origin, outcome, in_flight_client_requests, log, last_applied, applied, links>>
    BY DEF AppendEntriesCallFails, persistentVars, applyVars, leaderVars, userVars
<1>2. CASE m.kind = "AppendEntries"
    <2> DEFINE late == [m EXCEPT !.live = FALSE]
               errors == FailAppendEntries(m)
    <2>1. rpcs' = (rpcs \ {m}) \cup {late} \cup errors
        BY <1>2 DEF AppendEntriesCallFails
    <2>2. late.kind = "AppendEntries" /\ \A x \in errors : x.kind = "AppendEntriesError"
        <3>1. m \in AppendEntriesRequest
            BY <1>2, MessageKinds DEF IndexInv, TypeOK
        <3> QED BY <3>1 DEF AppendEntriesRequest, FailAppendEntries
    <2> HIDE DEF late, errors
    <2>3. Forwarding(rpcs') = Forwarding(rpcs)
        BY <1>2, <2>1, <2>2, SameForwarding
    <2> QED BY <1>1, <2>3, Unlinked, ExchangeServes
<1>3. CASE m.kind # "AppendEntries"
    <2> DEFINE error == [kind |-> "AppendEntriesError", from |-> m.from, to |-> m.to]
    <2>1. m.kind = "AppendEntriesAnswer" /\ rpcs' = (rpcs \ {m}) \cup {error} /\ error.kind = "AppendEntriesError"
        BY <1>3 DEF AppendEntriesCallFails
    <2> HIDE DEF error
    <2>2. Forwarding(rpcs') = Forwarding(rpcs)
        BY <2>1, SameForwarding
    <2> QED BY <1>1, <2>2, Unlinked, ExchangeServes
<1> QED BY <1>2, <1>3

LEMMA LinkServes ==
    ASSUME IndexInv, TicketInv, NEW i \in Server, NEW j \in Server, Disconnect(i, j) \/ NewPeer(i, j)
    PROVE  Serves
<1>1. UNCHANGED <<origin, outcome, in_flight_client_requests, log, last_applied, applied, rpcs>>
    BY DEF Disconnect, NewPeer, persistentVars, applyVars, leaderVars, userVars
<1>2. NoSelfLink(links')
    <2>1. CASE Disconnect(i, j)
        <3>1. links' \in SUBSET links
            BY <2>1 DEF Disconnect
        <3> QED BY <3>1, Unlinked
    <2>2. CASE NewPeer(i, j)
        <3>1. links' = links \cup {{i, j}} /\ i # j
            BY <2>2 DEF NewPeer
        <3>2. \A k \in Server : {i, j} # {k}
            BY <3>1
        <3>3. NoSelfLink(links)
            BY Unlinked
        <3> QED BY <3>1, <3>2, <3>3 DEF NoSelfLink
    <2> QED BY <2>1, <2>2
<1> QED BY <1>1, <1>2, ExchangeServes

\* The user of a window that is closed learns nothing more.
LEMMA ForgottenTickets ==
    ASSUME IndexInv, TicketInv, NEW i \in Server
    PROVE  /\ TicketsFit(Tickets(WithoutAnswersFor(i), log, in_flight_client_requests), Forget(i))
           /\ \A c \in Cmd : Forget(i)[c] = "ack" <=> outcome[c] = "ack"
           /\ WithoutAnswersFor(i) \subseteq rpcs
<1> DEFINE T == Tickets(rpcs, log, in_flight_client_requests)
           T2 == Tickets(WithoutAnswersFor(i), log, in_flight_client_requests)
<1>1. WithoutAnswersFor(i) \subseteq rpcs /\ \A c \in Cmd : Forget(i)[c] = "ack" <=> outcome[c] = "ack"
    BY DEF WithoutAnswersFor, Forget
<1>2. T2 \in SUBSET T
    BY <1>1 DEF Tickets, Forwarding
<1>3. ASSUME NEW t \in T2
      PROVE  \/ Forget(i)[t.cmd] = outcome[t.cmd]
             \/ t.kind # "ForwardAnswer" /\ Forget(i)[t.cmd] = "unavailable"
    <2>1. t.cmd \in Cmd /\ (t.kind = "ForwardAnswer" => t.to = origin[t.cmd])
        BY <1>2 DEF TicketInv, TicketsFit, Backed
    <2>2. t.kind = "ForwardAnswer" => t.to # i
        BY DEF Tickets, Forwarding, WithoutAnswersFor, HeldTickets, HeldTicket
    <2> QED BY <2>1, <2>2 DEF Forget
<1> HIDE DEF T, T2
<1>4. TicketsFit(T, outcome)
    BY DEF TicketInv, T
<1>5. TicketsFit(T2, Forget(i))
    BY <1>2, <1>3, <1>4, FewerTickets
<1> QED BY <1>1, <1>5 DEF T2

LEMMA CloseWindowServes ==
    ASSUME IndexInv, TicketInv, NEW i \in Server, CloseWindow(i)
    PROVE  Serves
<1> DEFINE msgs == WithoutAnswersFor(i)
           out == Forget(i)
<1>1. /\ TicketsFit(Tickets(msgs, log, in_flight_client_requests), out)
      /\ \A c \in Cmd : out[c] = "ack" <=> outcome[c] = "ack"
      /\ msgs \in SUBSET Message
    BY ForgottenTickets DEF IndexInv, TypeOK
<1>2. /\ Stop(i, "Closed", out, log[i], in_flight_client_requests[i], msgs)
      /\ links' \in SUBSET links /\ UNCHANGED <<origin, log>>
    BY DEF CloseWindow, persistentVars
<1> HIDE DEF msgs, out
<1>3. LeaveRole(i, "Closed", out, log[i], in_flight_client_requests[i], msgs) /\ Reset(i)
    BY <1>2 DEF Stop, Reset
<1>4. TypeOK /\ \A j \in Server \ {i} : log'[j] = log[j]
    BY <1>2 DEF IndexInv
<1>5. /\ TicketsFit(Tickets(rpcs', log', in_flight_client_requests'), outcome')
      /\ AcksStand(out) /\ NoNewAcks(out)
    BY <1>1, <1>3, <1>4, LeaveRoleTickets
<1>6. TicketInv'
    BY <1>2, <1>5, Unlinked, TicketsKept
<1>7. AcksStand(outcome) /\ NoNewAcks(outcome)
    BY <1>1, <1>5 DEF AcksStand, NoNewAcks
<1> QED BY <1>3, <1>6, <1>7 DEF Serves

\* A request that reaches its leader by way of another window, or not at all.
LEMMA FollowerClientRequestServes ==
    ASSUME IndexInv, TicketInv, NEW c \in Cmd, FollowerClientRequest(c)
    PROVE  Serves
<1> DEFINE i == origin[c]
           T == Tickets(rpcs, log, in_flight_client_requests)
           T2 == Tickets(rpcs', log', in_flight_client_requests')
           new == [kind |-> "Forward", from |-> i, to |-> leader_id[i], cmd |-> c]
<1>1. /\ outcome[c] = "new" /\ i \in Server /\ outcome \in [Cmd -> {"new", "pending", "ack", "unavailable"}]
      /\ outcome' = [outcome EXCEPT ![c] = IF LeaderReachable(i) THEN "pending" ELSE "unavailable"]
      /\ rpcs' = IF LeaderReachable(i) THEN rpcs \cup {new} ELSE rpcs
      /\ UNCHANGED <<log, in_flight_client_requests, last_applied, applied, links, origin>>
    BY DEF FollowerClientRequest, persistentVars, applyVars, leaderVars, IndexInv, TypeOK
<1>2. TicketsFit(T, outcome)
    BY DEF TicketInv
<1>3. \A t \in T : t.cmd # c /\ t.cmd \in Cmd
    BY <1>1, <1>2 DEF TicketsFit, Backed
<1>4. TicketsFit(T, outcome')
    <2>1. \A t \in T : outcome'[t.cmd] = outcome[t.cmd]
        BY <1>1, <1>3
    <2> HIDE DEF T
    <2> QED BY <1>2, <2>1, FewerTickets
<1>5. TicketsFit(T2, outcome')
    <2>1. CASE LeaderReachable(i)
        <3>1. leader_id[i] # i
            <4>1. {i, leader_id[i]} \in links
                BY <2>1 DEF LeaderReachable
            <4> QED BY <1>1, <4>1 DEF TicketInv
        <3>2. /\ new.kind = "Forward" /\ new.cmd = c /\ new.from = origin[c] /\ new.to # origin[c]
              /\ outcome'[c] = "pending"
            BY <1>1, <2>1, <3>1
        <3>3. Backed(new, outcome')
            <4> HIDE DEF new
            <4> QED BY <3>2 DEF Backed
        <3>4. T2 = T \cup {new}
            <4>1. rpcs' = rpcs \cup {new} /\ new.kind = "Forward"
                BY <1>1, <2>1
            <4> HIDE DEF new
            <4> QED BY <1>1, <4>1 DEF Tickets, Forwarding
        <3> HIDE DEF new, T, T2
        <3>5. \A t \in T : t.cmd # new.cmd
            BY <1>3, <3>2
        <3>6. TicketsFit(T \cup {new}, outcome')
            BY <1>4, <3>3, <3>5, OneMoreTicket
        <3> QED BY <3>4, <3>6
    <2>2. CASE ~LeaderReachable(i)
        BY <1>1, <1>4, <2>2
    <2> QED BY <2>1, <2>2
<1>6. TicketInv'
    BY <1>1, <1>5, Unlinked, TicketsKept
<1>7. AcksStand(outcome)
    BY <1>1 DEF AcksStand
<1> QED BY <1>1, <1>6, <1>7 DEF Serves

LEMMA CandidateClientRequestServes ==
    ASSUME IndexInv, TicketInv, NEW c \in Cmd, CandidateClientRequest(c)
    PROVE  Serves
<1> DEFINE T == Tickets(rpcs, log, in_flight_client_requests)
<1>1. /\ outcome[c] = "new" /\ outcome \in [Cmd -> {"new", "pending", "ack", "unavailable"}]
      /\ outcome' = [outcome EXCEPT ![c] = "unavailable"]
      /\ UNCHANGED <<rpcs, log, in_flight_client_requests, last_applied, applied, links, origin>>
    BY DEF CandidateClientRequest, persistentVars, applyVars, leaderVars, IndexInv, TypeOK
<1>2. TicketsFit(T, outcome)
    BY DEF TicketInv
<1>3. \A t \in T : t.cmd # c /\ t.cmd \in Cmd
    BY <1>1, <1>2 DEF TicketsFit, Backed
<1>4. \A t \in T : outcome'[t.cmd] = outcome[t.cmd]
    BY <1>1, <1>3
<1>5. Tickets(rpcs', log', in_flight_client_requests') = T
    BY <1>1
<1> HIDE DEF T
<1>6. TicketsFit(T, outcome')
    BY <1>2, <1>4, FewerTickets
<1>7. TicketInv'
    BY <1>1, <1>5, <1>6, Unlinked, TicketsKept
<1>8. AcksStand(outcome)
    BY <1>1 DEF AcksStand
<1> QED BY <1>1, <1>7, <1>8 DEF Serves

LEMMA LeaderClientRequestServes ==
    ASSUME IndexInv, TicketInv, NEW c \in Cmd, LeaderClientRequest(c)
    PROVE  Serves
<1> DEFINE T == Tickets(rpcs, log, in_flight_client_requests)
           out == [outcome EXCEPT ![c] = "pending"]
           i == origin[c]
<1>1. /\ outcome[c] = "new" /\ outcome \in [Cmd -> {"new", "pending", "ack", "unavailable"}]
      /\ i \in Server /\ HandleLogUpdate(i, c, out, rpcs)
    BY DEF LeaderClientRequest, IndexInv, TypeOK
<1>2. TicketsFit(T, outcome)
    BY DEF TicketInv
<1>3. \A t \in T : t.cmd # c /\ t.cmd \in Cmd
    BY <1>1, <1>2 DEF TicketsFit, Backed
<1>4. \A t \in T : out[t.cmd] = outcome[t.cmd]
    BY <1>1, <1>3
<1>5. TicketsFit(T, out)
    <2> HIDE DEF T, out
    <2> QED BY <1>2, <1>4, FewerTickets
<1>6. /\ out[c] # "new" /\ out[c] # "ack" /\ rpcs \in SUBSET rpcs
      /\ \A d \in Cmd : outcome[d] = "ack" <=> out[d] = "ack"
    BY <1>1
<1> HIDE DEF out, i
<1> QED BY <1>1, <1>3, <1>5, <1>6, HandleLogUpdateServes

LEMMA ReceiveForwardServes ==
    ASSUME IndexInv, TicketInv, NEW m \in rpcs, ReceiveForward(m)
    PROVE  Serves
<1> DEFINE i == m.to
           c == m.cmd
           msgs == rpcs \ {m}
           T == Tickets(rpcs, log, in_flight_client_requests)
           T2 == Tickets(msgs, log, in_flight_client_requests)
           answer == [kind |-> "ForwardAnswer", from |-> i, to |-> m.from, cmd |-> c, ack |-> FALSE]
<1>1. m.kind = "Forward" /\ i \in Server /\ c \in Cmd
    <2>1. m.kind = "Forward"
        BY DEF ReceiveForward
    <2> QED BY <2>1, MessageKinds DEF IndexInv, TypeOK, ForwardRequest
<1>2. TicketsFit(T, outcome) /\ m \in T
    BY <1>1 DEF TicketInv, Tickets, Forwarding
<1>3. outcome[c] # "new" /\ m.from = origin[c] /\ i # origin[c]
    BY <1>1, <1>2 DEF TicketsFit, Backed
<1>4. T2 \in SUBSET T /\ \A t \in T2 : t.cmd # c
    <2>1. T2 \in SUBSET T
        BY DEF Tickets, Forwarding
    <2>2. m \notin T2
        BY <1>1 DEF Tickets, Forwarding, HeldTickets, HeldTicket
    <2> HIDE DEF T, T2
    <2> QED BY <1>2, <2>1, <2>2 DEF TicketsFit
<1>5. TicketsFit(T2, outcome)
    <2> HIDE DEF T, T2
    <2> QED BY <1>2, <1>4, FewerTickets
<1>6. CASE HandleLogUpdate(i, c, outcome, msgs)
    <2>1. msgs \in SUBSET rpcs
        OBVIOUS
    <2> HIDE DEF msgs, i, c
    <2> QED BY <1>1, <1>3, <1>4, <1>5, <1>6, <2>1, HandleLogUpdateServes
<1>7. CASE ~HandleLogUpdate(i, c, outcome, msgs)
    <2>1. /\ rpcs' = msgs \cup (IF outcome[c] = "pending" THEN {answer} ELSE {})
          /\ UNCHANGED <<log, in_flight_client_requests, last_applied, applied, links, origin, outcome>>
        BY <1>7 DEF ReceiveForward, persistentVars, applyVars, leaderVars, userVars
    <2>2. TicketsFit(Tickets(rpcs', log', in_flight_client_requests'), outcome')
        <3>1. CASE outcome[c] = "pending"
            <4>1. rpcs' = msgs \cup {answer} /\ answer.kind = "ForwardAnswer" /\ answer.cmd = c /\ answer.to = m.from
                BY <2>1, <3>1
            <4> HIDE DEF answer
            <4>2. Tickets(rpcs', log', in_flight_client_requests') = T2 \cup {answer}
                BY <2>1, <4>1 DEF Tickets, Forwarding
            <4>3. Backed(answer, outcome)
                BY <1>1, <1>3, <3>1, <4>1 DEF Backed
            <4> HIDE DEF T2, T, msgs, c
            <4>4. TicketsFit(T2 \cup {answer}, outcome)
                BY <1>4, <1>5, <4>1, <4>3, OneMoreTicket
            <4> QED BY <2>1, <4>2, <4>4
        <3>2. CASE outcome[c] # "pending"
            BY <1>5, <2>1, <3>2
        <3> QED BY <3>1, <3>2
    <2>3. TicketInv'
        BY <2>1, <2>2, Unlinked, TicketsKept
    <2> QED BY <2>1, <2>3 DEF Serves, AcksStand
<1> QED BY <1>6, <1>7

LEMMA ReceiveForwardAnswerServes ==
    ASSUME IndexInv, TicketInv, NEW m \in rpcs, ReceiveForwardAnswer(m)
    PROVE  Serves
<1> DEFINE c == m.cmd
           T == Tickets(rpcs, log, in_flight_client_requests)
           T2 == Tickets(rpcs', log', in_flight_client_requests')
<1>1. /\ m.kind = "ForwardAnswer" /\ rpcs' = rpcs \ {m}
      /\ outcome' = [outcome EXCEPT ![c] = IF m.ack THEN "ack" ELSE "unavailable"]
      /\ outcome \in [Cmd -> {"new", "pending", "ack", "unavailable"}]
      /\ UNCHANGED <<log, in_flight_client_requests, last_applied, applied, links, origin>>
    BY DEF ReceiveForwardAnswer, persistentVars, applyVars, leaderVars, IndexInv, TypeOK
<1>2. TicketsFit(T, outcome) /\ m \in T
    BY <1>1 DEF TicketInv, Tickets, Forwarding
<1>3. c \in Cmd /\ outcome[c] = "pending"
    BY <1>1, <1>2 DEF TicketsFit, Backed
<1>4. T2 \in SUBSET T /\ \A t \in T2 : t.cmd # c /\ t.cmd \in Cmd
    <2>1. T2 \in SUBSET T
        BY <1>1 DEF Tickets, Forwarding
    <2>2. m \notin T2
        BY <1>1 DEF Tickets, Forwarding, HeldTickets, HeldTicket
    <2> HIDE DEF T, T2
    <2> QED BY <1>2, <2>1, <2>2 DEF TicketsFit, Backed
<1>5. \A t \in T2 : outcome'[t.cmd] = outcome[t.cmd]
    BY <1>1, <1>4
<1>6. TicketsFit(T2, outcome')
    <2> HIDE DEF T, T2
    <2> QED BY <1>2, <1>4, <1>5, FewerTickets
<1>7. TicketInv'
    BY <1>1, <1>6, Unlinked, TicketsKept
<1>8. AcksStand(outcome)
    BY <1>1, <1>3 DEF AcksStand
<1> QED BY <1>1, <1>7, <1>8 DEF Serves

LEMMA ForwardCallFailsServes ==
    ASSUME IndexInv, TicketInv, NEW c \in Cmd, ForwardCallFails(c)
    PROVE  Serves
<1> DEFINE T == Tickets(rpcs, log, in_flight_client_requests)
           T2 == Tickets(rpcs', log', in_flight_client_requests')
<1>1. /\ outcome[c] = "pending" /\ rpcs' = {m \in rpcs : ~(m.kind = "ForwardAnswer" /\ m.cmd = c)}
      /\ outcome' = [outcome EXCEPT ![c] = "unavailable"]
      /\ outcome \in [Cmd -> {"new", "pending", "ack", "unavailable"}]
      /\ UNCHANGED <<log, in_flight_client_requests, last_applied, applied, links, origin>>
    BY DEF ForwardCallFails, persistentVars, applyVars, leaderVars, IndexInv, TypeOK
<1>2. TicketsFit(T, outcome)
    BY DEF TicketInv
<1>3. T2 \in SUBSET T
    BY <1>1 DEF Tickets, Forwarding
<1>4. ASSUME NEW t \in T2
      PROVE  outcome'[t.cmd] = outcome[t.cmd] \/ (t.kind # "ForwardAnswer" /\ outcome'[t.cmd] = "unavailable")
    <2>1. t.cmd \in Cmd
        BY <1>2, <1>3 DEF TicketsFit, Backed
    <2>2. t.cmd = c => t.kind # "ForwardAnswer"
        BY <1>1 DEF Tickets, Forwarding, HeldTickets, HeldTicket
    <2> QED BY <1>1, <2>1, <2>2
<1>5. TicketsFit(T2, outcome')
    <2> HIDE DEF T, T2
    <2> QED BY <1>2, <1>3, <1>4, FewerTickets
<1>6. TicketInv'
    BY <1>1, <1>5, Unlinked, TicketsKept
<1>7. AcksStand(outcome)
    BY <1>1 DEF AcksStand
<1> QED BY <1>1, <1>6, <1>7 DEF Serves

\* The windows that forwarded a request to a window that restarts are told.
LEMMA RestartServes ==
    ASSUME IndexInv, ServiceInv, TicketInv, NEW i \in Server, Restart(i)
    PROVE  Serves
<1> DEFINE T == Tickets(rpcs, log, in_flight_client_requests)
           T2 == Tickets(rpcs', log', in_flight_client_requests')
           errors == UNION {CallErrors(m) : m \in SentTo(i)}
           Refusal(m) == [kind |-> "ForwardAnswer", from |-> m.to, to |-> m.from, cmd |-> m.cmd, ack |-> FALSE]
           lost == {m \in SentTo(i) : m.kind = "Forward" /\ outcome[m.cmd] = "pending"}
<1>1. /\ rpcs' = (WithoutAnswersFor(i) \ SentTo(i)) \cup errors /\ outcome' = Forget(i)
      /\ links' \in SUBSET links
      /\ UNCHANGED <<log, in_flight_client_requests, last_applied, applied, origin>>
    BY DEF Restart, persistentVars, applyVars, leaderVars
<1>2. TicketsFit(T, outcome)
    BY DEF TicketInv
<1>3. ASSUME NEW a \in errors, a.kind = "Forward" \/ a.kind = "ForwardAnswer"
      PROVE  \E m \in lost : a = Refusal(m)
    <2>1. PICK m \in SentTo(i) : a \in CallErrors(m)
        OBVIOUS
    <2>2. m.kind # "AppendEntries"
        <3>1. ASSUME m.kind = "AppendEntries" PROVE a.kind = "AppendEntriesError"
            BY <2>1, <3>1 DEF CallErrors, FailAppendEntries
        <3> QED BY <1>3, <3>1
    <2>3. m.kind = "Forward" /\ outcome[m.cmd] = "pending" /\ a = Refusal(m)
        BY <2>1, <2>2 DEF CallErrors
    <2> QED BY <2>1, <2>3
<1>4. \A m \in lost : m \in T /\ m.kind = "Forward" /\ m \notin T2 /\ m.to = i
    <2> SUFFICES ASSUME NEW m \in lost PROVE m \in T /\ m.kind = "Forward" /\ m \notin T2 /\ m.to = i
        OBVIOUS
    <2>1. m \in rpcs /\ m.kind = "Forward" /\ m.to = i /\ m \in SentTo(i) /\ m \in T
        BY DEF SentTo, Tickets, Forwarding
    <2>2. m \notin errors
        <3>1. \A n : Refusal(n).kind = "ForwardAnswer"
            OBVIOUS
        <3> HIDE DEF errors, lost, Refusal
        <3> QED BY <1>3, <2>1, <3>1
    <2>3. m \notin rpcs'
        BY <1>1, <2>1, <2>2
    <2>4. m \notin HeldTickets(log', in_flight_client_requests')
        BY <2>1 DEF HeldTickets, HeldTicket
    <2> QED BY <2>1, <2>3, <2>4 DEF Tickets, Forwarding
<1>5. ASSUME NEW t \in T2, t \notin T PROVE \E m \in lost : t = Refusal(m)
    <2>1. t \in Forwarding(rpcs')
        BY <1>1, <1>5 DEF Tickets
    <2>2. t \in rpcs' /\ t \notin rpcs /\ (t.kind = "Forward" \/ t.kind = "ForwardAnswer")
        BY <1>5, <2>1 DEF Tickets, Forwarding
    <2>3. t \in errors
        BY <1>1, <2>2 DEF WithoutAnswersFor
    <2> QED BY <1>3, <2>2, <2>3
<1>6. \A m \in lost : Refusal(m).cmd = m.cmd /\ Refusal(m).to = m.from /\ Refusal(m).kind = "ForwardAnswer"
    OBVIOUS
<1>7. \A m \in lost : outcome[m.cmd] = "pending"
    OBVIOUS
<1>8. ASSUME NEW t \in T2, t \in T
      PROVE  outcome'[t.cmd] = outcome[t.cmd] \/ (t.kind # "ForwardAnswer" /\ outcome'[t.cmd] = "unavailable")
    <2>1. t.cmd \in Cmd /\ (t.kind = "ForwardAnswer" => t.to = origin[t.cmd])
        BY <1>2, <1>8 DEF TicketsFit, Backed
    <2>2. t.kind = "ForwardAnswer" => t.to # i
        <3> SUFFICES ASSUME t.kind = "ForwardAnswer", t.to = i PROVE FALSE
            OBVIOUS
        <3>1. t \in rpcs'
            BY DEF Tickets, Forwarding, HeldTickets, HeldTicket
        <3>2. t \in errors
            BY <1>1, <3>1 DEF WithoutAnswersFor
        <3>3. PICK m \in lost : t = Refusal(m)
            BY <1>3, <3>2
        <3>4. t.to = m.from /\ t.cmd = m.cmd
            BY <1>6, <3>3
        <3>5. m.from = origin[m.cmd] /\ m.to # origin[m.cmd] /\ m.to = i
            BY <1>2, <1>4 DEF TicketsFit, Backed
        <3> QED BY <3>4, <3>5
    <2> QED BY <1>1, <2>1, <2>2 DEF Forget
<1> HIDE DEF T, T2, lost, Refusal, errors
<1>9. \A t \in T2 : t \in T \/ \A s \in T : s.cmd = t.cmd => s \notin T2
    BY <1>2, <1>4, <1>5, <1>6 DEF TicketsFit
<1>10. \A s, t \in T2 : s \notin T /\ t \notin T /\ s.cmd = t.cmd => s = t
    <2> SUFFICES ASSUME NEW s \in T2, NEW t \in T2, s \notin T, t \notin T, s.cmd = t.cmd PROVE s = t
        OBVIOUS
    <2>1. PICK m \in lost : s = Refusal(m)
        BY <1>5
    <2>2. PICK n \in lost : t = Refusal(n)
        BY <1>5
    <2>3. m.cmd = n.cmd /\ m \in T /\ n \in T
        BY <1>4, <1>6, <2>1, <2>2
    <2>4. m = n
        BY <1>2, <2>3 DEF TicketsFit
    <2> QED BY <2>1, <2>2, <2>4
<1>11. ASSUME NEW t \in T2 PROVE Backed(t, outcome')
    <2>1. CASE t \in T
        <3>1. Backed(t, outcome)
            BY <1>2, <2>1 DEF TicketsFit
        <3> QED BY <1>8, <2>1, <3>1 DEF Backed
    <2>2. CASE t \notin T
        <3>1. PICK m \in lost : t = Refusal(m)
            BY <1>5, <2>2
        <3>2. t.cmd = m.cmd /\ t.to = m.from /\ t.kind = "ForwardAnswer" /\ outcome[m.cmd] = "pending"
            BY <1>6, <1>7, <3>1
        <3>3. m \in T /\ m.kind = "Forward" /\ m.to = i
            BY <1>4
        <3>4. m.cmd \in Cmd /\ m.from = origin[m.cmd] /\ i # origin[m.cmd]
            BY <1>2, <3>3 DEF TicketsFit, Backed
        <3>5. outcome'[m.cmd] = "pending"
            BY <1>1, <3>2, <3>4 DEF Forget
        <3> QED BY <3>2, <3>4, <3>5 DEF Backed
    <2> QED BY <2>1, <2>2
<1>12. TicketsFit(T2, outcome')
    BY <1>2, <1>9, <1>10, <1>11, ReplacedTickets
<1>13. TicketInv'
    BY <1>1, <1>12, Unlinked, TicketsKept DEF T2
<1>14. AcksStand(outcome)
    BY <1>1 DEF AcksStand, Forget
<1> QED BY <1>1, <1>13, <1>14 DEF Serves

LEMMA TicketInvInit == Init => TicketInv
<1> SUFFICES ASSUME Init PROVE TicketInv
    OBVIOUS
<1>1. Tickets(rpcs, log, in_flight_client_requests) = {}
    BY DEF Init, Tickets, Forwarding, HeldTickets
<1>2. \A l \in links : \A i \in Server : l # {i}
    BY DEF Init
<1> QED BY <1>1, <1>2 DEF TicketInv, TicketsFit

LEMMA ServesNext ==
    ASSUME IndexInv, IndexInv', ServiceInv, TicketInv, [Next]_vars
    PROVE  Serves
<1>1. ASSUME NEW m \in rpcs, Receive(m) PROVE Serves
    BY <1>1, ReceiveRequestVoteServes, ReceiveVoteServes, ReceiveAppendEntriesServes, RefuseAppendEntriesServes,
       PanicInOverwriteLogServes, AppendEntriesFailedServes, AppendEntriesNewTermServes,
       AppendEntriesSucceededServes, AppendEntriesRefusedServes, ReceiveForwardServes, ReceiveForwardAnswerServes
       DEF Receive, ReceiveAppendEntriesResponse
<1>2. ASSUME NEW m \in rpcs, AppendEntriesCallFails(m) PROVE Serves
    BY <1>2, AppendEntriesCallFailsServes
<1>3. ASSUME NEW c \in Cmd, ClientRequest(c) \/ ForwardCallFails(c) PROVE Serves
    BY <1>3, FollowerClientRequestServes, CandidateClientRequestServes, LeaderClientRequestServes,
       ForwardCallFailsServes DEF ClientRequest
<1>4. ASSUME NEW i \in Server, ElectionTimeout(i) \/ Heartbeat(i) \/ CloseWindow(i) \/ Restart(i) PROVE Serves
    BY <1>4, ElectionTimeoutServes, HeartbeatServes, CloseWindowServes, RestartServes
<1>5. ASSUME NEW i \in Server, NEW j \in Server, Disconnect(i, j) \/ NewPeer(i, j) PROVE Serves
    BY <1>5, LinkServes
<1>6. CASE UNCHANGED vars
    <2>1. /\ UNCHANGED <<origin, outcome, in_flight_client_requests, log, last_applied, applied, links>>
          /\ UNCHANGED rpcs
        BY <1>6 DEF vars, persistentVars, applyVars, leaderVars, userVars, historyVars
    <2> QED BY <2>1, Unlinked, ExchangeServes
<1> QED BY <1>1, <1>2, <1>3, <1>4, <1>5, <1>6 DEF Next

\* Once told that its request succeeded, a user is never told otherwise, whatever
\* answers, errors and timeouts of the same request are still under way
\* (advance_commit_index, worker.rs:567-571, and
\* forward_client_request, worker.rs:336-365).
THEOREM AcksAreFinal == Spec => [][\A c \in Cmd : outcome[c] = "ack" => outcome'[c] = "ack"]_vars
<1>1. IndexInv /\ IndexInv' /\ ServiceInv /\ TicketInv /\ [Next]_vars =>
          TicketInv' /\ [\A c \in Cmd : outcome[c] = "ack" => outcome'[c] = "ack"]_vars
    BY ServesNext DEF Serves, AcksStand
<1> QED BY <1>1, IndexInvInit, IndexInvNext, ServiceInvInit, ServiceInvNext, TicketInvInit, PTL DEF Spec

-----------------------------------------------------------------------------
(* While no second leader is elected, the workers are one replicated log *)

\* The commands that state machines received have the indices of a sequence, and
\* every window's state machine has a prefix of it.
Indices(pairs) == {a[1] : a \in pairs}
PrefixInv ==
    \E n \in Nat : Indices(applied) = 1 .. n /\ \A i \in Server : last_applied[i] <= n

LEMMA PrefixInvInit == Init => PrefixInv
<1> SUFFICES ASSUME Init PROVE PrefixInv
    OBVIOUS
<1>1. Indices(applied) = 1 .. 0 /\ \A i \in Server : last_applied[i] <= 0
    BY DEF Init, Indices
<1> QED BY <1>1 DEF PrefixInv

\* A worker hands its state machine the commands that follow the last one.
Handed(i) == last_applied[i] + 1 .. last_applied'[i]
LEMMA HandedInOrder ==
    ASSUME TypeOK, TypeOK', NEW i \in Server, Applies(i)
    PROVE  /\ last_applied[i] \in Nat /\ last_applied'[i] \in Nat /\ last_applied'[i] >= last_applied[i]
           /\ \A j \in Server \ {i} : last_applied'[j] = last_applied[j]
           /\ Indices(applied') = Indices(applied) \cup Handed(i)
           /\ applied \subseteq applied'
<1>1. PICK n : n \in Nat /\ ApplyLog(i, log'[i], n)
    BY DEF Applies
<1> DEFINE lg == log'[i]
           last == Smaller(n, Len(lg))
           range == last_applied[i] + 1 .. last
           new == {<<k, lg[k].cmd>> : k \in range}
<1>2. last \in Nat /\ last_applied \in [Server -> Nat]
    <2>1. lg \in Seq(Entry)
        BY DEF TypeOK
    <2>2. Len(lg) \in Nat
        BY <2>1, LenProperties
    <2> QED BY <1>1, <2>2 DEF Smaller, TypeOK
<1>3. last_applied' = [last_applied EXCEPT ![i] = Larger(last_applied[i], last)] /\ applied' = applied \cup new
    BY <1>1 DEF ApplyLog
<1> HIDE DEF last
<1>4. /\ last_applied[i] \in Nat /\ last_applied'[i] \in Nat /\ last_applied'[i] >= last_applied[i]
      /\ \A j \in Server \ {i} : last_applied'[j] = last_applied[j]
      /\ range = Handed(i)
    BY <1>2, <1>3 DEF Larger, Handed
<1> HIDE DEF range
<1>5. Indices(new) = range
    <2>1. \A a \in new : a[1] \in range
        OBVIOUS
    <2>2. \A k \in range : <<k, lg[k].cmd>> \in new /\ <<k, lg[k].cmd>>[1] = k
        OBVIOUS
    <2> HIDE DEF new, lg
    <2> QED BY <2>1, <2>2 DEF Indices
<1> HIDE DEF new
<1>6. Indices(applied') = Indices(applied) \cup Indices(new) /\ applied \subseteq applied'
    BY <1>3 DEF Indices
<1> QED BY <1>4, <1>5, <1>6

LEMMA PrefixInvNext == TypeOK /\ TypeOK' /\ PrefixInv /\ Serves => PrefixInv'
<1> SUFFICES ASSUME TypeOK, TypeOK', PrefixInv, Serves PROVE PrefixInv'
    OBVIOUS
<1>1. PICK n : n \in Nat /\ Indices(applied) = 1 .. n /\ \A i \in Server : last_applied[i] <= n
    BY DEF PrefixInv
<1>2. last_applied \in [Server -> Nat]
    BY DEF TypeOK
<1>3. CASE UNCHANGED <<last_applied, applied>>
    BY <1>1, <1>3 DEF PrefixInv
<1>4. ASSUME NEW i \in Server, Reset(i) PROVE PrefixInv'
    BY <1>1, <1>2, <1>4 DEF PrefixInv, Reset
<1>5. ASSUME NEW i \in Server, Applies(i) PROVE PrefixInv'
    <2>1. /\ last_applied[i] \in Nat /\ last_applied'[i] \in Nat /\ last_applied'[i] >= last_applied[i]
          /\ \A j \in Server \ {i} : last_applied'[j] = last_applied[j]
          /\ Indices(applied') = Indices(applied) \cup Handed(i)
        BY <1>5, HandedInOrder
    <2> DEFINE m == Larger(n, last_applied'[i])
    <2>2. m \in Nat /\ m >= n /\ m >= last_applied'[i]
        BY <1>1, <2>1 DEF Larger
    <2>3. Indices(applied') = 1 .. m
        <3>1. (1 .. n) \cup Handed(i) = 1 .. m
            BY <1>1, <2>1 DEF Larger, Handed
        <3> QED BY <1>1, <2>1, <3>1
    <2>4. ASSUME NEW j \in Server PROVE last_applied'[j] <= m
        <3>1. CASE j = i
            BY <2>2, <3>1
        <3>2. CASE j # i
            BY <1>1, <1>2, <2>1, <2>2, <3>2
        <3> QED BY <3>1, <3>2
    <2>5. PICK l : l = m
        OBVIOUS
    <2> HIDE DEF m
    <2> QED BY <2>2, <2>3, <2>4, <2>5 DEF PrefixInv
<1> QED BY <1>3, <1>4, <1>5 DEF Serves

Acked == {c \in Cmd : outcome[c] = "ack"}
usersVars == <<Chosen, last_applied, Acked>>

\* Chosen is the sequence of what state machines received, and acknowledged
\* commands are in it.
ChosenFits ==
    /\ Chosen \in Seq(Cmd)
    /\ Indices(applied) = 1 .. Len(Chosen)
    /\ \A a \in applied : Chosen[a[1]] = a[2]
    /\ \A k \in 1 .. Len(Chosen) : <<k, Chosen[k]>> \in applied
    /\ \A i \in Server : last_applied[i] <= Len(Chosen)
    /\ Acked \subseteq Users!Range(Chosen)

LEMMA ChosenIsSequence ==
    TypeOK /\ PrefixInv /\ StateMachineSafety /\ AckedWasApplied => ChosenFits
<1> SUFFICES ASSUME TypeOK, PrefixInv, StateMachineSafety, AckedWasApplied PROVE ChosenFits
    OBVIOUS
<1>1. PICK n : n \in Nat /\ Indices(applied) = 1 .. n /\ \A i \in Server : last_applied[i] <= n
    BY DEF PrefixInv
<1>2. applied \in SUBSET (Nat \X Cmd)
    BY DEF TypeOK
<1>3. Chosen = [k \in 1 .. n |-> CHOOSE c \in Cmd : <<k, c>> \in applied]
    BY <1>1 DEF Chosen, Indices
<1>4. ASSUME NEW a \in applied PROVE a = <<a[1], a[2]>> /\ a[2] \in Cmd /\ a[1] \in 1 .. n
    BY <1>1, <1>2 DEF Indices
<1>5. ASSUME NEW k \in 1 .. n PROVE \E c \in Cmd : <<k, c>> \in applied
    <2>1. PICK a \in applied : a[1] = k
        BY <1>1 DEF Indices
    <2> QED BY <1>4, <2>1
<1>6. ASSUME NEW k \in 1 .. n PROVE Chosen[k] \in Cmd /\ <<k, Chosen[k]>> \in applied
    <2>1. (CHOOSE c \in Cmd : <<k, c>> \in applied) \in Cmd /\ <<k, CHOOSE c \in Cmd : <<k, c>> \in applied>> \in applied
        BY <1>5
    <2>2. Chosen[k] = CHOOSE c \in Cmd : <<k, c>> \in applied
        BY <1>3
    <2> QED BY <2>1, <2>2
<1>7. DOMAIN Chosen = 1 .. n /\ Chosen \in [1 .. n -> Cmd]
    <2> DEFINE range == 1 .. n
    <2>1. Chosen = [k \in range |-> CHOOSE c \in Cmd : <<k, c>> \in applied]
        BY <1>3
    <2>2. \A k \in range : Chosen[k] \in Cmd
        BY <1>6
    <2> HIDE DEF range
    <2>3. DOMAIN Chosen = range /\ Chosen \in [range -> Cmd]
        BY <2>1, <2>2
    <2> QED BY <2>3 DEF range
<1>8. Chosen \in Seq(Cmd) /\ Len(Chosen) = n
    <2>1. Chosen \in Seq(Cmd)
        BY <1>1, <1>7, SeqDef
    <2>2. Len(Chosen) \in Nat /\ 1 .. Len(Chosen) = 1 .. n
        BY <1>7, <2>1, LenProperties
    <2> QED BY <1>1, <2>1, <2>2
<1>9. ASSUME NEW a \in applied PROVE Chosen[a[1]] = a[2]
    <2>1. <<a[1], Chosen[a[1]]>> \in applied
        BY <1>4, <1>6
    <2> QED BY <2>1 DEF StateMachineSafety
<1>10. ASSUME NEW c \in Acked PROVE c \in Users!Range(Chosen)
    <2>1. PICK a \in applied : a[2] = c
        BY DEF Acked, AckedWasApplied
    <2>2. a[1] \in DOMAIN Chosen /\ Chosen[a[1]] = c
        BY <1>4, <1>7, <1>9, <2>1
    <2> QED BY <2>2 DEF Users!Range
<1> QED BY <1>1, <1>6, <1>8, <1>9, <1>10 DEF ChosenFits

LEMMA ChosenIsSequenceNext ==
    (TypeOK /\ PrefixInv /\ StateMachineSafety /\ AckedWasApplied)' => ChosenFits'
BY ChosenIsSequence, PTL

LEMMA GrownSequence ==
    ASSUME NEW S, NEW s \in Seq(S), NEW t \in Seq(S), Len(s) <= Len(t), \A k \in 1 .. Len(s) : t[k] = s[k]
    PROVE  /\ t = s \o SubSeq(t, Len(s) + 1, Len(t))
           /\ SubSeq(t, Len(s) + 1, Len(t)) # <<>> => Len(s) < Len(t)
<1> DEFINE new == SubSeq(t, Len(s) + 1, Len(t))
<1>1. Len(s) \in Nat /\ Len(t) \in Nat /\ \A k \in 1 .. Len(t) : t[k] \in S
    BY LenProperties, ElementOfSeq
<1>2. new \in Seq(S) /\ Len(new) = Len(t) - Len(s) /\ \A k \in 1 .. Len(new) : new[k] = t[Len(s) + k]
    <2>1. Len(s) + 1 \in Int /\ Len(t) \in Int /\ \A i \in Len(s) + 1 .. Len(t) : t[i] \in S
        BY <1>1
    <2>2. /\ new \in Seq(S) /\ Len(new) = IF Len(s) + 1 <= Len(t) THEN Len(t) - (Len(s) + 1) + 1 ELSE 0
          /\ \A k \in 1 .. Len(t) - (Len(s) + 1) + 1 : new[k] = t[Len(s) + 1 + k - 1]
        BY <2>1, SubSeqProperties
    <2> HIDE DEF new
    <2>3. Len(new) = Len(t) - Len(s)
        BY <1>1, <2>2
    <2>4. ASSUME NEW k \in 1 .. Len(new) PROVE new[k] = t[Len(s) + k]
        <3>1. k \in 1 .. Len(t) - (Len(s) + 1) + 1 /\ Len(s) + 1 + k - 1 = Len(s) + k
            BY <1>1, <2>3
        <3> QED BY <2>2, <3>1
    <2> QED BY <2>2, <2>3, <2>4
<1> HIDE DEF new
<1>3. s \o new \in Seq(S) /\ Len(s \o new) = Len(t)
    <2>1. s \o new \in Seq(S) /\ Len(s \o new) = Len(s) + Len(new)
        BY <1>2, ConcatProperties
    <2> QED BY <1>1, <1>2, <2>1
<1>4. ASSUME NEW k \in 1 .. Len(t) PROVE (s \o new)[k] = t[k]
    BY <1>1, <1>2, <1>4, ConcatProperties
<1>5. s \o new = t
    BY <1>3, <1>4, SeqEqual
<1>6. new # <<>> => Len(s) < Len(t)
    BY <1>1, <1>2, EmptySeq
<1> QED BY <1>5, <1>6 DEF new

\* A state machine that receives what follows, and users that are told: the
\* step of one window.
LEMMA DeliversInOrder ==
    ASSUME IndexInv, IndexInv', ChosenFits, ChosenFits', NEW i \in Server, Applies(i), AcksStand(outcome)
    PROVE  Users!Advance(i)
<1>1. /\ last_applied[i] \in Nat /\ last_applied'[i] \in Nat /\ last_applied'[i] >= last_applied[i]
      /\ \A j \in Server \ {i} : last_applied'[j] = last_applied[j]
      /\ Indices(applied') = Indices(applied) \cup Handed(i)
      /\ applied \subseteq applied'
    BY HandedInOrder DEF IndexInv
<1>2. /\ Chosen \in Seq(Cmd) /\ Chosen' \in Seq(Cmd)
      /\ Indices(applied) = 1 .. Len(Chosen) /\ Indices(applied') = 1 .. Len(Chosen')
      /\ last_applied'[i] <= Len(Chosen')
    BY DEF ChosenFits
<1>3. Len(Chosen) \in Nat /\ Len(Chosen') \in Nat
    BY <1>2, LenProperties
<1>4. Len(Chosen) <= Len(Chosen') /\ (Len(Chosen) < Len(Chosen') => last_applied'[i] = Len(Chosen'))
    <2>1. 1 .. Len(Chosen') = (1 .. Len(Chosen)) \cup (last_applied[i] + 1 .. last_applied'[i])
        BY <1>1, <1>2 DEF Handed
    <2> QED BY <1>1, <1>2, <1>3, <2>1
<1>5. \A k \in 1 .. Len(Chosen) : Chosen'[k] = Chosen[k]
    <2> SUFFICES ASSUME NEW k \in 1 .. Len(Chosen) PROVE Chosen'[k] = Chosen[k]
        OBVIOUS
    <2>1. <<k, Chosen[k]>> \in applied'
        BY <1>1 DEF ChosenFits
    <2>2. Chosen'[<<k, Chosen[k]>>[1]] = <<k, Chosen[k]>>[2]
        BY <2>1 DEF ChosenFits
    <2> QED BY <2>2
<1> DEFINE new == SubSeq(Chosen', Len(Chosen) + 1, Len(Chosen'))
<1>6. Chosen' = Chosen \o new /\ (new # <<>> => Len(Chosen) < Len(Chosen'))
    <2>1. PICK s \in Seq(Cmd) : s = Chosen
        BY <1>2
    <2>2. PICK t \in Seq(Cmd) : t = Chosen'
        BY <1>2
    <2>3. Len(s) <= Len(t) /\ \A k \in 1 .. Len(s) : t[k] = s[k]
        BY <1>4, <1>5, <2>1, <2>2
    <2>4. t = s \o SubSeq(t, Len(s) + 1, Len(t)) /\ (SubSeq(t, Len(s) + 1, Len(t)) # <<>> => Len(s) < Len(t))
        BY <2>3, GrownSequence
    <2> QED BY <2>1, <2>2, <2>4
<1>7. new # <<>> => last_applied'[i] = Len(Chosen')
    BY <1>4, <1>6
<1>8. last_applied'[i] \in last_applied[i] .. Len(Chosen')
    BY <1>1, <1>2, <1>3
<1>9. last_applied' = [last_applied EXCEPT ![i] = last_applied'[i]]
    <2>1. last_applied \in [Server -> Nat] /\ last_applied' \in [Server -> Nat]
        BY DEF IndexInv, TypeOK
    <2> QED BY <1>1, <2>1
<1>10. Acked \subseteq Acked' /\ Acked' \subseteq Users!Range(Chosen')
    BY DEF AcksStand, Acked, ChosenFits
<1> QED BY <1>6, <1>7, <1>8, <1>9, <1>10 DEF Users!Advance, Acked

\* A user is told, and no state machine receives anything.
LEMMA OnlyTells ==
    ASSUME IndexInv, ChosenFits, ChosenFits', UNCHANGED <<last_applied, applied>>, AcksStand(outcome)
    PROVE  [Users!Next]_usersVars
<1>1. Chosen' = Chosen
    BY DEF Chosen
<1>2. Acked \subseteq Acked' /\ Acked' \subseteq Users!Range(Chosen')
    BY DEF AcksStand, Acked, ChosenFits
<1>3. CASE Acked' = Acked
    BY <1>1, <1>3 DEF usersVars
<1>4. CASE Acked' # Acked
    <2>1. PICK c \in Cmd : c \in Acked'
        BY <1>2, <1>4 DEF Acked
    <2>2. PICK p \in Server : p = origin[c]
        BY DEF IndexInv, TypeOK
    <2>3. Chosen \in Seq(Cmd) /\ last_applied[p] \in Nat /\ last_applied[p] <= Len(Chosen)
          /\ last_applied \in [Server -> Nat]
        BY DEF ChosenFits, IndexInv, TypeOK
    <2>4. Len(Chosen) \in Nat
        BY <2>3, LenProperties
    <2> DEFINE new == SubSeq(Chosen', Len(Chosen) + 1, Len(Chosen'))
    <2>5. new = <<>>
        <3>1. Len(Chosen) + 1 \in Int /\ Len(Chosen') \in Int /\ Len(Chosen') < Len(Chosen) + 1
            BY <1>1, <2>4
        <3> QED BY <1>1, <3>1, SubSeqEmpty
    <2>6. Chosen' = Chosen \o new
        BY <1>1, <2>3, <2>5, ConcatEmptySeq
    <2> HIDE DEF new
    <2>7. last_applied'[p] \in last_applied[p] .. Len(Chosen')
        BY <1>1, <2>3, <2>4
    <2>8. last_applied' = [last_applied EXCEPT ![p] = last_applied'[p]]
        BY <2>3
    <2>9. Users!Advance(p)
        BY <1>2, <2>5, <2>6, <2>7, <2>8 DEF Users!Advance, Acked, new
    <2> QED BY <2>9 DEF Users!Next
<1> QED BY <1>3, <1>4

LEMMA WorkersStepRefines ==
    IndexInv /\ IndexInv' /\ ChosenFits /\ ChosenFits' /\ Serves => [Users!Next]_usersVars
<1> SUFFICES ASSUME IndexInv, IndexInv', ChosenFits, ChosenFits', Serves PROVE [Users!Next]_usersVars
    OBVIOUS
<1>1. AcksStand(outcome)
    BY DEF Serves
<1>2. CASE UNCHANGED <<last_applied, applied>>
    BY <1>1, <1>2, OnlyTells
<1>3. ASSUME NEW i \in Server, Applies(i) PROVE Users!Next
    BY <1>1, <1>3, DeliversInOrder DEF Users!Next
<1>4. ASSUME NEW i \in Server, Reset(i), NoNewAcks(outcome) PROVE Users!Next
    <2>1. Chosen' = Chosen /\ last_applied' = [last_applied EXCEPT ![i] = 0]
        BY <1>4 DEF Chosen, Reset
    <2>2. Acked' = Acked
        BY <1>1, <1>4 DEF Acked, AcksStand, NoNewAcks
    <2>3. Users!Close(i)
        BY <2>1, <2>2 DEF Users!Close, Acked
    <2> QED BY <2>3 DEF Users!Next
<1> QED BY <1>2, <1>3, <1>4 DEF Serves

LEMMA WorkersInitRefines == Init => Users!Init
<1> SUFFICES ASSUME Init PROVE Users!Init
    OBVIOUS
<1>1. Chosen = <<>>
    <2>1. {a[1] : a \in applied} = {}
        BY DEF Init
    <2>2. Chosen = [k \in {} |-> CHOOSE c \in Cmd : <<k, c>> \in applied]
        BY <2>1 DEF Chosen
    <2>3. DOMAIN Chosen = {} /\ Chosen = [k \in DOMAIN Chosen |-> Chosen[k]]
        BY <2>2
    <2> QED BY <2>3
<1>2. last_applied = [p \in Server |-> 0] /\ {c \in Cmd : outcome[c] = "ack"} = {}
    BY DEF Init
<1> QED BY <1>1, <1>2 DEF Users!Init

\* While no second leader is elected, the workers implement the replicated log
\* that wraft promises (README.md:27-32): one sequence of commands grows, every
\* state machine receives it in order, from its start after a reload, and a user
\* told Ack finds its command in it (apply_log, worker.rs:234-247, and
\* advance_commit_index, worker.rs:547-572).
THEOREM WorkersImplementLog == Spec /\ []OneLeader => ImplementsReplicatedLog
<1>1. IndexInv /\ ElectionInv => ElectionSafety
    BY OneWinnerPerTerm DEF ElectionInv, IndexInv
<1>2. IndexInv => TypeOK
    BY DEF IndexInv
<1>3. IndexInv /\ IndexInv' /\ ChosenFits /\ ChosenFits' /\ Serves =>
          [Users!Next]_<<Chosen, last_applied, {c \in Cmd : outcome[c] = "ack"}>>
    BY WorkersStepRefines DEF usersVars, Acked
<1>4. Serves => TicketInv'
    BY DEF Serves
<1> QED BY <1>1, <1>2, <1>3, <1>4, OneLeaderOneOrder, AcksAreApplied, ChosenIsSequence, WorkersInitRefines,
           IndexInvInit, IndexInvNext, ServiceInvInit, ServiceInvNext, TicketInvInit, ServesNext,
           PrefixInvInit, PrefixInvNext, PTL DEF Spec, ImplementsReplicatedLog, Users!Spec

=============================================================================
