---------------------------- MODULE RaftLogProofs ----------------------------
(***************************************************************************)
(* Logs of RaftWorker match, for every cluster, every set of commands and   *)
(* all bounds.  An entry is looked at with its index and the term of the    *)
(* entry before it, in logs and in calls on their way alike: of one index   *)
(* and one term there is a single entry, after a single other one, because  *)
(* a leader alone makes the entries of its term and has them all.  What     *)
(* leaders then count as replicated is there.                               *)
(***************************************************************************)
EXTENDS RaftWorkerProofs, WellFoundedInduction

\* An entry at its place: the index and the term of the entry before it.
Placed(k, entry, prev) == [idx |-> k, entry |-> entry, prev |-> prev]

PlacedInLog(lg) ==
    {Placed(k, lg[k], IF k = 1 THEN 0 ELSE lg[k - 1].term) : k \in 1 .. Len(lg)}
SentPrev(m, k) ==
    IF m.prev_log_index + k = 1 THEN 0
    ELSE IF k = 1 THEN m.prev_log_term ELSE m.entries[k - 1].term
PlacedInCall(m) ==
    {Placed(m.prev_log_index + k, m.entries[k], SentPrev(m, k)) : k \in 1 .. Len(m.entries)}

PlacedInLogs == UNION {PlacedInLog(log[i]) : i \in Server}
PlacedInCalls == UNION {PlacedInCall(m) : m \in {x \in rpcs : x.kind = "AppendEntries"}}
Places == PlacedInLogs \cup PlacedInCalls

Win(t, i) == [term |-> t, leader |-> i]

OneEntryPerPlace ==
    \A a, b \in Places : a.idx = b.idx /\ a.entry.term = b.entry.term => a = b
EntriesOfWinners == \A a \in Places : \E e \in elected : e.term = a.entry.term

\* A leader holds the entries of its term.
LeadersHaveTheirs ==
    \A i \in Server : role[i] = "Leader" =>
        /\ Win(current_term[i], i) \in elected
        /\ \A a \in Places : a.entry.term = current_term[i] => a.idx <= Len(log[i])

\* A round that is not decided has not been won before.
WinsArePast ==
    /\ \A e \in elected : e.term <= current_term[e.leader]
    /\ \A i \in Server : role[i] = "Candidate" => Win(current_term[i], i) \notin elected

LogInv ==
    /\ OneEntryPerPlace
    /\ EntriesOfWinners
    /\ LeadersHaveTheirs
    /\ WinsArePast

-----------------------------------------------------------------------------
(* Logs that agree *)

LEMMA SmallestOf ==
    ASSUME NEW S \in SUBSET Nat, S # {}
    PROVE  \E n \in S : \A k \in S : n <= k
<1> DEFINE R == {ss \in Nat \X Nat : ss[1] < ss[2]}
<1>1. IsWellFoundedOn(R, Nat)
    BY NatLessThanWellFounded DEF OpToRel
<1>2. \A x, y \in Nat : <<y, x>> \in R <=> y < x
    OBVIOUS
<1> HIDE DEF R
<1>3. PICK n \in S : \A k \in S : ~(<<k, n>> \in R)
    BY <1>1, WFMin
<1>4. \A k \in S : ~(k < n) /\ k \in Nat /\ n \in Nat
    BY <1>2, <1>3
<1>5. \A k \in S : n <= k
    BY <1>4
<1> QED BY <1>5

LEMMA PlaceOfEntry ==
    ASSUME NEW i \in Server, NEW k \in 1 .. Len(log[i])
    PROVE  Placed(k, log[i][k], IF k = 1 THEN 0 ELSE log[i][k - 1].term) \in Places
<1> DEFINE p == Placed(k, log[i][k], IF k = 1 THEN 0 ELSE log[i][k - 1].term)
<1>1. p \in PlacedInLog(log[i])
    BY DEF PlacedInLog
<1> HIDE DEF p
<1>2. p \in Places
    BY <1>1 DEF Places, PlacedInLogs, PlacedInCalls
<1> QED BY <1>2 DEF p

LEMMA PlaceCases ==
    ASSUME NEW a \in Places
    PROVE  \/ \E i \in Server : a \in PlacedInLog(log[i])
           \/ \E m \in rpcs : m.kind = "AppendEntries" /\ a \in PlacedInCall(m)
BY DEF Places, PlacedInLogs, PlacedInCalls

LEMMA PlaceTypes == ASSUME TypeOK, NEW a \in Places PROVE a.idx \in Nat /\ a.entry \in Entry
<1>1. ASSUME NEW i \in Server, a \in PlacedInLog(log[i]) PROVE a.idx \in Nat /\ a.entry \in Entry
    <2>1. PICK k \in 1 .. Len(log[i]) : a = Placed(k, log[i][k], IF k = 1 THEN 0 ELSE log[i][k - 1].term)
        BY <1>1 DEF PlacedInLog
    <2>2. log[i][k] \in Entry /\ k \in Nat
        BY ElementOfSeq, LenProperties DEF TypeOK
    <2> QED BY <2>1, <2>2 DEF Placed
<1>2. ASSUME NEW m \in rpcs, m.kind = "AppendEntries", a \in PlacedInCall(m)
      PROVE  a.idx \in Nat /\ a.entry \in Entry
    <2>1. PICK k \in 1 .. Len(m.entries) : a = Placed(m.prev_log_index + k, m.entries[k], SentPrev(m, k))
        BY <1>2 DEF PlacedInCall
    <2>2. m.prev_log_index \in Nat /\ m.entries \in Seq(Entry)
        BY <1>2, MessageKinds DEF TypeOK, AppendEntriesRequest
    <2>3. m.entries[k] \in Entry /\ m.prev_log_index + k \in Nat
        BY <2>2, ElementOfSeq, LenProperties
    <2> QED BY <2>1, <2>3 DEF Placed
<1> QED BY <1>1, <1>2, PlaceCases

\* Where two logs have an entry of one term they agree before it as well: the
\* last index below it where their terms differ would be followed by one place
\* that both hold.
LEMMA PlacesMatch == TypeOK /\ OneEntryPerPlace => LogMatching
<1> SUFFICES ASSUME TypeOK, OneEntryPerPlace, NEW i \in Server, NEW j \in Server,
                    NEW k \in 1 .. Smaller(Len(log[i]), Len(log[j])), log[i][k].term = log[j][k].term,
                    NEW n \in 1 .. k
             PROVE  log[i][n] = log[j][n]
    BY DEF LogMatching
<1>1. Len(log[i]) \in Nat /\ Len(log[j]) \in Nat
    BY LenProperties DEF TypeOK
<1>2. k \in Nat /\ k >= 1 /\ k <= Len(log[i]) /\ k <= Len(log[j])
    BY <1>1 DEF Smaller
<1> DEFINE prev(s, x) == IF x = 1 THEN 0 ELSE log[s][x - 1].term
<1>3. ASSUME NEW x \in 1 .. k, log[i][x].term = log[j][x].term
      PROVE  log[i][x] = log[j][x] /\ prev(i, x) = prev(j, x)
    <2>1. /\ Placed(x, log[i][x], prev(i, x)) \in Places
          /\ Placed(x, log[j][x], prev(j, x)) \in Places
        BY <1>1, <1>2, PlaceOfEntry
    <2>2. Placed(x, log[i][x], prev(i, x)) = Placed(x, log[j][x], prev(j, x))
        BY <1>3, <2>1 DEF OneEntryPerPlace, Placed
    <2> HIDE DEF prev
    <2> QED BY <2>2 DEF Placed
<1>4. \A x \in 1 .. k : log[i][x].term = log[j][x].term
    <2> DEFINE S == {d \in 0 .. k - 1 : log[i][k - d].term # log[j][k - d].term}
    <2>1. ASSUME S # {} PROVE FALSE
        <3>1. S \in SUBSET Nat
            OBVIOUS
        <3>2. PICK d \in S : \A e \in S : d <= e
            BY <2>1, <3>1, SmallestOf
        <3>3. d \in 1 .. k - 1
            BY <1>2, <3>2
        <3>4. d - 1 \notin S
            <4>1. \A e \in S : d <= e
                BY <3>2
            <4>2. ~(d <= d - 1)
                BY <3>3
            <4> HIDE DEF S
            <4> QED BY <4>1, <4>2
        <3>5. k - (d - 1) \in 2 .. k /\ k - (d - 1) - 1 = k - d
            BY <1>2, <3>3
        <3>6. log[i][k - (d - 1)].term = log[j][k - (d - 1)].term
            BY <1>2, <3>3, <3>4
        <3>7. prev(i, k - (d - 1)) = prev(j, k - (d - 1))
            BY <1>3, <3>5, <3>6
        <3>8. log[i][k - d].term = log[j][k - d].term
            BY <3>5, <3>7
        <3> QED BY <3>2, <3>8
    <2>2. ASSUME NEW x \in 1 .. k PROVE log[i][x].term = log[j][x].term
        <3>1. k - x \in 0 .. k - 1 /\ k - (k - x) = x
            <4>1. x \in 1 .. k /\ k \in Nat
                BY <1>2
            <4> QED BY ONLY <4>1
        <3>2. k - x \notin S
            BY <2>1
        <3> QED BY <3>1, <3>2
    <2> QED BY <2>2
<1> QED BY <1>3, <1>4

-----------------------------------------------------------------------------
(* Steps that make no entry *)

RolesSteady ==
    /\ UNCHANGED elected
    /\ \A i \in Server :
          /\ current_term'[i] >= current_term[i]
          /\ role'[i] \in {"Leader", "Candidate"} => role'[i] = role[i] /\ current_term'[i] = current_term[i]

LogsLonger == \A i \in Server : Len(log'[i]) >= Len(log[i]) /\ Len(log[i]) \in Nat /\ Len(log'[i]) \in Nat

LEMMA WinsStay ==
    ASSUME TypeOK, TypeOK', WinsArePast, RolesSteady
    PROVE  WinsArePast'
<1>1. \A e \in elected : e.term \in Nat /\ e.leader \in Server
    BY DEF TypeOK, Term
<1>2. \A i \in Server : current_term[i] \in Nat /\ current_term'[i] \in Nat
    BY DEF TypeOK, Term
<1>3. ASSUME NEW e \in elected PROVE e.term <= current_term'[e.leader]
    BY <1>1, <1>2 DEF WinsArePast, RolesSteady
<1> QED BY <1>3 DEF WinsArePast, RolesSteady

LEMMA SteadyKeeps ==
    ASSUME TypeOK, TypeOK', LogInv, RolesSteady, LogsLonger, Places' \subseteq Places
    PROVE  LogInv'
<1>1. OneEntryPerPlace' /\ EntriesOfWinners'
    BY DEF LogInv, OneEntryPerPlace, EntriesOfWinners, RolesSteady
<1>2. LeadersHaveTheirs'
    <2> SUFFICES ASSUME NEW i \in Server, role'[i] = "Leader"
                 PROVE  /\ Win(current_term'[i], i) \in elected
                        /\ \A a \in Places' : a.entry.term = current_term'[i] => a.idx <= Len(log'[i])
        BY DEF LeadersHaveTheirs, RolesSteady
    <2>1. role[i] = "Leader" /\ current_term'[i] = current_term[i]
        BY DEF RolesSteady
    <2>2. \A a \in Places : a.idx \in Nat
        BY PlaceTypes
    <2> QED BY <2>1, <2>2 DEF LogInv, LeadersHaveTheirs, LogsLonger
<1>3. WinsArePast'
    BY WinsStay DEF LogInv
<1> QED BY <1>1, <1>2, <1>3 DEF LogInv

\* The calls among msgs carry entries of S only.
Carries(msgs, S) == \A m \in msgs : m.kind = "AppendEntries" => PlacedInCall(m) \subseteq S

\* A step that makes no entry and moves none into a log.
LogsQuiet == RolesSteady /\ UNCHANGED log /\ Carries(rpcs', Places)

LEMMA QuietKeeps ==
    ASSUME TypeOK, TypeOK', LogInv, LogsQuiet
    PROVE  LogInv'
<1>1. LogsLonger
    <2>1. \A i \in Server : Len(log[i]) \in Nat
        BY LenProperties DEF TypeOK
    <2> QED BY <2>1 DEF LogsQuiet, LogsLonger
<1>2. Places' \subseteq Places
    <2>1. ASSUME NEW i \in Server PROVE PlacedInLog(log'[i]) \subseteq Places
        BY DEF Places, PlacedInLogs, LogsQuiet
    <2>2. ASSUME NEW m \in rpcs', m.kind = "AppendEntries" PROVE PlacedInCall(m) \subseteq Places
        BY <2>2 DEF LogsQuiet, Carries
    <2> QED BY <2>1, <2>2 DEF Places, PlacedInLogs, PlacedInCalls
<1> QED BY <1>1, <1>2, SteadyKeeps DEF LogsQuiet

LEMMA RoleKept ==
    ASSUME TypeOK, UNCHANGED <<role, current_term, elected>>
    PROVE  RolesSteady
<1>1. \A i \in Server : current_term[i] \in Nat
    BY DEF TypeOK, Term
<1> QED BY <1>1 DEF RolesSteady

LEMMA RoleLeft ==
    ASSUME TypeOK, NEW i \in Server, NEW newRole, newRole \notin {"Leader", "Candidate"},
           role' = [role EXCEPT ![i] = newRole],
           NEW t \in Nat, t >= current_term[i], current_term' = [current_term EXCEPT ![i] = t],
           UNCHANGED elected
    PROVE  RolesSteady
<1>1. \A j \in Server : current_term[j] \in Nat
    BY DEF TypeOK, Term
<1>2. \A j \in Server : j # i => role'[j] = role[j] /\ current_term'[j] = current_term[j]
    BY DEF TypeOK
<1>3. role'[i] = newRole /\ current_term'[i] = t
    BY DEF TypeOK
<1> QED BY <1>1, <1>2, <1>3 DEF RolesSteady

\* A call that nobody awaits any longer carries what it did.
LEMMA OrphanCarries ==
    ASSUME NEW m \in Message, m.kind = "AppendEntries"
    PROVE  /\ [m EXCEPT !.live = FALSE].kind = "AppendEntries"
           /\ PlacedInCall([m EXCEPT !.live = FALSE]) = PlacedInCall(m)
<1> DEFINE x == [m EXCEPT !.live = FALSE]
<1>1. m \in AppendEntriesRequest
    BY MessageKinds
<1>2. /\ x.kind = m.kind /\ x.prev_log_index = m.prev_log_index /\ x.prev_log_term = m.prev_log_term
      /\ x.entries = m.entries
    BY <1>1 DEF AppendEntriesRequest
<1> HIDE DEF x
<1>3. PlacedInCall(x) = PlacedInCall(m)
    BY <1>2 DEF PlacedInCall, SentPrev
<1> QED BY <1>2, <1>3 DEF x

LEMMA AbandonCarries ==
    ASSUME NEW i \in Server, NEW msgs \in SUBSET Message, NEW S, Carries(msgs, S)
    PROVE  Carries(Abandon(i, msgs), S)
<1> SUFFICES ASSUME NEW x \in Abandon(i, msgs), x.kind = "AppendEntries"
             PROVE  PlacedInCall(x) \subseteq S
    BY DEF Carries
<1> DEFINE ends(m) == m.from = i /\ m.kind \in {"RequestVote", "AppendEntries"}
<1>1. PICK m \in msgs : x = IF ends(m) THEN [m EXCEPT !.live = FALSE] ELSE m
    BY DEF Abandon
<1>2. CASE ~ends(m)
    BY <1>1, <1>2 DEF Carries
<1>3. CASE ends(m) /\ m.kind = "RequestVote"
    <2>1. m \in RequestVoteRequest
        BY <1>3, MessageKinds
    <2>2. x.kind = "RequestVote"
        BY <1>1, <1>3, <2>1 DEF RequestVoteRequest
    <2> QED BY <2>2
<1>4. CASE ends(m) /\ m.kind = "AppendEntries"
    <2>1. PlacedInCall(x) = PlacedInCall(m)
        BY <1>1, <1>4, OrphanCarries
    <2> QED BY <1>4, <2>1 DEF Carries
<1> QED BY <1>2, <1>3, <1>4

LEMMA LeaveRoleCarries ==
    ASSUME NEW i \in Server, NEW newRole, NEW out, NEW lg, NEW inFlight,
           NEW msgs \in SUBSET Message, NEW S, Carries(msgs, S),
           LeaveRole(i, newRole, out, lg, inFlight, msgs)
    PROVE  role' = [role EXCEPT ![i] = newRole] /\ Carries(rpcs', S)
<1>1. /\ role' = [role EXCEPT ![i] = newRole]
      /\ AnswerClients(i, Waiting(lg, inFlight), FALSE, out, Abandon(i, msgs))
    BY DEF LeaveRole
<1>2. \A m \in rpcs' : m \in Abandon(i, msgs) \/ m.kind = "ForwardAnswer"
    BY <1>1 DEF AnswerClients
<1>3. Carries(Abandon(i, msgs), S)
    BY AbandonCarries
<1> QED BY <1>1, <1>2, <1>3 DEF Carries

-----------------------------------------------------------------------------
(* What leaders send and receivers take *)

LEMMA CallPlaces ==
    ASSUME NEW i \in Server, NEW lg \in Seq(Entry), NEW next \in [Server -> Int],
           NEW p \in Server, next[p] >= 1
    PROVE  PlacedInCall(AppendEntriesTo(i, p, lg, next)) \subseteq PlacedInLog(lg)
<1> DEFINE first == next[p]
           last == Smaller(next[p] + MAX_BATCH_SIZE - 1, Len(lg))
           es == SubSeq(lg, first, last)
           m == AppendEntriesTo(i, p, lg, next)
<1>1. first \in Int /\ first >= 1 /\ Len(lg) \in Nat /\ last \in Int /\ last <= Len(lg)
    BY LenProperties, BoundAssumption DEF Smaller
<1>2. /\ m.prev_log_index = first - 1 /\ m.entries = es
      /\ m.prev_log_term = IF first > 1 THEN lg[first - 1].term ELSE 0
    BY DEF AppendEntriesTo
<1> HIDE DEF last, first, m
<1>3. Len(es) \in Nat /\ \A k \in 1 .. Len(es) : first + k - 1 \in 1 .. Len(lg) /\ es[k] = lg[first + k - 1]
    <2>1. \A k \in first .. last : lg[k] \in Entry
        BY <1>1, ElementOfSeq
    <2>2. /\ Len(es) = IF first <= last THEN last - first + 1 ELSE 0
          /\ \A k \in 1 .. last - first + 1 : es[k] = lg[first + k - 1]
        BY <1>1, <2>1, SubSeqProperties
    <2> HIDE DEF es
    <2> QED BY <1>1, <2>2
<1> HIDE DEF es
<1>4. ASSUME NEW k \in 1 .. Len(es)
      PROVE  Placed(first - 1 + k, es[k], SentPrev(m, k)) \in PlacedInLog(lg)
    <2> DEFINE n == first + k - 1
    <2>1. n \in 1 .. Len(lg) /\ es[k] = lg[n] /\ first - 1 + k = n
        BY <1>1, <1>3
    <2>2. SentPrev(m, k) = IF n = 1 THEN 0 ELSE lg[n - 1].term
        <3>1. CASE n = 1
            BY <1>2, <2>1, <3>1 DEF SentPrev
        <3>2. CASE n # 1 /\ k = 1
            BY <1>1, <1>2, <2>1, <3>2 DEF SentPrev
        <3>3. CASE n # 1 /\ k # 1
            <4>1. k - 1 \in 1 .. Len(es) /\ first + (k - 1) - 1 = n - 1
                BY <1>1, <1>3, <3>3
            <4>2. es[k - 1] = lg[n - 1]
                BY <1>3, <4>1
            <4> QED BY <1>2, <2>1, <3>3, <4>2 DEF SentPrev
        <3> QED BY <3>1, <3>2, <3>3
    <2> HIDE DEF n
    <2> QED BY <2>1, <2>2 DEF PlacedInLog
<1> QED BY <1>2, <1>4 DEF PlacedInCall, m

LEMMA CallsCarry ==
    ASSUME NEW i \in Server, NEW lg \in Seq(Entry), NEW next \in [Server -> Int],
           NEW targets \in SUBSET Server, \A p \in targets : next[p] >= 1,
           NEW S, PlacedInLog(lg) \subseteq S
    PROVE  Carries(Calls(i, targets, lg, next), S)
BY CallPlaces DEF Carries, Calls

\* The receiver of a call that matches keeps its log, but for a last entry of
\* another term than the one received, and appends what is beyond it.
LEMMA MergeEntries ==
    ASSUME NEW lg \in Seq(Entry), NEW m \in AppendEntriesRequest,
           PrevLogMatches(lg, m), ~OverwritePanics(lg, m.prev_log_index, m.entries)
    PROVE  LET merged == Merge(lg, m.prev_log_index, m.entries) IN
           \E kept \in m.prev_log_index .. Len(lg) :
               /\ Len(merged) \in Nat /\ kept <= Len(merged)
               /\ \A k \in m.prev_log_index + 1 .. kept :
                      k - m.prev_log_index <= Len(m.entries) => lg[k].term = m.entries[k - m.prev_log_index].term
               /\ \A k \in 1 .. kept : merged[k] = lg[k]
               /\ \A k \in kept + 1 .. Len(merged) :
                      k - m.prev_log_index \in 1 .. Len(m.entries) /\ merged[k] = m.entries[k - m.prev_log_index]
<1> DEFINE prev == m.prev_log_index
           es == m.entries
           kept == IF Len(lg) \in Conflicts(lg, prev, es) THEN Len(lg) - 1 ELSE Len(lg)
           old == SubSeq(lg, 1, kept)
           new == SubSeq(es, kept - prev + 1, Len(es))
           merged == Merge(lg, prev, es)
<1>1. /\ prev \in Nat /\ es \in Seq(Entry) /\ Len(lg) \in Nat /\ Len(es) \in Nat
      /\ prev <= Len(lg) /\ (prev # 0 => lg[prev].term = m.prev_log_term)
    BY LenProperties DEF AppendEntriesRequest, PrevLogMatches
<1>2. kept \in Nat /\ prev <= kept /\ kept <= Len(lg)
    BY <1>1 DEF Conflicts
<1>3. \A k \in prev + 1 .. kept : k - prev <= Len(es) => lg[k].term = es[k - prev].term
    <2> SUFFICES ASSUME NEW k \in prev + 1 .. kept, k - prev <= Len(es), lg[k].term # es[k - prev].term
                 PROVE  FALSE
        OBVIOUS
    <2>1. k \in Conflicts(lg, prev, es)
        BY <1>1, <1>2 DEF Conflicts
    <2>2. k = Len(lg)
        BY <1>1, <1>2, <2>1 DEF OverwritePanics
    <2> QED BY <1>1, <2>1, <2>2
<1>4. merged = old \o new
    BY DEF Merge
<1> HIDE DEF kept, merged
<1>5. old \in Seq(Entry) /\ Len(old) = kept /\ \A k \in 1 .. kept : old[k] = lg[k]
    <2>1. \A k \in 1 .. kept : lg[k] \in Entry
        BY <1>1, <1>2, ElementOfSeq
    <2> QED BY <1>2, <2>1, SubSeqProperties
<1>6. /\ new \in Seq(Entry) /\ Len(new) \in Nat
      /\ \A k \in 1 .. Len(new) : kept - prev + k \in 1 .. Len(es) /\ new[k] = es[kept - prev + k]
    <2> DEFINE first == kept - prev + 1
    <2>1. first \in Int /\ first >= 1
        BY <1>1, <1>2
    <2>2. \A k \in first .. Len(es) : es[k] \in Entry
        BY <1>1, <2>1, ElementOfSeq
    <2>3. /\ SubSeq(es, first, Len(es)) \in Seq(Entry)
          /\ Len(SubSeq(es, first, Len(es))) = IF first <= Len(es) THEN Len(es) - first + 1 ELSE 0
          /\ \A k \in 1 .. Len(es) - first + 1 : SubSeq(es, first, Len(es))[k] = es[first + k - 1]
        <3> HIDE DEF first, es
        <3> QED BY <1>1, <2>1, <2>2, SubSeqProperties
    <2>4. new = SubSeq(es, first, Len(es))
        OBVIOUS
    <2> HIDE DEF es, new
    <2>5. new \in Seq(Entry) /\ Len(new) \in Nat
        BY <2>3, <2>4, LenProperties
    <2>6. ASSUME NEW k \in 1 .. Len(new)
          PROVE  kept - prev + k \in 1 .. Len(es) /\ new[k] = es[kept - prev + k]
        <3>1. Len(new) = IF first <= Len(es) THEN Len(es) - first + 1 ELSE 0
            BY <2>3, <2>4
        <3>2. first \in Int
            BY <2>1
        <3>3. new[k] = es[first + k - 1]
            <4> HIDE DEF first
            <4>1. k \in 1 .. Len(es) - first + 1
                BY <1>1, <3>1, <3>2
            <4> QED BY <2>3, <2>4, <4>1
        <3>4. first + k - 1 = kept - prev + k
            BY <1>1, <1>2
        <3>5. kept - prev + k \in 1 .. Len(es)
            BY <1>1, <1>2, <3>1
        <3> QED BY <3>3, <3>4, <3>5
    <2> QED BY <2>5, <2>6
<1> HIDE DEF old, new
<1>7. /\ Len(merged) = kept + Len(new)
      /\ \A k \in 1 .. Len(merged) : merged[k] = IF k <= kept THEN lg[k] ELSE es[k - prev]
    <2>1. /\ Len(merged) = kept + Len(new)
          /\ \A k \in 1 .. kept + Len(new) : merged[k] = IF k <= kept THEN old[k] ELSE new[k - kept]
        <3>1. /\ Len(old \o new) = Len(old) + Len(new)
              /\ \A k \in 1 .. Len(old) + Len(new) :
                     (old \o new)[k] = IF k <= Len(old) THEN old[k] ELSE new[k - Len(old)]
            BY <1>5, <1>6, ConcatProperties
        <3> QED BY <1>4, <1>5, <3>1
    <2>2. ASSUME NEW k \in 1 .. Len(merged), k > kept PROVE merged[k] = es[k - prev]
        <3>1. k - kept \in 1 .. Len(new) /\ kept - prev + (k - kept) = k - prev
            BY <1>1, <1>2, <1>6, <2>1, <2>2
        <3>2. new[k - kept] = es[k - prev]
            BY <1>6, <3>1
        <3> QED BY <1>2, <2>1, <2>2, <3>2
    <2> QED BY <1>2, <1>5, <2>1, <2>2
<1>8. ASSUME NEW k \in kept + 1 .. Len(merged)
      PROVE  k - prev \in 1 .. Len(es) /\ merged[k] = es[k - prev]
    <2>1. k - kept \in 1 .. Len(new) /\ kept - prev + (k - kept) = k - prev
        <3>1. /\ k \in kept + 1 .. kept + Len(new)
              /\ kept \in Nat /\ prev \in Nat /\ Len(new) \in Nat
            BY <1>1, <1>2, <1>6, <1>7
        <3> HIDE DEF prev
        <3> QED BY ONLY <3>1
    <2>2. k - prev \in 1 .. Len(es)
        BY <1>6, <2>1
    <2> QED BY <1>1, <1>2, <1>6, <1>7, <2>2
<1>9. kept \in prev .. Len(lg) /\ Len(merged) \in Nat /\ kept <= Len(merged)
    BY <1>1, <1>2, <1>6, <1>7
<1>10. \A k \in 1 .. kept : merged[k] = lg[k]
    BY <1>1, <1>2, <1>6, <1>7
<1> HIDE DEF prev, es
<1> QED BY <1>3, <1>8, <1>9, <1>10 DEF merged, prev, es

\* What the receiver of a call that matches has then, it had before or got from it.
LEMMA MergePlaces ==
    ASSUME NEW lg \in Seq(Entry), NEW m \in AppendEntriesRequest,
           PrevLogMatches(lg, m), ~OverwritePanics(lg, m.prev_log_index, m.entries)
    PROVE  PlacedInLog(Merge(lg, m.prev_log_index, m.entries)) \subseteq PlacedInLog(lg) \cup PlacedInCall(m)
<1> DEFINE prev == m.prev_log_index
           es == m.entries
           merged == Merge(lg, prev, es)
<1>1. /\ prev \in Nat /\ Len(lg) \in Nat /\ Len(es) \in Nat
      /\ prev # 0 => lg[prev].term = m.prev_log_term
    BY LenProperties DEF AppendEntriesRequest, PrevLogMatches
<1>2. PICK kept \in prev .. Len(lg) :
          /\ Len(merged) \in Nat /\ kept <= Len(merged)
          /\ \A k \in prev + 1 .. kept : k - prev <= Len(es) => lg[k].term = es[k - prev].term
          /\ \A k \in 1 .. kept : merged[k] = lg[k]
          /\ \A k \in kept + 1 .. Len(merged) : k - prev \in 1 .. Len(es) /\ merged[k] = es[k - prev]
    BY MergeEntries
<1>3. kept \in Nat /\ prev <= kept /\ kept <= Len(lg)
    BY <1>1
<1> SUFFICES ASSUME NEW k \in 1 .. Len(merged)
             PROVE  Placed(k, merged[k], IF k = 1 THEN 0 ELSE merged[k - 1].term)
                        \in PlacedInLog(lg) \cup PlacedInCall(m)
    BY DEF PlacedInLog
<1> HIDE DEF merged
<1>4. CASE k <= kept
    <2>1. k \in 1 .. Len(lg) /\ merged[k] = lg[k]
        BY <1>1, <1>2, <1>3, <1>4
    <2>2. k # 1 => merged[k - 1] = lg[k - 1]
        BY <1>2, <1>3, <1>4
    <2> QED BY <2>1, <2>2 DEF PlacedInLog
<1>5. CASE k > kept
    <2> DEFINE n == k - prev
    <2>1. n \in 1 .. Len(es) /\ prev + n = k /\ merged[k] = es[n]
        BY <1>1, <1>2, <1>3, <1>5
    <2>2. SentPrev(m, n) = IF k = 1 THEN 0 ELSE merged[k - 1].term
        <3>1. CASE k = 1
            BY <2>1, <3>1 DEF SentPrev
        <3>2. CASE k # 1 /\ n = 1
            <4>1. k - 1 = prev /\ prev # 0 /\ k - 1 = kept
                BY <1>1, <1>2, <1>3, <1>5, <3>2
            <4>2. merged[k - 1] = lg[k - 1]
                BY <1>1, <1>2, <1>3, <4>1
            <4> QED BY <1>1, <2>1, <3>2, <4>1, <4>2 DEF SentPrev
        <3>3. CASE k # 1 /\ n # 1 /\ k - 1 > kept
            <4>1. k - 1 \in kept + 1 .. Len(merged) /\ (k - 1) - prev = n - 1
                BY <1>1, <1>2, <1>3, <3>3
            <4>2. merged[k - 1] = es[n - 1]
                BY <1>2, <4>1
            <4> QED BY <2>1, <3>3, <4>2 DEF SentPrev
        <3>4. CASE k # 1 /\ n # 1 /\ ~(k - 1 > kept)
            <4>1. k - 1 = kept /\ k - 1 \in prev + 1 .. kept /\ (k - 1) - prev = n - 1 /\ n - 1 <= Len(es)
                <5>1. k \in Nat /\ kept \in Nat /\ prev \in Nat /\ Len(es) \in Nat /\ prev <= kept
                    BY <1>1, <1>2, <1>3
                <5>2. k > kept /\ ~(k - 1 > kept) /\ n # 1 /\ n \in 1 .. Len(es) /\ prev + n = k
                    BY <1>5, <2>1, <3>4
                <5> HIDE DEF n
                <5> QED BY <5>1, <5>2
            <4>2. lg[k - 1].term = es[n - 1].term
                BY <1>2, <4>1
            <4>3. k - 1 \in 1 .. kept
                BY <1>1, <4>1
            <4>4. merged[k - 1] = lg[k - 1]
                BY <1>2, <4>3
            <4> QED BY <2>1, <3>4, <4>2, <4>4 DEF SentPrev
        <3> QED BY <3>1, <3>2, <3>3, <3>4
    <2> HIDE DEF n
    <2>3. Placed(prev + n, es[n], SentPrev(m, n)) \in PlacedInCall(m)
        BY <2>1 DEF PlacedInCall
    <2> QED BY <2>1, <2>2, <2>3
<1> QED BY <1>1, <1>2, <1>3, <1>4, <1>5

LEMMA ReplicateCarries ==
    ASSUME IndexInv, NEW i \in Server, NEW lg \in Seq(Entry), NEW peers \in SUBSET Server,
           NEW next \in [Server -> Int], NEW inFlight, NEW inFlightPeers, NEW out,
           NEW msgs \in SUBSET Message, NEW S, Carries(msgs, S), PlacedInLog(lg) \subseteq S,
           \A p \in Targets(i, peers, inFlightPeers) :
               next[p] >= 1 => AppendEntriesTo(i, p, lg, next) \in Message,
           Replicate(i, peers, lg, next, inFlight, inFlightPeers, out, msgs)
    PROVE  /\ Carries(rpcs', S)
           /\ UNCHANGED role \/ role' = [role EXCEPT ![i] = "UnderflowPanic"]
<1> DEFINE targets == Targets(i, peers, inFlightPeers)
<1>1. targets \in SUBSET Server
    BY DEF Targets
<1>2. ASSUME NEW sent \in SUBSET targets, \A p \in sent : next[p] >= 1
      PROVE  msgs \cup Calls(i, sent, lg, next) \in SUBSET Message /\ Carries(msgs \cup Calls(i, sent, lg, next), S)
    <2>1. Carries(Calls(i, sent, lg, next), S)
        BY <1>1, <1>2, CallsCarry
    <2>2. Calls(i, sent, lg, next) \in SUBSET Message
        BY <1>2 DEF Calls
    <2> QED BY <2>1, <2>2 DEF Carries
<1>3. CASE Underflows(targets, next)
    <2>1. PICK sent \in SUBSET {p \in targets : next[p] >= 1} :
              Stop(i, "UnderflowPanic", out, lg, inFlight, msgs \cup Calls(i, sent, lg, next))
        BY <1>3 DEF Replicate, PanicInAppendEntries
    <2>2. LeaveRole(i, "UnderflowPanic", out, lg, inFlight, msgs \cup Calls(i, sent, lg, next))
        BY <2>1 DEF Stop
    <2> HIDE DEF targets
    <2>3. /\ msgs \cup Calls(i, sent, lg, next) \in SUBSET Message
          /\ Carries(msgs \cup Calls(i, sent, lg, next), S)
        BY <1>2
    <2> QED BY <2>2, <2>3, LeaveRoleCarries
<1>4. CASE ~Underflows(targets, next)
    <2>1. /\ LeaderLoopTop(i, lg, match_indices[i], inFlight, out, msgs \cup Calls(i, targets, lg, next))
          /\ UNCHANGED role
        BY <1>4 DEF Replicate
    <2>2. \A p \in targets : next[p] >= 1
        BY <1>1, <1>4 DEF Underflows
    <2>3. Carries(msgs \cup Calls(i, targets, lg, next), S)
        BY <1>2, <2>2
    <2>4. \A m \in rpcs' : m \in msgs \cup Calls(i, targets, lg, next) \/ m.kind = "ForwardAnswer"
        BY <2>1 DEF LeaderLoopTop, AnswerClients
    <2> QED BY <2>1, <2>3, <2>4 DEF Carries
<1> QED BY <1>3, <1>4

-----------------------------------------------------------------------------
(* Actions that make no entry *)

LEMMA CarriedBefore ==
    ASSUME NEW msgs, \A m \in msgs : m.kind = "AppendEntries" => m \in rpcs
    PROVE  Carries(msgs, Places)
BY DEF Carries, Places, PlacedInLogs, PlacedInCalls

LEMMA LogCarried == ASSUME NEW i \in Server PROVE PlacedInLog(log[i]) \subseteq Places
BY DEF Places, PlacedInLogs, PlacedInCalls

LEMMA SameRoleQuiet ==
    ASSUME TypeOK, UNCHANGED <<role, current_term, elected, log>>,
           \A m \in rpcs' : m.kind = "AppendEntries" => m \in rpcs
    PROVE  LogsQuiet
BY RoleKept, CarriedBefore DEF LogsQuiet

LEMMA LeaveRoleQuiet ==
    ASSUME IndexInv, NEW i \in Server, NEW newRole, newRole \notin {"Leader", "Candidate"},
           NEW out, NEW lg, NEW inFlight,
           NEW msgs \in SUBSET Message, \A m \in msgs : m.kind = "AppendEntries" => m \in rpcs,
           LeaveRole(i, newRole, out, lg, inFlight, msgs),
           NEW t \in Nat, t >= current_term[i], current_term' = [current_term EXCEPT ![i] = t],
           UNCHANGED <<elected, log>>
    PROVE  LogsQuiet
<1>1. role' = [role EXCEPT ![i] = newRole] /\ Carries(rpcs', Places)
    BY CarriedBefore, LeaveRoleCarries
<1>2. RolesSteady
    BY <1>1, RoleLeft DEF IndexInv
<1> QED BY <1>1, <1>2 DEF LogsQuiet

LEMMA ReplicateQuiet ==
    ASSUME IndexInv, NEW i \in Server, NEW peers \in SUBSET Server,
           NEW next \in [Server -> Int], \A p \in Server : next[p] <= Len(log[i]) + 1,
           NEW inFlight, NEW inFlightPeers, NEW out, NEW msgs \in SUBSET rpcs,
           Replicate(i, peers, log[i], next, inFlight, inFlightPeers, out, msgs),
           UNCHANGED <<current_term, elected, log>>
    PROVE  LogsQuiet
<1>1. LogStep(i, log[i])
    BY LogStays DEF IndexInv
<1>2. \A p \in Targets(i, peers, inFlightPeers) : next[p] >= 1 => AppendEntriesTo(i, p, log[i], next) \in Message
    BY <1>1, CallsTyped
<1>3. log[i] \in Seq(Entry) /\ msgs \in SUBSET Message /\ current_term[i] \in Nat /\ current_term[i] >= current_term[i]
    BY DEF IndexInv, TypeOK, Term
<1>4. Carries(msgs, Places) /\ PlacedInLog(log[i]) \subseteq Places
    BY CarriedBefore, LogCarried
<1>5. /\ Carries(rpcs', Places)
      /\ UNCHANGED role \/ role' = [role EXCEPT ![i] = "UnderflowPanic"]
    BY <1>2, <1>3, <1>4, ReplicateCarries
<1>6. current_term' = [current_term EXCEPT ![i] = current_term[i]]
    BY DEF IndexInv, TypeOK
<1>7. RolesSteady
    <2>1. CASE UNCHANGED role
        BY <2>1, RoleKept DEF IndexInv
    <2>2. CASE role' = [role EXCEPT ![i] = "UnderflowPanic"]
        BY <1>3, <1>6, <2>2, RoleLeft DEF IndexInv
    <2> QED BY <1>5, <2>1, <2>2
<1> QED BY <1>5, <1>7 DEF LogsQuiet

LEMMA HeartbeatQuiet ==
    ASSUME IndexInv, NEW i \in Server, Heartbeat(i)
    PROVE  LogsQuiet
<1>1. /\ Replicate(i, Peers(i), log[i], next_indices[i], in_flight_client_requests[i], in_flight_peers[i],
                   outcome, rpcs)
      /\ UNCHANGED <<current_term, elected, log>>
    BY DEF Heartbeat, persistentVars, historyVars
<1>2. /\ Peers(i) \in SUBSET Server /\ next_indices[i] \in [Server -> Int] /\ rpcs \in SUBSET rpcs
      /\ \A p \in Server : next_indices[i][p] <= Len(log[i]) + 1
    BY DEF IndexInv, TypeOK, Peers, NextWithinLog
<1> QED BY <1>1, <1>2, ReplicateQuiet

LEMMA ResponseQuiet ==
    ASSUME IndexInv, NEW m \in rpcs, ReceiveAppendEntriesResponse(m)
    PROVE  LogsQuiet
<1> DEFINE i == m.to
<1>1. i \in Server /\ m.from \in Server /\ rpcs \in SUBSET Message
    BY MessageKinds DEF IndexInv, TypeOK
<1>2. rpcs \ {m} \in SUBSET rpcs /\ rpcs \ {m} \in SUBSET Message
    BY <1>1
<1>3. CASE AppendEntriesFailed(m)
    BY <1>3, SameRoleQuiet DEF AppendEntriesFailed, persistentVars, historyVars, IndexInv
<1>4. CASE AppendEntriesNewTerm(m)
    <2>1. m.term \in Nat /\ current_term[i] \in Nat
        BY <1>1, <1>4, MessageKinds DEF IndexInv, TypeOK, AppendEntriesNewTerm, AppendEntriesAnswer, Term
    <2>2. /\ m.term > current_term[i] /\ current_term' = [current_term EXCEPT ![i] = m.term]
          /\ LeaveRole(i, "Follower", outcome, log[i], in_flight_client_requests[i], rpcs \ {m})
          /\ UNCHANGED <<elected, log>>
        BY <1>4 DEF AppendEntriesNewTerm, BecomeFollower, historyVars
    <2>3. m.term >= current_term[i]
        BY <2>1, <2>2
    <2> QED BY <1>1, <1>2, <2>1, <2>2, <2>3, LeaveRoleQuiet
<1>5. CASE AppendEntriesSucceeded(m)
    <2>1. \A x \in rpcs' : x \in rpcs \/ x.kind = "ForwardAnswer"
        BY <1>5 DEF AppendEntriesSucceeded, LeaderLoopTop, AnswerClients
    <2>2. \A x \in rpcs' : x.kind = "AppendEntries" => x \in rpcs
        BY <2>1
    <2> QED BY <1>5, <2>2, SameRoleQuiet DEF AppendEntriesSucceeded, persistentVars, historyVars, IndexInv
<1>6. CASE AppendEntriesRefused(m)
    <2> DEFINE next == [next_indices[i] EXCEPT ![m.from] = Smaller(@, m.start - 1)]
    <2>1. m.start \in Nat
        BY <1>6, MessageKinds DEF IndexInv, TypeOK, AppendEntriesRefused, AppendEntriesAnswer
    <2>2. /\ UNCHANGED <<current_term, elected, log>>
          /\ Replicate(i, {m.from}, log[i], next, in_flight_client_requests[i],
                       in_flight_peers[i] \ {m.from}, outcome, rpcs \ {m})
        BY <1>6 DEF AppendEntriesRefused, persistentVars, historyVars
    <2>3. /\ log[i] \in Seq(Entry) /\ next_indices[i] \in [Server -> Int]
          /\ \A p \in Server : next_indices[i][p] <= Len(log[i]) + 1
        <3>1. \A p \in Server : next_indices[i][p] <= Len(log[i]) + 1
            BY <1>1 DEF IndexInv, NextWithinLog
        <3>2. log[i] \in Seq(Entry) /\ next_indices[i] \in [Server -> Int]
            BY <1>1 DEF IndexInv, TypeOK
        <3> HIDE DEF i
        <3> QED BY <3>1, <3>2
    <2>4. Len(log[i]) \in Nat
        BY <2>3, LenProperties
    <2>5. next \in [Server -> Int] /\ \A p \in Server : next[p] <= Len(log[i]) + 1
        <3>1. /\ Smaller(next_indices[i][m.from], m.start - 1) \in Int
              /\ Smaller(next_indices[i][m.from], m.start - 1) <= Len(log[i]) + 1
            BY <1>1, <2>1, <2>3, <2>4 DEF Smaller
        <3> QED BY <1>1, <2>3, <3>1
    <2>6. {m.from} \in SUBSET Server
        BY <1>1
    <2> HIDE DEF next, i
    <2> QED BY <1>1, <1>2, <2>2, <2>5, <2>6, ReplicateQuiet
<1> QED BY <1>3, <1>4, <1>5, <1>6 DEF ReceiveAppendEntriesResponse

LEMMA RefusalQuiet ==
    ASSUME IndexInv, NEW m \in rpcs, RefuseAppendEntries(m) \/ PanicInOverwriteLog(m)
    PROVE  LogsQuiet
<1> DEFINE i == m.to
<1>1. i \in Server /\ rpcs \in SUBSET Message
    BY MessageKinds DEF IndexInv, TypeOK
<1>2. CASE RefuseAppendEntries(m)
    <2>1. \A x \in rpcs' : x.kind = "AppendEntries" => x \in rpcs
        BY <1>2 DEF RefuseAppendEntries, AnswerAppendEntries
    <2> QED BY <1>2, <2>1, SameRoleQuiet DEF RefuseAppendEntries, persistentVars, historyVars, IndexInv
<1>3. CASE PanicInOverwriteLog(m)
    <2> DEFINE msgs == (rpcs \ {m}) \cup FailAppendEntries(m)
    <2>1. m \in AppendEntriesRequest /\ m.term \in Nat
        BY <1>3, MessageKinds DEF IndexInv, TypeOK, PanicInOverwriteLog, AppendEntriesRequest, Term
    <2>2. /\ m.term >= current_term[i] /\ current_term' = [current_term EXCEPT ![i] = m.term]
          /\ LeaveRole(i, "OverwritePanic", outcome, log[i], in_flight_client_requests[i], msgs)
          /\ UNCHANGED <<elected, log>>
        BY <1>3 DEF PanicInOverwriteLog, Stop, historyVars
    <2>3. \A x \in FailAppendEntries(m) : x.kind = "AppendEntriesError" /\ x \in Message
        BY <1>3, <2>1 DEF FailAppendEntries, AppendEntriesRequest, AppendEntriesError, Message
    <2>4. msgs \in SUBSET Message /\ \A x \in msgs : x.kind = "AppendEntries" => x \in rpcs
        BY <1>1, <2>3
    <2> HIDE DEF msgs
    <2> QED BY <1>1, <2>1, <2>2, <2>4, LeaveRoleQuiet
<1> QED BY <1>2, <1>3

LEMMA RequestVoteQuiet ==
    ASSUME IndexInv, NEW m \in rpcs, ReceiveRequestVote(m)
    PROVE  LogsQuiet
<1> DEFINE i == m.to
           newTerm == m.term > current_term[i]
           vote == IF newTerm THEN None ELSE voted_for[i]
           granted == (role[i] = "Leader" => newTerm) /\ VoteGrantedTo(m, i, vote)
           reply == IF granted /\ m.live
                    THEN {[kind |-> "VoteGranted", from |-> i, to |-> m.from, term |-> m.term]} ELSE {}
           msgs == (rpcs \ {m}) \cup reply
<1>1. /\ m.kind = "RequestVote" /\ i \in Server /\ m.from \in Server /\ rpcs \in SUBSET Message
      /\ m.term \in Nat /\ current_term \in [Server -> Nat]
    <2>1. m.kind = "RequestVote"
        BY DEF ReceiveRequestVote
    <2> QED BY <2>1, MessageKinds DEF IndexInv, TypeOK, RequestVoteRequest, Term
<1>2. /\ current_term' = [current_term EXCEPT ![i] = Larger(@, m.term)]
      /\ IF newTerm THEN BecomeFollower(i, msgs) ELSE StayInRole(msgs)
      /\ UNCHANGED <<elected, log>>
    BY DEF ReceiveRequestVote
<1>3. \A x \in reply : x.kind = "VoteGranted" /\ x \in Message
    BY <1>1 DEF Message, VoteGranted, Term
<1> HIDE DEF reply, granted, vote
<1>4. msgs \in SUBSET Message /\ \A x \in msgs : x.kind = "AppendEntries" => x \in rpcs
    BY <1>1, <1>3
<1> HIDE DEF msgs
<1>5. CASE newTerm
    <2>1. current_term' = [current_term EXCEPT ![i] = m.term] /\ m.term >= current_term[i]
        <3>1. m.term >= current_term[i] /\ (Larger(current_term[i], m.term) = m.term)
            BY <1>1, <1>5 DEF Larger
        <3>2. current_term' = [current_term EXCEPT ![i] = Larger(current_term[i], m.term)]
            BY <1>2
        <3> QED BY <3>1, <3>2
    <2>2. LeaveRole(i, "Follower", outcome, log[i], in_flight_client_requests[i], msgs)
        BY <1>2, <1>5 DEF BecomeFollower
    <2> QED BY <1>1, <1>2, <1>4, <2>1, <2>2, LeaveRoleQuiet
<1>6. CASE ~newTerm
    <2>1. UNCHANGED current_term
        BY <1>1, <1>2, <1>6 DEF Larger
    <2>2. UNCHANGED role /\ rpcs' = msgs
        BY <1>2, <1>6 DEF StayInRole
    <2> QED BY <1>2, <1>4, <2>1, <2>2, SameRoleQuiet DEF IndexInv
<1> QED BY <1>5, <1>6

\* What users, connections and failed calls do.
LEMMA ExchangeQuiet ==
    ASSUME IndexInv,
           \/ \E c \in Cmd : FollowerClientRequest(c) \/ CandidateClientRequest(c) \/ ForwardCallFails(c)
           \/ \E m \in rpcs : ReceiveForwardAnswer(m) \/ AppendEntriesCallFails(m)
           \/ \E i, j \in Server : Disconnect(i, j) \/ NewPeer(i, j)
    PROVE  LogsQuiet
<1>1. ASSUME NEW c \in Cmd, FollowerClientRequest(c) \/ CandidateClientRequest(c) \/ ForwardCallFails(c)
      PROVE  LogsQuiet
    <2>1. \A x \in rpcs' : x \in rpcs \/ x.kind = "Forward"
        <3>1. CASE FollowerClientRequest(c)
            BY <3>1 DEF FollowerClientRequest
        <3>2. CASE CandidateClientRequest(c)
            BY <3>2 DEF CandidateClientRequest
        <3>3. CASE ForwardCallFails(c)
            BY <3>3 DEF ForwardCallFails
        <3> QED BY <1>1, <3>1, <3>2, <3>3
    <2>2. \A x \in rpcs' : x.kind = "AppendEntries" => x \in rpcs
        BY <2>1
    <2> QED BY <1>1, <2>2, SameRoleQuiet
            DEF FollowerClientRequest, CandidateClientRequest, ForwardCallFails, persistentVars, historyVars, IndexInv
<1>2. ASSUME NEW m \in rpcs, ReceiveForwardAnswer(m) PROVE LogsQuiet
    BY <1>2, SameRoleQuiet DEF ReceiveForwardAnswer, persistentVars, historyVars, IndexInv
<1>3. ASSUME NEW m \in rpcs, AppendEntriesCallFails(m) PROVE LogsQuiet
    <2>1. RolesSteady /\ UNCHANGED log
        BY <1>3, RoleKept DEF AppendEntriesCallFails, persistentVars, historyVars, IndexInv
    <2>2. CASE m.kind = "AppendEntries"
        <3> DEFINE orphan == [m EXCEPT !.live = FALSE]
        <3>1. m \in Message
            BY DEF IndexInv, TypeOK
        <3>2. PlacedInCall(orphan) \subseteq Places
            <4>1. PlacedInCall(orphan) = PlacedInCall(m)
                BY <2>2, <3>1, OrphanCarries
            <4>2. Carries(rpcs, Places)
                BY CarriedBefore
            <4> QED BY <2>2, <4>1, <4>2 DEF Carries
        <3>3. rpcs' = (rpcs \ {m}) \cup {orphan} \cup FailAppendEntries(m)
            BY <1>3, <2>2 DEF AppendEntriesCallFails
        <3>4. \A x \in FailAppendEntries(m) : x.kind = "AppendEntriesError"
            BY DEF FailAppendEntries
        <3>5. Carries(rpcs, Places)
            BY CarriedBefore
        <3> HIDE DEF orphan
        <3> QED BY <2>1, <3>2, <3>3, <3>4, <3>5 DEF Carries, LogsQuiet
    <2>3. CASE m.kind # "AppendEntries"
        <3>1. \A x \in rpcs' : x.kind = "AppendEntries" => x \in rpcs
            BY <1>3, <2>3 DEF AppendEntriesCallFails
        <3> QED BY <2>1, <3>1, CarriedBefore DEF LogsQuiet
    <2> QED BY <2>2, <2>3
<1>4. ASSUME NEW i \in Server, NEW j \in Server, Disconnect(i, j) \/ NewPeer(i, j) PROVE LogsQuiet
    BY <1>4, SameRoleQuiet DEF Disconnect, NewPeer, persistentVars, historyVars, IndexInv
<1> QED BY <1>1, <1>2, <1>3, <1>4

LEMMA WindowQuiet ==
    ASSUME IndexInv, NEW i \in Server, CloseWindow(i) \/ Restart(i)
    PROVE  LogsQuiet
<1>1. current_term[i] \in Nat /\ current_term[i] >= current_term[i] /\ rpcs \in SUBSET Message
    BY DEF IndexInv, TypeOK, Term
<1>2. UNCHANGED current_term => current_term' = [current_term EXCEPT ![i] = current_term[i]]
    BY DEF IndexInv, TypeOK
<1>3. CASE CloseWindow(i)
    <2>1. /\ LeaveRole(i, "Closed", Forget(i), log[i], in_flight_client_requests[i], WithoutAnswersFor(i))
          /\ UNCHANGED <<current_term, log, elected>>
        BY <1>3 DEF CloseWindow, Stop, persistentVars, historyVars
    <2>2. /\ WithoutAnswersFor(i) \in SUBSET Message
          /\ \A x \in WithoutAnswersFor(i) : x.kind = "AppendEntries" => x \in rpcs
        BY <1>1 DEF WithoutAnswersFor
    <2> QED BY <1>1, <1>2, <2>1, <2>2, LeaveRoleQuiet
<1>4. CASE Restart(i)
    <2>1. /\ role' = [role EXCEPT ![i] = "Follower"]
          /\ rpcs' = (WithoutAnswersFor(i) \ SentTo(i)) \cup UNION {CallErrors(m) : m \in SentTo(i)}
          /\ UNCHANGED <<current_term, log, elected>>
        BY <1>4 DEF Restart, persistentVars, historyVars
    <2>2. \A m \in SentTo(i) : \A x \in CallErrors(m) : x.kind \in {"AppendEntriesError", "ForwardAnswer"}
        BY DEF CallErrors, FailAppendEntries
    <2>3. \A x \in rpcs' : x.kind = "AppendEntries" => x \in rpcs
        BY <2>1, <2>2 DEF WithoutAnswersFor
    <2>4. RolesSteady
        BY <1>1, <1>2, <2>1, RoleLeft DEF IndexInv
    <2> QED BY <2>1, <2>3, <2>4, CarriedBefore DEF LogsQuiet
<1> QED BY <1>3, <1>4

-----------------------------------------------------------------------------
(* Actions that move, make or enable entries *)

\* What logs hold and calls carry lies in a set.
LEMMA PlacesWithin ==
    ASSUME NEW S, \A j \in Server : PlacedInLog(log'[j]) \subseteq S, Carries(rpcs', S)
    PROVE  Places' \subseteq S
BY DEF Places, PlacedInLogs, PlacedInCalls, Carries

\* One log changes.
LEMMA OneLogWithin ==
    ASSUME TypeOK, NEW i \in Server, NEW lg, log' = [log EXCEPT ![i] = lg],
           NEW S, Places \subseteq S, PlacedInLog(lg) \subseteq S, Carries(rpcs', S)
    PROVE  Places' \subseteq S
<1>1. \A j \in Server : log'[j] = lg \/ log'[j] = log[j]
    BY DEF TypeOK
<1>2. ASSUME NEW j \in Server PROVE PlacedInLog(log'[j]) \subseteq S
    <2>1. PlacedInLog(log[j]) \subseteq Places
        BY LogCarried
    <2> QED BY <1>1, <2>1
<1> QED BY <1>2, PlacesWithin

\* A receiver's entries come from the call, each at its place.
LEMMA ReceivedEntriesKeep ==
    ASSUME IndexInv, IndexInv', LogInv, NEW m \in rpcs, ReceiveAppendEntries(m)
    PROVE  LogInv'
<1> DEFINE i == m.to
           accepted == m.term >= current_term[i] /\ PrevLogMatches(log[i], m)
           lg == IF accepted THEN Merge(log[i], m.prev_log_index, m.entries) ELSE log[i]
           msgs == (rpcs \ {m}) \cup AnswerAppendEntries(m, Larger(current_term[i], m.term), accepted)
           t == Larger(current_term[i], m.term)
<1>1. /\ m.kind = "AppendEntries" /\ i \in Server /\ m \in AppendEntriesRequest /\ m.term \in Nat
      /\ rpcs \in SUBSET Message /\ Credible(m, log) /\ current_term[i] \in Nat /\ log[i] \in Seq(Entry)
    <2>1. m.kind = "AppendEntries"
        BY DEF ReceiveAppendEntries
    <2> QED BY <2>1, MessageKinds DEF IndexInv, TypeOK, CredibleMessages, AppendEntriesRequest, Term
<1>2. /\ accepted => ~OverwritePanics(log[i], m.prev_log_index, m.entries)
      /\ current_term' = [current_term EXCEPT ![i] = t]
      /\ log' = [log EXCEPT ![i] = lg]
      /\ IF role[i] # "Follower" THEN BecomeFollower(i, msgs) ELSE StayInRole(msgs)
      /\ UNCHANGED elected
    BY DEF ReceiveAppendEntries, historyVars
<1>3. t \in Nat /\ t >= current_term[i] /\ accepted \in BOOLEAN
    BY <1>1 DEF Larger, PrevLogMatches
<1>4. \A x \in AnswerAppendEntries(m, t, accepted) : x \in Message /\ x.kind = "AppendEntriesAnswer"
    BY <1>1, <1>3, AnswerAppendEntriesFacts DEF Credible
<1>5. msgs \in SUBSET Message /\ Carries(msgs, Places)
    <2>1. \A x \in msgs : x.kind = "AppendEntries" => x \in rpcs
        BY <1>4
    <2> QED BY <1>1, <1>4, <2>1, CarriedBefore
<1>6. PlacedInLog(lg) \subseteq Places
    <2>1. PlacedInLog(log[i]) \subseteq Places
        BY <1>1, LogCarried
    <2>2. PlacedInCall(m) \subseteq Places
        BY <1>1, CarriedBefore DEF Carries
    <2>3. CASE accepted
        <3>1. lg = Merge(log[i], m.prev_log_index, m.entries)
            BY <2>3
        <3>2. PlacedInLog(Merge(log[i], m.prev_log_index, m.entries)) \subseteq PlacedInLog(log[i]) \cup PlacedInCall(m)
            BY <1>1, <1>2, <2>3, MergePlaces
        <3> QED BY <2>1, <2>2, <3>1, <3>2
    <2>4. CASE ~accepted
        BY <2>1, <2>4
    <2> QED BY <2>3, <2>4
<1> HIDE DEF msgs, lg, t
<1>7. role' = [role EXCEPT ![i] = "Follower"] /\ Carries(rpcs', Places)
    <2>1. CASE role[i] # "Follower"
        <3>1. LeaveRole(i, "Follower", outcome, log[i], in_flight_client_requests[i], msgs)
            BY <1>2, <2>1 DEF BecomeFollower
        <3> QED BY <1>1, <1>5, <3>1, LeaveRoleCarries
    <2>2. CASE role[i] = "Follower"
        BY <1>2, <1>5, <2>2 DEF StayInRole, IndexInv, TypeOK
    <2> QED BY <2>1, <2>2
<1>8. RolesSteady
    BY <1>1, <1>2, <1>3, <1>7, RoleLeft DEF IndexInv
<1>9. LogsLonger
    <2>1. i \in Server /\ \E l : LogStep(i, l)
        BY ReceivedEntriesGrow
    <2> QED BY <2>1, LogStepFacts DEF LogsLonger, IndexInv
<1>10. Places' \subseteq Places
    BY <1>1, <1>2, <1>6, <1>7, OneLogWithin DEF IndexInv
<1> QED BY <1>8, <1>9, <1>10, SteadyKeeps DEF IndexInv

\* A leader puts its entry where no entry of its term is.
LEMMA LogUpdateKeeps ==
    ASSUME IndexInv, IndexInv', LogInv, ElectionSafety, NEW i \in Server, NEW c \in Cmd,
           NEW out \in [Cmd -> Outcomes], NEW msgs \in SUBSET rpcs, HandleLogUpdate(i, c, out, msgs)
    PROVE  LogInv'
<1> DEFINE e == [term |-> current_term[i], cmd |-> c]
           lg == Append(log[i], e)
           n == Len(log[i]) + 1
           new == Placed(n, e, IF n = 1 THEN 0 ELSE log[i][n - 1].term)
<1>1. /\ role[i] = "Leader" /\ log' = [log EXCEPT ![i] = lg]
      /\ Replicate(i, Peers(i), lg, next_indices[i], in_flight_client_requests[i] \cup {Len(lg)},
                   in_flight_peers[i], out, msgs)
      /\ UNCHANGED <<current_term, elected>>
    BY DEF HandleLogUpdate, historyVars
<1>2. e \in Entry /\ e.term = current_term[i] /\ log[i] \in Seq(Entry) /\ Len(log[i]) \in Nat /\ n \in Nat
    <2>1. e \in Entry /\ log[i] \in Seq(Entry)
        BY DEF Entry, IndexInv, TypeOK
    <2>2. Len(log[i]) \in Nat
        BY <2>1, LenProperties
    <2> QED BY <2>1, <2>2
<1> HIDE DEF e
<1>3. /\ lg \in Seq(Entry) /\ Len(lg) = n /\ lg[n] = e
      /\ \A k \in 1 .. Len(log[i]) : lg[k] = log[i][k]
    BY <1>2, AppendProperties
<1> HIDE DEF lg
<1>4. PlacedInLog(lg) \subseteq Places \cup {new}
    <2> SUFFICES ASSUME NEW k \in 1 .. n
                 PROVE  Placed(k, lg[k], IF k = 1 THEN 0 ELSE lg[k - 1].term) \in Places \cup {new}
        BY <1>3 DEF PlacedInLog
    <2>1. k # 1 => lg[k - 1] = log[i][k - 1]
        BY <1>2, <1>3
    <2>2. CASE k = n
        BY <1>3, <2>1, <2>2
    <2>3. CASE k # n
        <3>1. k \in 1 .. Len(log[i])
            BY <1>2, <2>3
        <3>2. lg[k] = log[i][k]
            BY <1>3, <3>1
        <3> QED BY <2>1, <3>1, <3>2, PlaceOfEntry
    <2> QED BY <2>2, <2>3
<1>5. new.idx = n /\ new.entry = e
    BY DEF Placed
<1> HIDE DEF new
<1>6. LogStep(i, lg)
    BY <1>1, <1>2, <1>3 DEF LogStep
<1>7. /\ Carries(rpcs', Places \cup {new})
      /\ UNCHANGED role \/ role' = [role EXCEPT ![i] = "UnderflowPanic"]
    <2>1. Carries(msgs, Places \cup {new}) /\ msgs \in SUBSET Message
        <3>1. Carries(msgs, Places)
            BY CarriedBefore
        <3> QED BY <3>1 DEF Carries, IndexInv, TypeOK
    <2>2. Peers(i) \in SUBSET Server /\ next_indices[i] \in [Server -> Int]
        BY DEF IndexInv, TypeOK, Peers
    <2>3. \A p \in Server : next_indices[i][p] <= Len(lg) + 1
        <3>1. \A p \in Server : next_indices[i][p] \in Int /\ next_indices[i][p] <= Len(log[i]) + 1
            BY DEF IndexInv, TypeOK, NextWithinLog
        <3> QED BY <1>2, <1>3, <3>1
    <2>4. \A p \in Targets(i, Peers(i), in_flight_peers[i]) :
              next_indices[i][p] >= 1 => AppendEntriesTo(i, p, lg, next_indices[i]) \in Message
        BY <1>6, <2>2, <2>3, CallsTyped
    <2> QED BY <1>1, <1>3, <1>4, <2>1, <2>2, <2>4, ReplicateCarries
<1>8. Places' \subseteq Places \cup {new}
    BY <1>1, <1>4, <1>7, OneLogWithin DEF IndexInv
<1>9. RolesSteady
    <2>1. CASE UNCHANGED role
        BY <1>1, <2>1, RoleKept DEF IndexInv
    <2>2. CASE role' = [role EXCEPT ![i] = "UnderflowPanic"]
        <3>1. /\ current_term' = [current_term EXCEPT ![i] = current_term[i]]
              /\ current_term[i] \in Nat /\ current_term[i] >= current_term[i]
            BY <1>1 DEF IndexInv, TypeOK, Term
        <3> QED BY <1>1, <2>2, <3>1, RoleLeft DEF IndexInv
    <2> QED BY <1>7, <2>1, <2>2
<1>10. \A a \in Places : a.idx \in Nat
    BY PlaceTypes DEF IndexInv
<1>11. Win(current_term[i], i) \in elected /\ \A a \in Places : a.entry.term = current_term[i] => a.idx <= Len(log[i])
    BY <1>1 DEF LogInv, LeadersHaveTheirs
<1>12. \A a \in Places : ~(a.idx = new.idx /\ a.entry.term = new.entry.term)
    BY <1>2, <1>5, <1>10, <1>11
<1>13. OneEntryPerPlace'
    BY <1>8, <1>12 DEF LogInv, OneEntryPerPlace
<1>14. EntriesOfWinners'
    <2>1. Win(current_term[i], i).term = new.entry.term
        BY <1>2, <1>5 DEF Win
    <2> QED BY <1>1, <1>8, <1>11, <2>1 DEF LogInv, EntriesOfWinners
<1>15. LeadersHaveTheirs'
    <2> SUFFICES ASSUME NEW j \in Server, role'[j] = "Leader"
                 PROVE  /\ Win(current_term[j], j) \in elected
                        /\ \A a \in Places' : a.entry.term = current_term[j] => a.idx <= Len(log'[j])
        BY <1>1 DEF LeadersHaveTheirs
    <2>1. role[j] = "Leader"
        BY <1>9 DEF RolesSteady
    <2>2. /\ Win(current_term[j], j) \in elected
          /\ \A a \in Places : a.entry.term = current_term[j] => a.idx <= Len(log[j])
        BY <2>1 DEF LogInv, LeadersHaveTheirs
    <2>3. Len(log[j]) \in Nat /\ Len(log'[j]) \in Nat /\ Len(log'[j]) >= Len(log[j]) /\ log'[i] = lg
        BY <1>6, LogStepFacts DEF IndexInv
    <2>4. \A a \in Places : a.entry.term = current_term[j] => a.idx <= Len(log'[j])
        BY <1>10, <2>2, <2>3
    <2>5. new.entry.term = current_term[j] => new.idx <= Len(log'[j])
        <3>1. current_term[i] = current_term[j] => i = j
            BY <1>11, <2>2 DEF ElectionSafety, Win
        <3> QED BY <1>2, <1>3, <1>5, <2>3, <3>1
    <2> QED BY <1>8, <2>2, <2>4, <2>5
<1>16. WinsArePast'
    BY <1>9, WinsStay DEF LogInv, IndexInv
<1> QED BY <1>13, <1>14, <1>15, <1>16 DEF LogInv

\* A new round is one that its candidate has not won before.
LEMMA ElectionTimeoutKeeps ==
    ASSUME IndexInv, IndexInv', LogInv, NEW i \in Server, ElectionTimeout(i)
    PROVE  LogInv'
<1> DEFINE t == current_term[i] + 1
           calls == {[kind |-> "RequestVote", from |-> i, to |-> p, term |-> t,
                      last_log_index |-> Len(log[i]), live |-> TRUE] : p \in {q \in Peers(i) : {i, q} \in links}}
<1>1. /\ current_term \in [Server -> Nat] /\ role \in [Server -> Roles] /\ rpcs \in SUBSET Message
      /\ \A e \in elected : e.term \in Nat /\ e.leader \in Server
    BY DEF IndexInv, TypeOK, Term
<1>2. /\ current_term' = [current_term EXCEPT ![i] = t]
      /\ role' = [role EXCEPT ![i] = "Candidate"]
      /\ rpcs' = Abandon(i, rpcs) \cup calls
      /\ UNCHANGED <<elected, log>>
    BY DEF ElectionTimeout
<1>3. t \in Nat /\ t > current_term[i]
    BY <1>1
<1>4. ASSUME NEW m \in calls PROVE m.kind = "RequestVote"
    <2>1. PICK p \in Peers(i) : m = [kind |-> "RequestVote", from |-> i, to |-> p, term |-> t,
                                     last_log_index |-> Len(log[i]), live |-> TRUE]
        OBVIOUS
    <2> QED BY <2>1
<1> HIDE DEF t, calls
<1>5. Carries(rpcs', Places)
    <2>1. Carries(Abandon(i, rpcs), Places)
        BY <1>1, CarriedBefore, AbandonCarries
    <2> QED BY <1>2, <1>4, <2>1 DEF Carries
<1>6. Places' \subseteq Places
    BY <1>2, <1>5, LogCarried, PlacesWithin
<1>7. OneEntryPerPlace' /\ EntriesOfWinners'
    BY <1>2, <1>6 DEF LogInv, OneEntryPerPlace, EntriesOfWinners
<1>8. LeadersHaveTheirs'
    <2> SUFFICES ASSUME NEW j \in Server, role'[j] = "Leader"
                 PROVE  /\ Win(current_term'[j], j) \in elected
                        /\ \A a \in Places' : a.entry.term = current_term'[j] => a.idx <= Len(log[j])
        BY <1>2 DEF LeadersHaveTheirs
    <2>1. j # i /\ role[j] = "Leader" /\ current_term'[j] = current_term[j]
        BY <1>1, <1>2
    <2> QED BY <1>6, <2>1 DEF LogInv, LeadersHaveTheirs
<1>9. WinsArePast'
    <2>1. ASSUME NEW e \in elected PROVE e.term <= current_term'[e.leader]
        <3>1. e.term <= current_term[e.leader]
            BY DEF LogInv, WinsArePast
        <3> QED BY <1>1, <1>2, <1>3, <3>1
    <2>2. ASSUME NEW j \in Server, role'[j] = "Candidate" PROVE Win(current_term'[j], j) \notin elected
        <3>1. CASE j = i
            <4>1. \A e \in elected : e.leader = i => e.term <= current_term[i]
                BY DEF LogInv, WinsArePast
            <4>2. Win(t, i).leader = i /\ Win(t, i).term = t
                BY DEF Win
            <4>3. Win(t, i) \notin elected
                BY <1>1, <1>3, <4>1, <4>2
            <4> QED BY <1>1, <1>2, <3>1, <4>3
        <3>2. CASE j # i
            BY <1>1, <1>2, <2>2, <3>2 DEF LogInv, WinsArePast
        <3> QED BY <3>1, <3>2
    <2> QED BY <1>2, <2>1, <2>2 DEF WinsArePast
<1> QED BY <1>7, <1>8, <1>9 DEF LogInv

\* A term that is won has no entry yet: it was not won before.
LEMMA ReceiveVoteKeeps ==
    ASSUME IndexInv, IndexInv', LogInv, ElectionSafety', NEW m \in rpcs, ReceiveVote(m)
    PROVE  LogInv'
<1> DEFINE i == m.to
           received == votes[i] \cup {m.from}
           won == Cardinality(received) >= Quorum
           win == Win(current_term[i], i)
<1>1. /\ i \in Server /\ rpcs \in SUBSET Message
      /\ current_term \in [Server -> Nat] /\ role \in [Server -> Roles]
      /\ \A e \in elected : e.term \in Nat /\ e.leader \in Server /\ e = Win(e.term, e.leader)
    BY MessageKinds DEF IndexInv, TypeOK, Term, Win
<1>2. /\ role[i] = "Candidate"
      /\ rpcs' = IF won THEN Abandon(i, rpcs) ELSE rpcs \ {m}
      /\ IF won THEN role' = [role EXCEPT ![i] = "Leader"] /\ elected' = elected \cup {win}
                ELSE UNCHANGED <<role, elected>>
      /\ UNCHANGED <<current_term, log>>
    BY DEF ReceiveVote, persistentVars, Win
<1> HIDE DEF won
<1>3. CASE ~won
    <2>1. LogsQuiet
        BY <1>2, <1>3, SameRoleQuiet DEF IndexInv
    <2> QED BY <2>1, QuietKeeps DEF IndexInv
<1>4. CASE won
    <2>1. /\ role' = [role EXCEPT ![i] = "Leader"] /\ elected' = elected \cup {win}
          /\ rpcs' = Abandon(i, rpcs) /\ UNCHANGED <<current_term, log>>
        BY <1>2, <1>4
    <2>2. Carries(rpcs', Places)
        BY <1>1, <2>1, CarriedBefore, AbandonCarries
    <2>3. Places' \subseteq Places
        BY <2>1, <2>2, LogCarried, PlacesWithin
    <2>4. OneEntryPerPlace' /\ EntriesOfWinners'
        BY <2>1, <2>3 DEF LogInv, OneEntryPerPlace, EntriesOfWinners
    <2>5. win \notin elected
        BY <1>1, <1>2 DEF LogInv, WinsArePast
    <2>6. win.term = current_term[i] /\ win.leader = i
        BY DEF Win
    <2> HIDE DEF win
    <2>7. \A a \in Places : a.entry.term # current_term[i]
        <3> SUFFICES ASSUME NEW a \in Places, a.entry.term = current_term[i] PROVE FALSE
            OBVIOUS
        <3>1. PICK e \in elected : e.term = current_term[i]
            BY DEF LogInv, EntriesOfWinners
        <3>2. e \in elected' /\ win \in elected'
            BY <2>1
        <3>3. e.leader = i
            BY <2>6, <3>1, <3>2 DEF ElectionSafety
        <3> QED BY <1>1, <2>5, <3>1, <3>3 DEF win
    <2>8. LeadersHaveTheirs'
        <3> SUFFICES ASSUME NEW j \in Server, role'[j] = "Leader"
                     PROVE  /\ Win(current_term[j], j) \in elected'
                            /\ \A a \in Places' : a.entry.term = current_term[j] => a.idx <= Len(log[j])
            BY <2>1 DEF LeadersHaveTheirs
        <3>1. CASE j = i
            BY <2>1, <2>3, <2>7, <3>1 DEF win
        <3>2. CASE j # i
            <4>1. role[j] = "Leader"
                BY <1>1, <2>1, <3>2
            <4> QED BY <2>1, <2>3, <4>1 DEF LogInv, LeadersHaveTheirs
        <3> QED BY <3>1, <3>2
    <2>9. WinsArePast'
        <3>1. ASSUME NEW e \in elected' PROVE e.term <= current_term[e.leader]
            BY <1>1, <2>1, <2>6 DEF LogInv, WinsArePast
        <3>2. ASSUME NEW j \in Server, role'[j] = "Candidate" PROVE Win(current_term[j], j) \notin elected'
            <4>1. j # i /\ role[j] = "Candidate"
                BY <1>1, <2>1, <3>2
            <4>2. Win(current_term[j], j) # win
                BY <2>6, <4>1 DEF Win
            <4> QED BY <2>1, <4>1, <4>2 DEF LogInv, WinsArePast
        <3> QED BY <2>1, <3>1, <3>2 DEF WinsArePast
    <2> QED BY <2>4, <2>8, <2>9 DEF LogInv
<1> QED BY <1>3, <1>4

-----------------------------------------------------------------------------
(* Theorem: logs match *)

LEMMA LogInvInit == Init => LogInv
<1> SUFFICES ASSUME Init PROVE LogInv
    OBVIOUS
<1>1. \A i \in Server : PlacedInLog(log[i]) = {}
    BY EmptySeq DEF Init, PlacedInLog
<1>2. Places = {}
    BY <1>1 DEF Init, Places, PlacedInLogs, PlacedInCalls
<1> QED BY <1>2 DEF Init, LogInv, OneEntryPerPlace, EntriesOfWinners, LeadersHaveTheirs, WinsArePast

LEMMA LogInvNext ==
    IndexInv /\ IndexInv' /\ ElectionSafety /\ ElectionSafety' /\ LogInv /\ [Next]_vars => LogInv'
<1> SUFFICES ASSUME IndexInv, IndexInv', ElectionSafety, ElectionSafety', LogInv, [Next]_vars PROVE LogInv'
    OBVIOUS
<1>1. LogsQuiet => LogInv'
    BY QuietKeeps DEF IndexInv
<1>2. outcome \in [Cmd -> Outcomes] /\ \A c \in Cmd : [outcome EXCEPT ![c] = "pending"] \in [Cmd -> Outcomes]
    BY DEF IndexInv, TypeOK, Outcomes
<1>3. ASSUME NEW m \in rpcs, Receive(m) \/ AppendEntriesCallFails(m) PROVE LogInv'
    <2>1. CASE ReceiveRequestVote(m) \/ ReceiveAppendEntriesResponse(m) \/ RefuseAppendEntries(m)
                   \/ PanicInOverwriteLog(m)
        BY <1>1, <2>1, RequestVoteQuiet, ResponseQuiet, RefusalQuiet
    <2>2. CASE ReceiveVote(m) \/ ReceiveAppendEntries(m)
        BY <2>2, ReceiveVoteKeeps, ReceivedEntriesKeep
    <2>3. CASE ReceiveForwardAnswer(m) \/ AppendEntriesCallFails(m)
        BY <1>1, <2>3, ExchangeQuiet
    <2>4. CASE ReceiveForward(m)
        <3>1. m.to \in Server /\ m.cmd \in Cmd
            BY <2>4, MessageKinds DEF ReceiveForward, IndexInv, TypeOK, ForwardRequest
        <3>2. CASE HandleLogUpdate(m.to, m.cmd, outcome, rpcs \ {m})
            BY <1>2, <3>1, <3>2, LogUpdateKeeps
        <3>3. CASE ~HandleLogUpdate(m.to, m.cmd, outcome, rpcs \ {m})
            <4>1. \A x \in rpcs' : x.kind = "AppendEntries" => x \in rpcs
                BY <2>4, <3>3 DEF ReceiveForward
            <4> QED BY <1>1, <2>4, <3>3, <4>1, SameRoleQuiet
                    DEF ReceiveForward, persistentVars, historyVars, IndexInv
        <3> QED BY <3>2, <3>3
    <2> QED BY <1>3, <2>1, <2>2, <2>3, <2>4 DEF Receive
<1>4. ASSUME NEW c \in Cmd, ClientRequest(c) \/ ForwardCallFails(c) PROVE LogInv'
    <2>1. CASE LeaderClientRequest(c)
        <3>1. origin[c] \in Server
            BY DEF IndexInv, TypeOK
        <3> QED BY <1>2, <2>1, <3>1, LogUpdateKeeps DEF LeaderClientRequest
    <2>2. CASE ~LeaderClientRequest(c)
        BY <1>1, <1>4, <2>2, ExchangeQuiet DEF ClientRequest
    <2> QED BY <2>1, <2>2
<1>5. ASSUME NEW i \in Server, ElectionTimeout(i) \/ Heartbeat(i) \/ CloseWindow(i) \/ Restart(i)
      PROVE  LogInv'
    BY <1>1, <1>5, ElectionTimeoutKeeps, HeartbeatQuiet, WindowQuiet
<1>6. ASSUME NEW i \in Server, NEW j \in Server, Disconnect(i, j) \/ NewPeer(i, j) PROVE LogInv'
    BY <1>1, <1>6, ExchangeQuiet
<1>7. CASE UNCHANGED vars
    BY <1>1, <1>7, SameRoleQuiet DEF vars, persistentVars, historyVars, IndexInv
<1> QED BY <1>3, <1>4, <1>5, <1>6, <1>7 DEF Next

\* Logs that have an entry of one term at one index are equal up to it: the test
\* of prev_log_term (worker.rs:199-206) and the replacing of a last entry
\* (storage.rs:108-113) keep it so, whatever calls are late, doubled or orphaned.
THEOREM LogsMatch == Spec => []LogMatching
<1>1. IndexInv /\ ElectionInv => ElectionSafety
    BY OneWinnerPerTerm DEF ElectionInv, IndexInv
<1>2. IndexInv /\ LogInv => LogMatching
    BY PlacesMatch DEF IndexInv, LogInv
<1> QED BY <1>1, <1>2, IndexInvInit, IndexInvNext, ElectionInvInit, ElectionInvNext, LogInvInit, LogInvNext,
           PTL DEF Spec

-----------------------------------------------------------------------------
(* What leaders count as replicated is there: a leader never loses what it   *)
(* has sent in its term, a receiver of that term takes entries from that     *)
(* leader alone, and an answer says what the receiver then holds.            *)

\* The logs of two workers have entries of one term at an index.
AgreeAt(lgs, i, p, n) ==
    n = 0 \/ (n <= Len(lgs[i]) /\ n <= Len(lgs[p]) /\ lgs[p][n].term = lgs[i][n].term)

\* A log holds what a call says of its sender's log.
SentFrom(m, lg) ==
    /\ m.prev_log_index <= Len(lg)
    /\ m.prev_log_index # 0 => lg[m.prev_log_index].term = m.prev_log_term
    /\ \A k \in 1 .. Len(m.entries) :
          m.prev_log_index + k <= Len(lg) /\ lg[m.prev_log_index + k].term = m.entries[k].term

Leads(i, t) == role[i] = "Leader" /\ current_term[i] = t

\* Calls are of leaders, and a leader of the term still has what it sent.
CallsAreLeaders ==
    \A m \in rpcs : m.kind = "AppendEntries" =>
        /\ Win(m.term, m.from) \in elected
        /\ Leads(m.from, m.term) => SentFrom(m, log[m.from])

\* The sender of an answer holds what it says it has, as long as it is in the term.
AnswersAgree ==
    \A m \in rpcs : m.kind = "AppendEntriesAnswer" /\ m.success =>
        /\ m.term <= current_term[m.from]
        /\ Leads(m.to, m.term) /\ current_term[m.from] = m.term => AgreeAt(log, m.to, m.from, m.end)

Credited(i, p, n) ==
    /\ current_term[p] >= current_term[i]
    /\ current_term[p] = current_term[i] => AgreeAt(log, i, p, n)

\* Only leaders count, and what they have counted is there.
MatchesAgree ==
    \A i, p \in Server : match_indices[i][p] # 0 =>
        role[i] = "Leader" /\ Credited(i, p, match_indices[i][p])

MatchInv == CallsAreLeaders /\ AnswersAgree /\ MatchesAgree

\* With logs that match, one term at one index says it all.
LEMMA CreditedMatch == TypeOK /\ LogMatching /\ MatchesAgree => MatchIndexSound
<1> SUFFICES ASSUME TypeOK, LogMatching, MatchesAgree,
                    NEW i \in Server, NEW p \in Server, role[i] = "Leader", current_term[p] = current_term[i]
             PROVE  /\ match_indices[i][p] <= Smaller(Len(log[i]), Len(log[p]))
                    /\ \A n \in 1 .. match_indices[i][p] : log[p][n] = log[i][n]
    BY DEF MatchIndexSound
<1>1. match_indices[i][p] \in Nat /\ Len(log[i]) \in Nat /\ Len(log[p]) \in Nat
    BY LenProperties DEF TypeOK
<1>2. CASE match_indices[i][p] = 0
    BY <1>1, <1>2 DEF Smaller
<1>3. CASE match_indices[i][p] # 0
    <2>1. AgreeAt(log, i, p, match_indices[i][p])
        BY <1>3 DEF MatchesAgree, Credited
    <2>2. /\ match_indices[i][p] <= Len(log[i]) /\ match_indices[i][p] <= Len(log[p])
          /\ log[p][match_indices[i][p]].term = log[i][match_indices[i][p]].term
        BY <1>3, <2>1 DEF AgreeAt
    <2>3. match_indices[i][p] \in 1 .. Smaller(Len(log[p]), Len(log[i]))
        BY <1>1, <1>3, <2>2 DEF Smaller
    <2>4. \A n \in 1 .. match_indices[i][p] : log[p][n] = log[i][n]
        BY <2>2, <2>3 DEF LogMatching
    <2> QED BY <1>1, <2>2, <2>4 DEF Smaller
<1> QED BY <1>2, <1>3

-----------------------------------------------------------------------------
(* Steps in which no log takes entries of a call *)

LeadersSteady ==
    /\ elected \subseteq elected'
    /\ \A i \in Server :
          /\ current_term'[i] >= current_term[i]
          /\ role'[i] = "Leader" => role[i] = "Leader" /\ current_term'[i] = current_term[i]

LogExtends(i) ==
    /\ Len(log'[i]) >= Len(log[i])
    /\ \A n \in 1 .. Len(log[i]) : log'[i][n].term = log[i][n].term

\* One call says what another did.
SameCall(m, x) ==
    /\ x.kind = "AppendEntries" /\ m.from = x.from /\ m.term = x.term
    /\ m.prev_log_index = x.prev_log_index /\ m.prev_log_term = x.prev_log_term /\ m.entries = x.entries
    /\ m.leader_commit = x.leader_commit

\* What messages say, others said before or a leader's log says now.
Told(msgs) ==
    \A m \in msgs :
        /\ m.kind = "AppendEntries" =>
              \/ \E x \in rpcs : SameCall(m, x)
              \/ /\ Win(m.term, m.from) \in elected' /\ SentFrom(m, log'[m.from])
                 /\ m.leader_commit = commit_index[m.from]
        /\ m.kind = "AppendEntriesAnswer" /\ m.success => m \in rpcs

\* A count comes from an answer of p.
Counted(i, p, n) ==
    /\ Credited(i, p, n)
    /\ \E x \in rpcs : x.kind = "AppendEntriesAnswer" /\ x.success /\ x.from = p /\ x.end = n

CountsKept(i) ==
    \A p \in Server : match_indices'[i][p] # 0 =>
        /\ role'[i] = "Leader"
        /\ match_indices'[i][p] = match_indices[i][p] \/ Counted(i, p, match_indices'[i][p])

MatchQuiet ==
    /\ LeadersSteady
    /\ \A i \in Server : LogExtends(i) /\ CountsKept(i)
    /\ Told(rpcs')

LEMMA AgreeStays ==
    ASSUME TypeOK, TypeOK', NEW i \in Server, NEW p \in Server, NEW n \in Nat,
           LogExtends(i), LogExtends(p), AgreeAt(log, i, p, n)
    PROVE  AgreeAt(log', i, p, n)
<1>1. /\ Len(log[i]) \in Nat /\ Len(log'[i]) \in Nat
      /\ Len(log[p]) \in Nat /\ Len(log'[p]) \in Nat
    BY LenProperties DEF TypeOK
<1>2. CASE n # 0
    <2>1. n \in 1 .. Len(log[i]) /\ n \in 1 .. Len(log[p]) /\ log[p][n].term = log[i][n].term
        BY <1>1, <1>2 DEF AgreeAt
    <2>2. log'[p][n].term = log'[i][n].term
        BY <2>1 DEF LogExtends
    <2> QED BY <1>1, <2>1, <2>2 DEF AgreeAt, LogExtends
<1> QED BY <1>2 DEF AgreeAt

LEMMA SentStays ==
    ASSUME TypeOK, TypeOK', NEW i \in Server, LogExtends(i),
           NEW m \in AppendEntriesRequest, SentFrom(m, log[i])
    PROVE  SentFrom(m, log'[i])
<1>1. /\ Len(log[i]) \in Nat /\ Len(log'[i]) \in Nat /\ Len(log'[i]) >= Len(log[i])
      /\ m.prev_log_index \in Nat /\ Len(m.entries) \in Nat
    BY LenProperties DEF TypeOK, LogExtends, AppendEntriesRequest
<1>2. m.prev_log_index # 0 => log'[i][m.prev_log_index].term = m.prev_log_term
    BY <1>1 DEF SentFrom, LogExtends
<1>3. ASSUME NEW k \in 1 .. Len(m.entries)
      PROVE  m.prev_log_index + k <= Len(log'[i]) /\ log'[i][m.prev_log_index + k].term = m.entries[k].term
    <2>1. m.prev_log_index + k <= Len(log[i]) /\ log[i][m.prev_log_index + k].term = m.entries[k].term
        BY DEF SentFrom
    <2>2. m.prev_log_index + k \in 1 .. Len(log[i])
        BY <1>1, <2>1
    <2> QED BY <1>1, <2>1, <2>2 DEF LogExtends
<1> QED BY <1>1, <1>2, <1>3 DEF SentFrom

LEMMA SameSent == ASSUME NEW m, NEW x, SameCall(m, x), NEW lg PROVE SentFrom(m, lg) <=> SentFrom(x, lg)
BY DEF SameCall, SentFrom

LEMMA MatchQuietKeeps ==
    ASSUME TypeOK, TypeOK', MatchInv, MatchQuiet
    PROVE  MatchInv'
<1>1. /\ \A i \in Server : current_term[i] \in Nat /\ current_term'[i] \in Nat
      /\ \A m \in rpcs : m \in Message /\ m.from \in Server /\ m.to \in Server
      /\ \A m \in rpcs' : m \in Message /\ m.from \in Server /\ m.to \in Server
    BY MessageKinds DEF TypeOK, Term
<1>2. \A i \in Server : /\ current_term'[i] >= current_term[i]
                        /\ role'[i] = "Leader" => role[i] = "Leader" /\ current_term'[i] = current_term[i]
    BY DEF MatchQuiet, LeadersSteady
<1>3. CallsAreLeaders'
    <2> SUFFICES ASSUME NEW m \in rpcs', m.kind = "AppendEntries"
                 PROVE  /\ Win(m.term, m.from) \in elected'
                        /\ role'[m.from] = "Leader" /\ current_term'[m.from] = m.term => SentFrom(m, log'[m.from])
        BY DEF CallsAreLeaders, Leads
    <2>1. CASE \E x \in rpcs : SameCall(m, x)
        <3>1. PICK x \in rpcs : SameCall(m, x)
            BY <2>1
        <3>2. x.kind = "AppendEntries" /\ m.from = x.from /\ m.term = x.term
            BY <3>1 DEF SameCall
        <3>3. Win(m.term, m.from) \in elected'
            BY <3>2 DEF MatchInv, CallsAreLeaders, MatchQuiet, LeadersSteady
        <3>4. ASSUME role'[m.from] = "Leader", current_term'[m.from] = m.term PROVE SentFrom(m, log'[m.from])
            <4>1. SentFrom(x, log[m.from])
                BY <1>1, <1>2, <3>2, <3>4 DEF MatchInv, CallsAreLeaders, Leads
            <4>2. SentFrom(m, log[m.from]) /\ m \in AppendEntriesRequest /\ m.from \in Server /\ LogExtends(m.from)
                BY <1>1, <3>1, <4>1, SameSent, MessageKinds DEF MatchQuiet
            <4> QED BY <4>2, SentStays
        <3> QED BY <3>3, <3>4
    <2>2. CASE Win(m.term, m.from) \in elected' /\ SentFrom(m, log'[m.from])
        BY <2>2
    <2> QED BY <2>1, <2>2 DEF MatchQuiet, Told
<1>4. AnswersAgree'
    <2> SUFFICES ASSUME NEW m \in rpcs', m.kind = "AppendEntriesAnswer", m.success
                 PROVE  /\ m.term <= current_term'[m.from]
                        /\ role'[m.to] = "Leader" /\ current_term'[m.to] = m.term /\ current_term'[m.from] = m.term
                               => AgreeAt(log', m.to, m.from, m.end)
        BY DEF AnswersAgree, Leads
    <2>1. m \in rpcs /\ m.from \in Server /\ m.to \in Server /\ m.term \in Nat /\ m.end \in Nat
        BY <1>1, MessageKinds DEF MatchQuiet, Told, AppendEntriesAnswer, Term
    <2>2. m.term <= current_term[m.from]
        BY <2>1 DEF MatchInv, AnswersAgree
    <2>3. m.term <= current_term'[m.from]
        BY <1>1, <1>2, <2>1, <2>2
    <2>4. ASSUME role'[m.to] = "Leader", current_term'[m.to] = m.term, current_term'[m.from] = m.term
          PROVE  AgreeAt(log', m.to, m.from, m.end)
        <3>1. current_term[m.from] = m.term
            BY <1>1, <1>2, <2>1, <2>2, <2>4
        <3>2. AgreeAt(log, m.to, m.from, m.end)
            BY <1>2, <2>1, <2>4, <3>1 DEF MatchInv, AnswersAgree, Leads
        <3> QED BY <2>1, <3>2, AgreeStays DEF MatchQuiet
    <2> QED BY <2>3, <2>4
<1>5. MatchesAgree'
    <2> SUFFICES ASSUME NEW i \in Server, NEW p \in Server, match_indices'[i][p] # 0
                 PROVE  /\ role'[i] = "Leader" /\ current_term'[p] >= current_term'[i]
                        /\ current_term'[p] = current_term'[i] => AgreeAt(log', i, p, match_indices'[i][p])
        BY DEF MatchesAgree, Credited
    <2>1. /\ role'[i] = "Leader" /\ match_indices'[i][p] \in Nat
          /\ match_indices'[i][p] = match_indices[i][p] \/ Credited(i, p, match_indices'[i][p])
        BY DEF MatchQuiet, CountsKept, Counted, TypeOK
    <2>2. Credited(i, p, match_indices'[i][p])
        BY <2>1 DEF MatchInv, MatchesAgree
    <2>3. current_term'[p] >= current_term'[i]
        BY <1>1, <1>2, <2>1, <2>2 DEF Credited
    <2>4. ASSUME current_term'[p] = current_term'[i] PROVE AgreeAt(log', i, p, match_indices'[i][p])
        <3>1. current_term[p] = current_term[i]
            BY <1>1, <1>2, <2>1, <2>2, <2>4 DEF Credited
        <3>2. AgreeAt(log, i, p, match_indices'[i][p])
            BY <2>2, <3>1 DEF Credited
        <3> QED BY <2>1, <3>2, AgreeStays DEF MatchQuiet
    <2> QED BY <2>1, <2>3, <2>4
<1> QED BY <1>3, <1>4, <1>5 DEF MatchInv

-----------------------------------------------------------------------------
(* The parts of a step that handlers share *)

LEMMA ToldBefore ==
    ASSUME NEW msgs, \A m \in msgs : m.kind = "AppendEntries" => m \in rpcs,
           \A m \in msgs : m.kind = "AppendEntriesAnswer" /\ m.success => m \in rpcs
    PROVE  Told(msgs)
BY DEF Told, SameCall

LEMMA AbandonedCall ==
    ASSUME NEW i \in Server, NEW msgs \in SUBSET Message, NEW x \in Abandon(i, msgs), x.kind = "AppendEntries"
    PROVE  \E m \in msgs : SameCall(x, m)
<1> DEFINE ends(m) == m.from = i /\ m.kind \in {"RequestVote", "AppendEntries"}
<1>1. PICK m \in msgs : x = IF ends(m) THEN [m EXCEPT !.live = FALSE] ELSE m
    BY DEF Abandon
<1>2. CASE ~ends(m)
    BY <1>1, <1>2 DEF SameCall
<1>3. CASE ends(m) /\ m.kind = "RequestVote"
    <2>1. m \in RequestVoteRequest
        BY <1>3, MessageKinds
    <2>2. x.kind = "RequestVote"
        BY <1>1, <1>3, <2>1 DEF RequestVoteRequest
    <2> QED BY <2>2
<1>4. CASE ends(m) /\ m.kind = "AppendEntries"
    <2>1. m \in AppendEntriesRequest
        BY <1>4, MessageKinds
    <2> QED BY <1>1, <1>4, <2>1 DEF AppendEntriesRequest, SameCall
<1> QED BY <1>2, <1>3, <1>4

LEMMA AbandonTold ==
    ASSUME NEW i \in Server, NEW msgs \in SUBSET Message, Told(msgs)
    PROVE  Told(Abandon(i, msgs))
<1>1. ASSUME NEW x \in Abandon(i, msgs), x.kind = "AppendEntries"
      PROVE  \/ \E y \in rpcs : SameCall(x, y)
             \/ /\ Win(x.term, x.from) \in elected' /\ SentFrom(x, log'[x.from])
                /\ x.leader_commit = commit_index[x.from]
    <2>1. PICK m \in msgs : SameCall(x, m)
        BY <1>1, AbandonedCall
    <2>2. CASE \E y \in rpcs : SameCall(m, y)
        BY <2>1, <2>2 DEF SameCall
    <2>3. CASE /\ Win(m.term, m.from) \in elected' /\ SentFrom(m, log'[m.from])
               /\ m.leader_commit = commit_index[m.from]
        BY <2>1, <2>3, SameSent DEF SameCall
    <2> QED BY <2>1, <2>2, <2>3 DEF Told, SameCall
<1>2. \A x \in Abandon(i, msgs) : x.kind = "AppendEntriesAnswer" => x \in msgs
    BY AbandonFacts
<1> QED BY <1>1, <1>2 DEF Told

LEMMA LogKept == ASSUME TypeOK, UNCHANGED log PROVE \A i \in Server : LogExtends(i)
<1>1. \A i \in Server : Len(log[i]) \in Nat
    BY LenProperties DEF TypeOK
<1> QED BY <1>1 DEF LogExtends

\* Only a leader counts, so a worker that is none loses nothing.
LEMMA CountsStay ==
    ASSUME MatchInv, NEW i \in Server, UNCHANGED match_indices,
           role[i] = "Leader" => role'[i] = "Leader"
    PROVE  CountsKept(i)
BY DEF MatchInv, MatchesAgree, CountsKept

LEMMA SameRoleMatch ==
    ASSUME TypeOK, MatchInv, UNCHANGED <<role, current_term, elected, log, match_indices>>, Told(rpcs')
    PROVE  MatchQuiet
<1>1. \A i \in Server : current_term[i] \in Nat
    BY DEF TypeOK, Term
<1>2. LeadersSteady
    BY <1>1 DEF LeadersSteady
<1>3. \A i \in Server : CountsKept(i)
    BY CountsStay
<1> QED BY <1>2, <1>3, LogKept DEF MatchQuiet

\* A worker that leaves its role, in the same term or a later one.
LEMMA LeaveRoleMatch ==
    ASSUME TypeOK, MatchInv, NEW i \in Server, NEW newRole, newRole # "Leader",
           NEW out, NEW lg, NEW inFlight, NEW msgs \in SUBSET Message, Told(msgs),
           LeaveRole(i, newRole, out, lg, inFlight, msgs),
           NEW t \in Nat, t >= current_term[i], current_term' = [current_term EXCEPT ![i] = t],
           UNCHANGED elected
    PROVE  LeadersSteady /\ (\A j \in Server : CountsKept(j)) /\ Told(rpcs')
<1>1. /\ role' = [role EXCEPT ![i] = newRole]
      /\ match_indices' = [match_indices EXCEPT ![i] = [p \in Server |-> 0]]
      /\ AnswerClients(i, Waiting(lg, inFlight), FALSE, out, Abandon(i, msgs))
    BY DEF LeaveRole
<1>2. Told(rpcs')
    <2>1. \A m \in rpcs' : m \in Abandon(i, msgs) \/ m.kind = "ForwardAnswer"
        BY <1>1 DEF AnswerClients
    <2>2. Told(Abandon(i, msgs))
        BY AbandonTold
    <2> QED BY <2>1, <2>2 DEF Told
<1>3. \A j \in Server : current_term[j] \in Nat
    BY DEF TypeOK, Term
<1>4. \A j \in Server : j # i => role'[j] = role[j] /\ current_term'[j] = current_term[j]
                                 /\ match_indices'[j] = match_indices[j]
    BY <1>1 DEF TypeOK
<1>5. role'[i] = newRole /\ current_term'[i] = t /\ \A p \in Server : match_indices'[i][p] = 0
    BY <1>1 DEF TypeOK
<1>6. LeadersSteady
    BY <1>3, <1>4, <1>5 DEF LeadersSteady
<1>7. \A j \in Server : CountsKept(j)
    BY <1>4, <1>5 DEF MatchInv, MatchesAgree, CountsKept
<1> QED BY <1>2, <1>6, <1>7

\* A leader's calls say what its log says.
LEMMA OwnCalls ==
    ASSUME NEW i \in Server, NEW lg \in Seq(Entry), NEW next \in [Server -> Int],
           NEW p \in Server, next[p] >= 1, next[p] <= Len(lg) + 1
    PROVE  LET m == AppendEntriesTo(i, p, lg, next) IN
           /\ m.kind = "AppendEntries" /\ m.from = i /\ m.term = current_term[i] /\ SentFrom(m, lg)
           /\ m.leader_commit = commit_index[i]
<1> DEFINE first == next[p]
           last == Smaller(next[p] + MAX_BATCH_SIZE - 1, Len(lg))
           es == SubSeq(lg, first, last)
           m == AppendEntriesTo(i, p, lg, next)
<1>1. /\ first \in Int /\ first >= 1 /\ first <= Len(lg) + 1
      /\ Len(lg) \in Nat /\ last \in Int /\ last <= Len(lg)
    BY LenProperties, BoundAssumption DEF Smaller
<1>2. /\ m.kind = "AppendEntries" /\ m.from = i /\ m.term = current_term[i]
      /\ m.prev_log_index = first - 1 /\ m.entries = es
      /\ m.prev_log_term = IF first > 1 THEN lg[first - 1].term ELSE 0
      /\ m.leader_commit = commit_index[i]
    BY DEF AppendEntriesTo
<1> HIDE DEF last, first, m
<1>3. \A k \in 1 .. Len(es) : first + k - 1 \in 1 .. Len(lg) /\ es[k] = lg[first + k - 1]
    <2>1. \A k \in first .. last : lg[k] \in Entry
        BY <1>1, ElementOfSeq
    <2>2. /\ Len(es) = IF first <= last THEN last - first + 1 ELSE 0
          /\ \A k \in 1 .. last - first + 1 : es[k] = lg[first + k - 1]
        BY <1>1, <2>1, SubSeqProperties
    <2> HIDE DEF es
    <2> QED BY <1>1, <2>2
<1> HIDE DEF es
<1>4. \A k \in 1 .. Len(es) : (first - 1) + k = first + k - 1
    BY <1>1
<1>5. SentFrom(m, lg)
    BY <1>1, <1>2, <1>3, <1>4 DEF SentFrom
<1> QED BY <1>2, <1>5 DEF m

LEMMA ReplicateMatch ==
    ASSUME IndexInv, LogInv, MatchInv, NEW i \in Server, role[i] = "Leader", NEW lg, LogStep(i, lg),
           NEW peers \in SUBSET Server, NEW next \in [Server -> Int], \A p \in Server : next[p] <= Len(lg) + 1,
           NEW inFlight, NEW inFlightPeers, NEW out, NEW msgs \in SUBSET Message, Told(msgs),
           Replicate(i, peers, lg, next, inFlight, inFlightPeers, out, msgs),
           UNCHANGED <<current_term, elected>>
    PROVE  LeadersSteady /\ (\A j \in Server : CountsKept(j)) /\ Told(rpcs')
<1> DEFINE targets == Targets(i, peers, inFlightPeers)
<1>1. targets \in SUBSET Server
    BY DEF Targets
<1>2. /\ lg \in Seq(Entry) /\ log'[i] = lg /\ Win(current_term[i], i) \in elected
      /\ \A p \in targets : next[p] >= 1 => AppendEntriesTo(i, p, lg, next) \in Message
    <2>1. lg \in Seq(Entry) /\ log'[i] = lg
        BY LogStepFacts DEF LogStep, IndexInv
    <2>2. Win(current_term[i], i) \in elected
        BY DEF LogInv, LeadersHaveTheirs
    <2> QED BY <2>1, <2>2, CallsTyped
<1>3. ASSUME NEW sent \in SUBSET targets, \A p \in sent : next[p] >= 1
      PROVE  msgs \cup Calls(i, sent, lg, next) \in SUBSET Message /\ Told(msgs \cup Calls(i, sent, lg, next))
    <2>1. ASSUME NEW m \in Calls(i, sent, lg, next)
          PROVE  /\ m \in Message /\ m.kind = "AppendEntries"
                 /\ Win(m.term, m.from) \in elected' /\ SentFrom(m, log'[m.from])
                 /\ m.leader_commit = commit_index[m.from]
        <3>1. PICK p \in sent : m = AppendEntriesTo(i, p, lg, next)
            BY DEF Calls
        <3>2. m.kind = "AppendEntries" /\ m.from = i /\ m.term = current_term[i] /\ SentFrom(m, lg)
              /\ m.leader_commit = commit_index[i]
            BY <1>1, <1>2, <1>3, <3>1, OwnCalls
        <3> QED BY <1>2, <1>3, <3>1, <3>2
    <2> QED BY <2>1 DEF Told
<1> HIDE DEF targets
<1>4. CASE Underflows(targets, next)
    <2>1. PICK sent \in SUBSET {p \in targets : next[p] >= 1} :
              Stop(i, "UnderflowPanic", out, lg, inFlight, msgs \cup Calls(i, sent, lg, next))
        BY <1>4 DEF Replicate, PanicInAppendEntries, targets
    <2>2. LeaveRole(i, "UnderflowPanic", out, lg, inFlight, msgs \cup Calls(i, sent, lg, next))
        BY <2>1 DEF Stop
    <2>3. /\ msgs \cup Calls(i, sent, lg, next) \in SUBSET Message
          /\ Told(msgs \cup Calls(i, sent, lg, next))
        BY <1>3
    <2>4. /\ current_term[i] \in Nat /\ current_term[i] >= current_term[i]
          /\ current_term' = [current_term EXCEPT ![i] = current_term[i]]
        BY DEF IndexInv, TypeOK, Term
    <2> QED BY <2>2, <2>3, <2>4, LeaveRoleMatch DEF IndexInv
<1>5. CASE ~Underflows(targets, next)
    <2>1. /\ LeaderLoopTop(i, lg, match_indices[i], inFlight, out, msgs \cup Calls(i, targets, lg, next))
          /\ UNCHANGED <<role, match_indices>>
        BY <1>5 DEF Replicate, targets
    <2>2. \A p \in targets : next[p] >= 1
        BY <1>1, <1>5 DEF Underflows
    <2>3. Told(msgs \cup Calls(i, targets, lg, next))
        BY <1>3, <2>2
    <2>4. \A m \in rpcs' : m \in msgs \cup Calls(i, targets, lg, next) \/ m.kind = "ForwardAnswer"
        BY <2>1 DEF LeaderLoopTop, AnswerClients
    <2>5. Told(rpcs')
        BY <2>3, <2>4 DEF Told
    <2>6. \A j \in Server : current_term[j] \in Nat
        BY DEF IndexInv, TypeOK, Term
    <2>7. LeadersSteady
        BY <2>1, <2>6 DEF LeadersSteady
    <2> QED BY <2>1, <2>5, <2>7, CountsStay
<1> QED BY <1>4, <1>5

-----------------------------------------------------------------------------
(* Actions in which no log takes entries of a call *)

LEMMA HeartbeatMatch ==
    ASSUME IndexInv, LogInv, MatchInv, NEW i \in Server, Heartbeat(i)
    PROVE  MatchQuiet
<1>1. /\ Replicate(i, Peers(i), log[i], next_indices[i], in_flight_client_requests[i], in_flight_peers[i],
                   outcome, rpcs)
      /\ role[i] = "Leader" /\ UNCHANGED <<current_term, elected, log>>
    BY DEF Heartbeat, persistentVars, historyVars
<1>2. /\ Peers(i) \in SUBSET Server /\ next_indices[i] \in [Server -> Int] /\ rpcs \in SUBSET Message
      /\ \A p \in Server : next_indices[i][p] <= Len(log[i]) + 1
    BY DEF IndexInv, TypeOK, Peers, NextWithinLog
<1>3. LogStep(i, log[i]) /\ Told(rpcs)
    BY <1>1, LogStays, ToldBefore DEF IndexInv
<1>4. LeadersSteady /\ (\A j \in Server : CountsKept(j)) /\ Told(rpcs')
    BY <1>1, <1>2, <1>3, ReplicateMatch
<1> QED BY <1>1, <1>4, LogKept DEF MatchQuiet, IndexInv

LEMMA LogUpdateMatch ==
    ASSUME IndexInv, LogInv, MatchInv, NEW i \in Server, NEW c \in Cmd, NEW out,
           NEW msgs \in SUBSET rpcs, HandleLogUpdate(i, c, out, msgs)
    PROVE  MatchQuiet
<1> DEFINE e == [term |-> current_term[i], cmd |-> c]
           lg == Append(log[i], e)
<1>1. /\ role[i] = "Leader" /\ log' = [log EXCEPT ![i] = lg]
      /\ Replicate(i, Peers(i), lg, next_indices[i], in_flight_client_requests[i] \cup {Len(lg)},
                   in_flight_peers[i], out, msgs)
      /\ UNCHANGED <<current_term, elected>>
    BY DEF HandleLogUpdate, historyVars
<1>2. e \in Entry /\ log[i] \in Seq(Entry)
    BY DEF Entry, IndexInv, TypeOK
<1> HIDE DEF e
<1>3. /\ lg \in Seq(Entry) /\ Len(lg) = Len(log[i]) + 1 /\ Len(log[i]) \in Nat
      /\ \A k \in 1 .. Len(log[i]) : lg[k] = log[i][k]
    BY <1>2, AppendProperties, LenProperties
<1> HIDE DEF lg
<1>4. LogStep(i, lg)
    BY <1>1, <1>3 DEF LogStep
<1>5. \A j \in Server : LogExtends(j)
    <2>1. \A j \in Server : Len(log[j]) \in Nat
        BY LenProperties DEF IndexInv, TypeOK
    <2>2. \A j \in Server : j # i => log'[j] = log[j]
        BY <1>1 DEF IndexInv, TypeOK
    <2>3. log'[i] = lg
        BY <1>4, LogStepFacts DEF IndexInv
    <2> QED BY <1>3, <2>1, <2>2, <2>3 DEF LogExtends
<1>6. Peers(i) \in SUBSET Server /\ next_indices[i] \in [Server -> Int]
    BY DEF IndexInv, TypeOK, Peers
<1>7. \A p \in Server : next_indices[i][p] <= Len(lg) + 1
    <2>1. \A p \in Server : next_indices[i][p] \in Int /\ next_indices[i][p] <= Len(log[i]) + 1
        BY DEF IndexInv, TypeOK, NextWithinLog
    <2> QED BY <1>3, <2>1
<1>8. msgs \in SUBSET Message /\ Told(msgs)
    BY ToldBefore DEF IndexInv, TypeOK
<1>9. LeadersSteady /\ (\A j \in Server : CountsKept(j)) /\ Told(rpcs')
    BY <1>1, <1>4, <1>6, <1>7, <1>8, ReplicateMatch
<1> QED BY <1>5, <1>9 DEF MatchQuiet

\* A success credits what the answer says; an error or a refusal credits nothing.
LEMMA SucceededMatch ==
    ASSUME IndexInv, MatchInv, NEW m \in rpcs, AppendEntriesSucceeded(m)
    PROVE  MatchQuiet
<1> DEFINE i == m.to
           match == [match_indices[i] EXCEPT ![m.from] = Larger(@, m.end)]
<1>1. /\ i \in Server /\ m.from \in Server /\ m.end \in Nat
      /\ m.kind = "AppendEntriesAnswer" /\ role[i] = "Leader" /\ m.term = current_term[i] /\ m.success
    BY MessageKinds DEF IndexInv, TypeOK, AppendEntriesSucceeded, AppendEntriesAnswer
<1>2. /\ match_indices' = [match_indices EXCEPT ![i] = match]
      /\ UNCHANGED <<role, current_term, elected, log>>
      /\ \A x \in rpcs' : x \in rpcs \/ x.kind = "ForwardAnswer"
    BY DEF AppendEntriesSucceeded, LeaderLoopTop, AnswerClients, persistentVars, historyVars
<1>3. match_indices \in [Server -> [Server -> Nat]] /\ \A j \in Server : current_term[j] \in Nat
    BY DEF IndexInv, TypeOK, Term
<1>4. Counted(i, m.from, m.end)
    <2>1. m.term <= current_term[m.from] /\ (current_term[m.from] = m.term => AgreeAt(log, i, m.from, m.end))
        BY <1>1 DEF MatchInv, AnswersAgree, Leads
    <2> QED BY <1>1, <1>3, <2>1 DEF Credited, Counted
<1>5. \A j \in Server : CountsKept(j)
    <2> SUFFICES ASSUME NEW j \in Server, NEW p \in Server, match_indices'[j][p] # 0
                 PROVE  /\ role'[j] = "Leader"
                        /\ match_indices'[j][p] = match_indices[j][p] \/ Counted(j, p, match_indices'[j][p])
        BY DEF CountsKept
    <2>1. CASE j # i \/ p # m.from
        <3>1. match_indices'[j][p] = match_indices[j][p]
            BY <1>1, <1>2, <1>3, <2>1
        <3> QED BY <1>2, <3>1 DEF MatchInv, MatchesAgree
    <2>2. CASE j = i /\ p = m.from
        <3>1. match_indices'[i][m.from] = Larger(match_indices[i][m.from], m.end)
            BY <1>1, <1>2, <1>3
        <3>2. match_indices'[i][m.from] = match_indices[i][m.from] \/ match_indices'[i][m.from] = m.end
            BY <3>1 DEF Larger
        <3>3. role'[i] = "Leader"
            BY <1>1, <1>2
        <3> QED BY <1>4, <2>2, <3>2, <3>3
    <2> QED BY <2>1, <2>2
<1>6. LeadersSteady
    BY <1>2, <1>3 DEF LeadersSteady
<1>7. Told(rpcs')
    <2>1. \A x \in rpcs' : /\ x.kind = "AppendEntries" => x \in rpcs
                           /\ x.kind = "AppendEntriesAnswer" /\ x.success => x \in rpcs
        BY <1>2
    <2> QED BY <2>1, ToldBefore
<1> QED BY <1>2, <1>5, <1>6, <1>7, LogKept DEF MatchQuiet, IndexInv

LEMMA ResponseMatch ==
    ASSUME IndexInv, LogInv, MatchInv, NEW m \in rpcs, ReceiveAppendEntriesResponse(m)
    PROVE  MatchQuiet
<1> DEFINE i == m.to
<1>1. i \in Server /\ m.from \in Server /\ rpcs \ {m} \in SUBSET Message /\ Told(rpcs \ {m})
    BY MessageKinds, ToldBefore DEF IndexInv, TypeOK
<1>2. CASE AppendEntriesFailed(m)
    BY <1>1, <1>2, SameRoleMatch DEF AppendEntriesFailed, persistentVars, historyVars, IndexInv
<1>3. CASE AppendEntriesNewTerm(m)
    <2>1. m.term \in Nat /\ current_term[i] \in Nat
        BY <1>1, <1>3, MessageKinds DEF IndexInv, TypeOK, AppendEntriesNewTerm, AppendEntriesAnswer, Term
    <2>2. /\ m.term > current_term[i] /\ current_term' = [current_term EXCEPT ![i] = m.term]
          /\ LeaveRole(i, "Follower", outcome, log[i], in_flight_client_requests[i], rpcs \ {m})
          /\ UNCHANGED <<elected, log>>
        BY <1>3 DEF AppendEntriesNewTerm, BecomeFollower, historyVars
    <2>3. m.term >= current_term[i]
        BY <2>1, <2>2
    <2>4. LeadersSteady /\ (\A j \in Server : CountsKept(j)) /\ Told(rpcs')
        BY <1>1, <2>1, <2>2, <2>3, LeaveRoleMatch DEF IndexInv
    <2> QED BY <2>2, <2>4, LogKept DEF MatchQuiet, IndexInv
<1>4. CASE AppendEntriesSucceeded(m)
    BY <1>4, SucceededMatch
<1>5. CASE AppendEntriesRefused(m)
    <2> DEFINE next == [next_indices[i] EXCEPT ![m.from] = Smaller(@, m.start - 1)]
    <2>1. m.start \in Nat
        BY <1>5, MessageKinds DEF IndexInv, TypeOK, AppendEntriesRefused, AppendEntriesAnswer
    <2>2. /\ role[i] = "Leader" /\ UNCHANGED <<current_term, elected, log>>
          /\ Replicate(i, {m.from}, log[i], next, in_flight_client_requests[i],
                       in_flight_peers[i] \ {m.from}, outcome, rpcs \ {m})
        BY <1>5 DEF AppendEntriesRefused, persistentVars, historyVars
    <2>3. /\ log[i] \in Seq(Entry) /\ next_indices[i] \in [Server -> Int]
          /\ \A p \in Server : next_indices[i][p] <= Len(log[i]) + 1
        <3>1. \A p \in Server : next_indices[i][p] <= Len(log[i]) + 1
            BY <1>1 DEF IndexInv, NextWithinLog
        <3>2. log[i] \in Seq(Entry) /\ next_indices[i] \in [Server -> Int]
            BY <1>1 DEF IndexInv, TypeOK
        <3> HIDE DEF i
        <3> QED BY <3>1, <3>2
    <2>4. Len(log[i]) \in Nat
        BY <2>3, LenProperties
    <2>5. next \in [Server -> Int] /\ \A p \in Server : next[p] <= Len(log[i]) + 1
        <3>1. /\ Smaller(next_indices[i][m.from], m.start - 1) \in Int
              /\ Smaller(next_indices[i][m.from], m.start - 1) <= Len(log[i]) + 1
            BY <1>1, <2>1, <2>3, <2>4 DEF Smaller
        <3> QED BY <1>1, <2>3, <3>1
    <2>6. {m.from} \in SUBSET Server
        BY <1>1
    <2> HIDE DEF next, i
    <2>7. LogStep(i, log[i])
        BY <1>1, <2>2, LogStays DEF IndexInv
    <2>8. LeadersSteady /\ (\A j \in Server : CountsKept(j)) /\ Told(rpcs')
        BY <1>1, <2>2, <2>5, <2>6, <2>7, ReplicateMatch
    <2> QED BY <2>2, <2>8, LogKept DEF MatchQuiet, IndexInv
<1> QED BY <1>2, <1>3, <1>4, <1>5 DEF ReceiveAppendEntriesResponse

LEMMA RefusalMatch ==
    ASSUME IndexInv, MatchInv, NEW m \in rpcs, RefuseAppendEntries(m) \/ PanicInOverwriteLog(m)
    PROVE  MatchQuiet
<1> DEFINE i == m.to
<1>1. i \in Server /\ rpcs \in SUBSET Message
    BY MessageKinds DEF IndexInv, TypeOK
<1>2. CASE RefuseAppendEntries(m)
    <2>1. \A x \in AnswerAppendEntries(m, current_term[i], FALSE) : x.kind = "AppendEntriesAnswer" /\ ~x.success
        BY DEF AnswerAppendEntries
    <2>2. rpcs' = (rpcs \ {m}) \cup AnswerAppendEntries(m, current_term[i], FALSE)
        BY <1>2 DEF RefuseAppendEntries
    <2>3. Told(rpcs')
        BY <2>1, <2>2, ToldBefore
    <2> QED BY <1>2, <2>3, SameRoleMatch DEF RefuseAppendEntries, persistentVars, leaderVars, historyVars, IndexInv
<1>3. CASE PanicInOverwriteLog(m)
    <2> DEFINE msgs == (rpcs \ {m}) \cup FailAppendEntries(m)
    <2>1. m \in AppendEntriesRequest /\ m.term \in Nat
        BY <1>3, MessageKinds DEF IndexInv, TypeOK, PanicInOverwriteLog, AppendEntriesRequest, Term
    <2>2. /\ m.term >= current_term[i] /\ current_term' = [current_term EXCEPT ![i] = m.term]
          /\ LeaveRole(i, "OverwritePanic", outcome, log[i], in_flight_client_requests[i], msgs)
          /\ UNCHANGED <<elected, log>>
        BY <1>3 DEF PanicInOverwriteLog, Stop, historyVars
    <2>3. \A x \in FailAppendEntries(m) : x.kind = "AppendEntriesError" /\ x \in Message
        BY <1>3, <2>1 DEF FailAppendEntries, AppendEntriesRequest, AppendEntriesError, Message
    <2>4. msgs \in SUBSET Message /\ Told(msgs)
        BY <1>1, <2>3, ToldBefore
    <2> HIDE DEF msgs
    <2>5. LeadersSteady /\ (\A j \in Server : CountsKept(j)) /\ Told(rpcs')
        BY <1>1, <2>1, <2>2, <2>4, LeaveRoleMatch DEF IndexInv
    <2> QED BY <2>2, <2>5, LogKept DEF MatchQuiet, IndexInv
<1> QED BY <1>2, <1>3

LEMMA RequestVoteMatch ==
    ASSUME IndexInv, MatchInv, NEW m \in rpcs, ReceiveRequestVote(m)
    PROVE  MatchQuiet
<1> DEFINE i == m.to
           newTerm == m.term > current_term[i]
           vote == IF newTerm THEN None ELSE voted_for[i]
           granted == (role[i] = "Leader" => newTerm) /\ VoteGrantedTo(m, i, vote)
           reply == IF granted /\ m.live
                    THEN {[kind |-> "VoteGranted", from |-> i, to |-> m.from, term |-> m.term]} ELSE {}
           msgs == (rpcs \ {m}) \cup reply
<1>1. /\ m.kind = "RequestVote" /\ i \in Server /\ m.from \in Server /\ rpcs \in SUBSET Message
      /\ m.term \in Nat /\ current_term \in [Server -> Nat]
    <2>1. m.kind = "RequestVote"
        BY DEF ReceiveRequestVote
    <2> QED BY <2>1, MessageKinds DEF IndexInv, TypeOK, RequestVoteRequest, Term
<1>2. /\ current_term' = [current_term EXCEPT ![i] = Larger(current_term[i], m.term)]
      /\ IF newTerm THEN BecomeFollower(i, msgs) ELSE StayInRole(msgs)
      /\ UNCHANGED <<elected, log>>
    BY DEF ReceiveRequestVote
<1>3. \A x \in reply : x.kind = "VoteGranted" /\ x \in Message
    BY <1>1 DEF Message, VoteGranted, Term
<1> HIDE DEF reply, granted, vote
<1>4. msgs \in SUBSET Message /\ Told(msgs)
    BY <1>1, <1>3, ToldBefore
<1> HIDE DEF msgs
<1>5. CASE newTerm
    <2>1. m.term >= current_term[i] /\ Larger(current_term[i], m.term) = m.term
        BY <1>1, <1>5 DEF Larger
    <2>2. current_term' = [current_term EXCEPT ![i] = m.term]
        BY <1>2, <2>1
    <2>3. LeaveRole(i, "Follower", outcome, log[i], in_flight_client_requests[i], msgs)
        BY <1>2, <1>5 DEF BecomeFollower
    <2>4. LeadersSteady /\ (\A j \in Server : CountsKept(j)) /\ Told(rpcs')
        BY <1>1, <1>2, <1>4, <2>1, <2>2, <2>3, LeaveRoleMatch DEF IndexInv
    <2> QED BY <1>2, <2>4, LogKept DEF MatchQuiet, IndexInv
<1>6. CASE ~newTerm
    <2>1. UNCHANGED current_term
        BY <1>1, <1>2, <1>6 DEF Larger
    <2>2. UNCHANGED <<role, match_indices>> /\ rpcs' = msgs
        BY <1>2, <1>6 DEF StayInRole, leaderVars
    <2> QED BY <1>2, <1>4, <2>1, <2>2, SameRoleMatch DEF IndexInv
<1> QED BY <1>5, <1>6

LEMMA ExchangeMatch ==
    ASSUME IndexInv, MatchInv,
           \/ \E c \in Cmd : FollowerClientRequest(c) \/ CandidateClientRequest(c) \/ ForwardCallFails(c)
           \/ \E m \in rpcs : ReceiveForwardAnswer(m) \/ AppendEntriesCallFails(m)
           \/ \E i, j \in Server : Disconnect(i, j) \/ NewPeer(i, j)
    PROVE  MatchQuiet
<1>1. UNCHANGED <<role, current_term, elected, log, match_indices>>
    BY DEF FollowerClientRequest, CandidateClientRequest, ForwardCallFails, ReceiveForwardAnswer,
           AppendEntriesCallFails, Disconnect, NewPeer, persistentVars, leaderVars, historyVars
<1>2. ASSUME NEW c \in Cmd, FollowerClientRequest(c) \/ CandidateClientRequest(c) \/ ForwardCallFails(c)
      PROVE  Told(rpcs')
    <2>1. \A x \in rpcs' : x \in rpcs \/ x.kind = "Forward"
        <3>1. CASE FollowerClientRequest(c)
            BY <3>1 DEF FollowerClientRequest
        <3>2. CASE CandidateClientRequest(c)
            BY <3>2 DEF CandidateClientRequest
        <3>3. CASE ForwardCallFails(c)
            BY <3>3 DEF ForwardCallFails
        <3> QED BY <1>2, <3>1, <3>2, <3>3
    <2>2. \A x \in rpcs' : x.kind \in {"AppendEntries", "AppendEntriesAnswer"} => x \in rpcs
        BY <2>1
    <2> QED BY <2>2, ToldBefore
<1>3. ASSUME NEW m \in rpcs, ReceiveForwardAnswer(m) PROVE Told(rpcs')
    BY <1>3, ToldBefore DEF ReceiveForwardAnswer
<1>4. ASSUME NEW m \in rpcs, AppendEntriesCallFails(m) PROVE Told(rpcs')
    <2>1. CASE m.kind = "AppendEntries"
        <3> DEFINE orphan == [m EXCEPT !.live = FALSE]
        <3>1. m \in AppendEntriesRequest
            BY <2>1, MessageKinds DEF IndexInv, TypeOK
        <3>2. orphan.kind = "AppendEntries" /\ SameCall(orphan, m)
            BY <2>1, <3>1 DEF AppendEntriesRequest, SameCall
        <3>3. rpcs' = (rpcs \ {m}) \cup {orphan} \cup FailAppendEntries(m)
            BY <1>4, <2>1 DEF AppendEntriesCallFails
        <3>4. \A x \in FailAppendEntries(m) : x.kind = "AppendEntriesError"
            BY DEF FailAppendEntries
        <3>5. Told(rpcs)
            BY ToldBefore
        <3> HIDE DEF orphan
        <3> QED BY <3>2, <3>3, <3>4, <3>5 DEF Told
    <2>2. CASE m.kind # "AppendEntries"
        <3>1. \A x \in rpcs' : x \in rpcs \/ x.kind = "AppendEntriesError"
            BY <1>4, <2>2 DEF AppendEntriesCallFails
        <3>2. \A x \in rpcs' : x.kind \in {"AppendEntries", "AppendEntriesAnswer"} => x \in rpcs
            BY <3>1
        <3> QED BY <3>2, ToldBefore
    <2> QED BY <2>1, <2>2
<1>5. ASSUME NEW i \in Server, NEW j \in Server, Disconnect(i, j) \/ NewPeer(i, j) PROVE Told(rpcs')
    BY <1>5, ToldBefore DEF Disconnect, NewPeer
<1>6. Told(rpcs')
    BY <1>2, <1>3, <1>4, <1>5
<1> QED BY <1>1, <1>6, SameRoleMatch DEF IndexInv

LEMMA WindowMatch ==
    ASSUME IndexInv, MatchInv, NEW i \in Server, CloseWindow(i) \/ Restart(i)
    PROVE  MatchQuiet
<1>1. /\ \A j \in Server : current_term[j] \in Nat /\ current_term[j] >= current_term[j]
      /\ rpcs \in SUBSET Message /\ role \in [Server -> Roles]
    BY DEF IndexInv, TypeOK, Term
<1>2. CASE CloseWindow(i)
    <2>1. /\ LeaveRole(i, "Closed", Forget(i), log[i], in_flight_client_requests[i], WithoutAnswersFor(i))
          /\ UNCHANGED <<current_term, log, elected>>
        BY <1>2 DEF CloseWindow, Stop, persistentVars, historyVars
    <2>2. WithoutAnswersFor(i) \in SUBSET Message /\ Told(WithoutAnswersFor(i))
        BY <1>1, ToldBefore DEF WithoutAnswersFor
    <2>3. current_term' = [current_term EXCEPT ![i] = current_term[i]]
        BY <2>1 DEF IndexInv, TypeOK
    <2>4. LeadersSteady /\ (\A j \in Server : CountsKept(j)) /\ Told(rpcs')
        BY <1>1, <2>1, <2>2, <2>3, LeaveRoleMatch DEF IndexInv
    <2> QED BY <2>1, <2>4, LogKept DEF MatchQuiet, IndexInv
<1>3. CASE Restart(i)
    <2>1. /\ role' = [role EXCEPT ![i] = "Follower"] /\ ~Running(i)
          /\ rpcs' = (WithoutAnswersFor(i) \ SentTo(i)) \cup UNION {CallErrors(m) : m \in SentTo(i)}
          /\ UNCHANGED <<current_term, log, elected, match_indices>>
        BY <1>3 DEF Restart, persistentVars, leaderVars, historyVars
    <2>2. \A m \in SentTo(i) : \A x \in CallErrors(m) : x.kind \in {"AppendEntriesError", "ForwardAnswer"}
        BY DEF CallErrors, FailAppendEntries
    <2>3. \A x \in rpcs' : x.kind \in {"AppendEntries", "AppendEntriesAnswer"} => x \in rpcs
        BY <2>1, <2>2 DEF WithoutAnswersFor
    <2>4. Told(rpcs')
        BY <2>3, ToldBefore
    <2>5. role[i] # "Leader" /\ role'[i] # "Leader" /\ \A j \in Server : j # i => role'[j] = role[j]
        BY <1>1, <2>1 DEF Running, RunningRoles
    <2>6. LeadersSteady
        BY <1>1, <2>1, <2>5 DEF LeadersSteady
    <2>7. \A j \in Server : CountsKept(j)
        BY <2>1, <2>5, CountsStay
    <2> QED BY <2>1, <2>4, <2>6, <2>7, LogKept DEF MatchQuiet, IndexInv
<1> QED BY <1>2, <1>3

LEMMA ElectionTimeoutMatch ==
    ASSUME IndexInv, MatchInv, NEW i \in Server, ElectionTimeout(i)
    PROVE  MatchQuiet
<1> DEFINE t == current_term[i] + 1
           calls == {[kind |-> "RequestVote", from |-> i, to |-> p, term |-> t,
                      last_log_index |-> Len(log[i]), live |-> TRUE] : p \in {q \in Peers(i) : {i, q} \in links}}
<1>1. current_term \in [Server -> Nat] /\ role \in [Server -> Roles] /\ rpcs \in SUBSET Message
    BY DEF IndexInv, TypeOK, Term
<1>2. /\ role[i] \in {"Follower", "Candidate"}
      /\ current_term' = [current_term EXCEPT ![i] = t]
      /\ role' = [role EXCEPT ![i] = "Candidate"]
      /\ rpcs' = Abandon(i, rpcs) \cup calls
      /\ UNCHANGED <<elected, log, match_indices>>
    BY DEF ElectionTimeout, leaderVars
<1>3. ASSUME NEW m \in calls PROVE m.kind = "RequestVote"
    <2>1. PICK p \in Peers(i) : m = [kind |-> "RequestVote", from |-> i, to |-> p, term |-> t,
                                     last_log_index |-> Len(log[i]), live |-> TRUE]
        OBVIOUS
    <2> QED BY <2>1
<1> HIDE DEF calls
<1>4. Told(rpcs')
    <2>1. Told(Abandon(i, rpcs))
        BY <1>1, ToldBefore, AbandonTold
    <2> QED BY <1>2, <1>3, <2>1 DEF Told
<1>5. role[i] # "Leader" /\ role'[i] # "Leader" /\ \A j \in Server : j # i => role'[j] = role[j]
    BY <1>1, <1>2
<1>6. LeadersSteady
    BY <1>1, <1>2, <1>5 DEF LeadersSteady
<1>7. \A j \in Server : CountsKept(j)
    BY <1>2, <1>5, CountsStay
<1> QED BY <1>2, <1>4, <1>6, <1>7, LogKept DEF MatchQuiet, IndexInv

-----------------------------------------------------------------------------
(* A receiver takes the entries of its leader *)

\* The receiver of a call that matches keeps where it agrees with the log that
\* the call is from, and agrees with it at the last entry of the call.
LEMMA MergeAgrees ==
    ASSUME NEW lg \in Seq(Entry), NEW ld \in Seq(Entry), NEW m \in AppendEntriesRequest,
           PrevLogMatches(lg, m), ~OverwritePanics(lg, m.prev_log_index, m.entries), SentFrom(m, ld)
    PROVE  LET merged == Merge(lg, m.prev_log_index, m.entries)
               end == m.prev_log_index + Len(m.entries)
           IN  /\ \A n \in 1 .. Len(lg) : n <= Len(ld) /\ lg[n].term = ld[n].term =>
                      n <= Len(merged) /\ merged[n].term = ld[n].term
               /\ end # 0 => end <= Len(merged) /\ end <= Len(ld) /\ merged[end].term = ld[end].term
<1> DEFINE prev == m.prev_log_index
           es == m.entries
           merged == Merge(lg, prev, es)
           end == prev + Len(es)
<1>1. /\ prev \in Nat /\ es \in Seq(Entry) /\ Len(es) \in Nat /\ Len(lg) \in Nat /\ Len(ld) \in Nat
      /\ prev <= Len(lg) /\ (prev # 0 => lg[prev].term = m.prev_log_term)
    BY LenProperties DEF AppendEntriesRequest, PrevLogMatches
<1>2. PICK kept \in prev .. Len(lg) :
          /\ Len(merged) \in Nat /\ kept <= Len(merged)
          /\ \A k \in prev + 1 .. kept : k - prev <= Len(es) => lg[k].term = es[k - prev].term
          /\ \A k \in 1 .. kept : merged[k] = lg[k]
          /\ \A k \in kept + 1 .. Len(merged) : k - prev \in 1 .. Len(es) /\ merged[k] = es[k - prev]
    BY MergeEntries
<1>3. Len(merged) >= Len(lg) /\ Len(merged) >= end
    BY <1>1, MergeGrows
<1>4. /\ prev <= Len(ld) /\ (prev # 0 => ld[prev].term = m.prev_log_term)
      /\ \A k \in 1 .. Len(es) : prev + k <= Len(ld) /\ ld[prev + k].term = es[k].term
    BY DEF SentFrom
<1>5. kept \in Nat /\ prev <= kept /\ kept <= Len(lg)
    BY <1>1
<1> HIDE DEF merged, prev, es
<1>6. \A k \in kept + 1 .. Len(merged) : k <= Len(ld) /\ merged[k].term = ld[k].term
    <2> SUFFICES ASSUME NEW k \in kept + 1 .. Len(merged) PROVE k <= Len(ld) /\ merged[k].term = ld[k].term
        OBVIOUS
    <2>1. k - prev \in 1 .. Len(es) /\ merged[k] = es[k - prev]
        BY <1>2
    <2>2. prev + (k - prev) = k
        BY <1>1, <1>2, <1>5
    <2> QED BY <1>4, <2>1, <2>2
<1>7. ASSUME NEW n \in 1 .. Len(lg), n <= Len(ld), lg[n].term = ld[n].term
      PROVE  n <= Len(merged) /\ merged[n].term = ld[n].term
    <2>1. n <= Len(merged)
        BY <1>1, <1>2, <1>3
    <2>2. CASE n <= kept
        BY <1>2, <1>5, <1>7, <2>2
    <2>3. CASE n > kept
        <3>1. n \in kept + 1 .. Len(merged)
            BY <1>1, <1>2, <1>5, <2>1, <2>3
        <3> QED BY <1>6, <2>1, <3>1
    <2> QED BY <1>1, <1>5, <2>1, <2>2, <2>3
<1>8. ASSUME end # 0 PROVE end <= Len(merged) /\ end <= Len(ld) /\ merged[end].term = ld[end].term
    <2>1. end \in Nat /\ end <= Len(merged) /\ end >= prev
        BY <1>1, <1>3
    <2>2. CASE end > kept
        <3>1. end \in kept + 1 .. Len(merged)
            BY <1>2, <1>5, <2>1, <2>2
        <3> QED BY <1>6, <2>1, <3>1
    <2>3. CASE end <= kept /\ Len(es) # 0
        <3>1. Len(es) \in 1 .. Len(es) /\ end \in prev + 1 .. kept /\ end - prev = Len(es) /\ end \in 1 .. kept
            BY <1>1, <1>5, <2>1, <2>3
        <3>2. lg[end].term = es[Len(es)].term /\ merged[end] = lg[end]
            BY <1>1, <1>2, <3>1
        <3>3. end <= Len(ld) /\ ld[end].term = es[Len(es)].term
            BY <1>4, <3>1
        <3> QED BY <2>1, <3>2, <3>3
    <2>4. CASE end <= kept /\ Len(es) = 0
        <3>1. end = prev /\ end \in 1 .. kept
            BY <1>1, <1>8, <2>1, <2>4
        <3> QED BY <1>1, <1>2, <1>4, <2>1, <3>1
    <2> QED BY <1>5, <2>1, <2>2, <2>3, <2>4
<1> QED BY <1>7, <1>8 DEF merged, prev, es

\* The entries of a leader's term come from the leader alone.
LEMMA ReceivedEntriesMatch ==
    ASSUME IndexInv, IndexInv', LogInv, ElectionSafety, MatchInv, NEW m \in rpcs, ReceiveAppendEntries(m)
    PROVE  MatchInv'
<1> DEFINE p == m.to
           t == Larger(current_term[p], m.term)
           accepted == m.term >= current_term[p] /\ PrevLogMatches(log[p], m)
           lg == IF accepted THEN Merge(log[p], m.prev_log_index, m.entries) ELSE log[p]
           answers == AnswerAppendEntries(m, t, accepted)
           msgs == (rpcs \ {m}) \cup answers
<1>1. /\ m.kind = "AppendEntries" /\ p \in Server /\ m.from \in Server
      /\ m \in AppendEntriesRequest /\ m.term \in Nat
      /\ rpcs \in SUBSET Message /\ Credible(m, log) /\ log[p] \in Seq(Entry)
      /\ current_term \in [Server -> Nat] /\ role \in [Server -> Roles] /\ log \in [Server -> Seq(Entry)]
      /\ match_indices \in [Server -> [Server -> Nat]]
    <2>1. m.kind = "AppendEntries"
        BY DEF ReceiveAppendEntries
    <2> QED BY <2>1, MessageKinds DEF IndexInv, TypeOK, CredibleMessages, AppendEntriesRequest, Term
<1>2. /\ accepted => ~OverwritePanics(log[p], m.prev_log_index, m.entries)
      /\ current_term' = [current_term EXCEPT ![p] = t]
      /\ log' = [log EXCEPT ![p] = lg]
      /\ IF role[p] # "Follower" THEN BecomeFollower(p, msgs) ELSE StayInRole(msgs)
      /\ UNCHANGED elected
    BY DEF ReceiveAppendEntries, historyVars
<1>3. /\ t \in Nat /\ t >= current_term[p] /\ accepted \in BOOLEAN
      /\ m.term >= current_term[p] => t = m.term
    BY <1>1 DEF Larger, PrevLogMatches
<1>4. \A x \in answers : /\ x \in Message /\ x.kind = "AppendEntriesAnswer"
                         /\ x.from = p /\ x.to = m.from /\ x.term = t /\ x.success = accepted
                         /\ x.end = m.prev_log_index + Len(m.entries)
    <2>1. \A x \in answers : x \in Message /\ x.kind = "AppendEntriesAnswer"
        BY <1>1, <1>3, AnswerAppendEntriesFacts DEF Credible
    <2> HIDE DEF t, accepted
    <2>2. \A x \in answers : x.from = p /\ x.to = m.from /\ x.term = t /\ x.success = accepted
                             /\ x.end = m.prev_log_index + Len(m.entries)
        BY DEF AnswerAppendEntries
    <2> QED BY <2>1, <2>2
<1>5. current_term'[p] = t /\ log'[p] = lg
    BY <1>1, <1>2
<1>6. \A j \in Server : j # p => current_term'[j] = current_term[j] /\ log'[j] = log[j]
    BY <1>1, <1>2
<1> HIDE DEF answers, lg, t, accepted
<1>7. msgs \in SUBSET Message
    BY <1>1, <1>4
<1> HIDE DEF msgs
<1>8. \A j \in Server : /\ current_term[j] \in Nat /\ current_term'[j] \in Nat
                        /\ current_term'[j] >= current_term[j]
    <2> SUFFICES ASSUME NEW j \in Server
                 PROVE  /\ current_term[j] \in Nat /\ current_term'[j] \in Nat
                        /\ current_term'[j] >= current_term[j]
        OBVIOUS
    <2>1. current_term[j] \in Nat
        BY <1>1
    <2>2. CASE j = p
        BY <1>3, <1>5, <2>1, <2>2
    <2>3. CASE j # p
        BY <1>6, <2>1, <2>3
    <2> QED BY <2>2, <2>3
<1>9. /\ role'[p] = "Follower" /\ \A q \in Server : match_indices'[p][q] = 0
      /\ \A j \in Server : j # p => role'[j] = role[j] /\ match_indices'[j] = match_indices[j]
      /\ \A x \in rpcs' : /\ x.kind = "AppendEntries" => \E y \in msgs : SameCall(x, y)
                          /\ x.kind = "AppendEntriesAnswer" => x \in msgs
    <2>1. CASE role[p] # "Follower"
        <3>1. LeaveRole(p, "Follower", outcome, log[p], in_flight_client_requests[p], msgs)
            BY <1>2, <2>1 DEF BecomeFollower
        <3>2. /\ role' = [role EXCEPT ![p] = "Follower"]
              /\ match_indices' = [match_indices EXCEPT ![p] = [q \in Server |-> 0]]
              /\ \A x \in rpcs' : x \in Abandon(p, msgs) \/ x.kind = "ForwardAnswer"
            BY <3>1 DEF LeaveRole, AnswerClients
        <3>3. \A x \in Abandon(p, msgs) : x.kind = "AppendEntriesAnswer" => x \in msgs
            BY <1>1, <1>7, AbandonFacts
        <3>4. \A x \in Abandon(p, msgs) : x.kind = "AppendEntries" => \E y \in msgs : SameCall(x, y)
            BY <1>1, <1>7, AbandonedCall
        <3> QED BY <1>1, <3>2, <3>3, <3>4
    <2>2. CASE role[p] = "Follower"
        <3>1. rpcs' = msgs /\ UNCHANGED <<role, match_indices>>
            BY <1>2, <2>2 DEF StayInRole, leaderVars
        <3>2. \A q \in Server : match_indices[p][q] = 0
            BY <1>1, <2>2 DEF MatchInv, MatchesAgree
        <3>3. \A x \in rpcs' : x.kind = "AppendEntries" => SameCall(x, x)
            BY DEF SameCall
        <3> QED BY <2>2, <3>1, <3>2, <3>3
    <2> QED BY <2>1, <2>2
<1>10. \A x \in msgs : x \in rpcs \/ x \in answers
    BY DEF msgs
\* What the leader of the term sent is in its log still.
<1>11. ASSUME accepted, NEW i \in Server, role[i] = "Leader", current_term[i] = m.term
       PROVE  SentFrom(m, log[i]) /\ m.from = i
    <2>1. Win(m.term, m.from) \in elected /\ Win(m.term, i) \in elected
        BY <1>1, <1>11 DEF MatchInv, CallsAreLeaders, LogInv, LeadersHaveTheirs
    <2>2. m.from = i
        BY <2>1 DEF ElectionSafety, Win
    <2> QED BY <1>1, <1>11, <2>2 DEF MatchInv, CallsAreLeaders, Leads
<1>12. ASSUME NEW i \in Server, i # p, role[i] = "Leader", NEW q \in Server, current_term[q] = current_term[i],
              current_term'[q] = current_term[i], NEW n \in Nat, AgreeAt(log, i, q, n)
       PROVE  AgreeAt(log', i, q, n)
    <2>1. CASE q # p
        BY <1>6, <1>12, <2>1 DEF AgreeAt
    <2>2. CASE q = p /\ ~accepted
        BY <1>5, <1>6, <1>12, <2>2 DEF AgreeAt, lg
    <2>3. CASE q = p /\ accepted /\ n # 0
        <3>1. /\ n <= Len(log[i]) /\ n <= Len(log[p]) /\ log[p][n].term = log[i][n].term
              /\ n \in 1 .. Len(log[p])
            <4>1. n <= Len(log[i]) /\ n <= Len(log[p]) /\ log[p][n].term = log[i][n].term
                BY <1>12, <2>3 DEF AgreeAt
            <4>2. Len(log[p]) \in Nat
                BY <1>1, LenProperties
            <4> QED BY <2>3, <4>1, <4>2
        <3>2. m.term = current_term[i]
            BY <1>1, <1>3, <1>5, <1>12, <2>3 DEF accepted
        <3>3. SentFrom(m, log[i])
            BY <1>11, <1>12, <2>3, <3>2
        <3>4. /\ PrevLogMatches(log[p], m) /\ ~OverwritePanics(log[p], m.prev_log_index, m.entries)
              /\ lg = Merge(log[p], m.prev_log_index, m.entries) /\ log[i] \in Seq(Entry)
            BY <1>1, <1>2, <2>3 DEF accepted, lg
        <3>5. n <= Len(lg) /\ lg[n].term = log[i][n].term
            BY <1>1, <3>1, <3>3, <3>4, MergeAgrees
        <3> QED BY <1>5, <1>6, <1>12, <2>3, <3>1, <3>5 DEF AgreeAt
    <2>4. CASE n = 0
        BY <2>4 DEF AgreeAt
    <2> QED BY <2>1, <2>2, <2>3, <2>4
<1>13. CallsAreLeaders'
    <2> SUFFICES ASSUME NEW x \in rpcs', x.kind = "AppendEntries"
                 PROVE  /\ Win(x.term, x.from) \in elected'
                        /\ role'[x.from] = "Leader" /\ current_term'[x.from] = x.term => SentFrom(x, log'[x.from])
        BY DEF CallsAreLeaders, Leads
    <2>1. PICK y \in rpcs : SameCall(x, y)
        <3>1. PICK y \in msgs : SameCall(x, y)
            BY <1>9
        <3>2. y \in rpcs
            BY <1>4, <1>10, <3>1 DEF SameCall
        <3> QED BY <3>1, <3>2
    <2>2. /\ y.kind = "AppendEntries" /\ x.from = y.from /\ x.term = y.term /\ y.from \in Server
        BY <1>1, <2>1, MessageKinds DEF SameCall
    <2>3. Win(x.term, x.from) \in elected'
        BY <1>2, <2>1, <2>2 DEF MatchInv, CallsAreLeaders
    <2>4. ASSUME role'[x.from] = "Leader", current_term'[x.from] = x.term PROVE SentFrom(x, log'[x.from])
        <3>1. x.from # p
            BY <1>9, <2>4
        <3>2. SentFrom(y, log[x.from]) /\ log'[x.from] = log[x.from]
            BY <1>6, <1>9, <2>1, <2>2, <2>4, <3>1 DEF MatchInv, CallsAreLeaders, Leads
        <3> QED BY <2>1, <3>2, SameSent
    <2> QED BY <2>3, <2>4
<1>14. AnswersAgree'
    <2> SUFFICES ASSUME NEW x \in rpcs', x.kind = "AppendEntriesAnswer", x.success
                 PROVE  /\ x.term <= current_term'[x.from]
                        /\ role'[x.to] = "Leader" /\ current_term'[x.to] = x.term /\ current_term'[x.from] = x.term
                               => AgreeAt(log', x.to, x.from, x.end)
        BY DEF AnswersAgree, Leads
    <2>1. CASE x \in answers
        <3>1. x.from = p /\ x.to = m.from /\ x.term = t /\ accepted /\ x.end = m.prev_log_index + Len(m.entries)
            BY <1>4, <2>1
        <3>2. ASSUME role'[m.from] = "Leader", current_term'[m.from] = t
              PROVE  AgreeAt(log', m.from, p, m.prev_log_index + Len(m.entries))
            <4>1. /\ m.from # p /\ role[m.from] = "Leader" /\ log'[m.from] = log[m.from]
                  /\ current_term[m.from] = m.term
                BY <1>1, <1>3, <1>6, <1>9, <3>1, <3>2 DEF accepted
            <4>2. SentFrom(m, log[m.from])
                BY <1>1, <1>11, <3>1, <4>1
            <4>3. /\ PrevLogMatches(log[p], m) /\ ~OverwritePanics(log[p], m.prev_log_index, m.entries)
                  /\ lg = Merge(log[p], m.prev_log_index, m.entries) /\ log[m.from] \in Seq(Entry)
                BY <1>1, <1>2, <3>1 DEF accepted, lg
            <4> QED BY <1>1, <1>5, <4>1, <4>2, <4>3, MergeAgrees DEF AgreeAt
        <3>3. x.term <= current_term'[x.from]
            BY <1>3, <1>5, <3>1
        <3> QED BY <3>1, <3>2, <3>3
    <2>2. CASE x \in rpcs
        <3>1. x.from \in Server /\ x.to \in Server /\ x.term \in Nat /\ x.end \in Nat
            BY <1>1, <2>2, MessageKinds DEF AppendEntriesAnswer, Term
        <3>2. x.term <= current_term[x.from]
            BY <2>2 DEF MatchInv, AnswersAgree
        <3>3. current_term[x.from] \in Nat /\ current_term'[x.from] \in Nat /\ current_term'[x.from] >= current_term[x.from]
            BY <1>8, <3>1
        <3>4. ASSUME role'[x.to] = "Leader", current_term'[x.to] = x.term, current_term'[x.from] = x.term
              PROVE  AgreeAt(log', x.to, x.from, x.end)
            <4>1. x.to # p /\ role[x.to] = "Leader" /\ current_term[x.to] = x.term
                BY <1>6, <1>9, <3>1, <3>4
            <4>2. current_term[x.from] = x.term
                BY <3>1, <3>2, <3>3, <3>4
            <4>3. AgreeAt(log, x.to, x.from, x.end)
                BY <2>2, <4>1, <4>2 DEF MatchInv, AnswersAgree, Leads
            <4> QED BY <1>12, <3>1, <3>4, <4>1, <4>2, <4>3
        <3> QED BY <3>1, <3>2, <3>3, <3>4
    <2> QED BY <1>9, <1>10, <2>1, <2>2
<1>15. MatchesAgree'
    <2> SUFFICES ASSUME NEW i \in Server, NEW q \in Server, match_indices'[i][q] # 0
                 PROVE  /\ role'[i] = "Leader" /\ current_term'[q] >= current_term'[i]
                        /\ current_term'[q] = current_term'[i] => AgreeAt(log', i, q, match_indices'[i][q])
        BY DEF MatchesAgree, Credited
    <2>1. /\ i # p /\ match_indices'[i][q] = match_indices[i][q] /\ role'[i] = role[i]
          /\ current_term'[i] = current_term[i] /\ match_indices[i][q] \in Nat
        BY <1>1, <1>6, <1>9
    <2>2. role[i] = "Leader" /\ current_term[q] >= current_term[i]
          /\ (current_term[q] = current_term[i] => AgreeAt(log, i, q, match_indices[i][q]))
        BY <2>1 DEF MatchInv, MatchesAgree, Credited
    <2>3. /\ current_term[q] \in Nat /\ current_term[i] \in Nat /\ current_term'[q] \in Nat
          /\ current_term'[q] >= current_term[q]
        BY <1>8
    <2>4. ASSUME current_term'[q] = current_term[i] PROVE AgreeAt(log', i, q, match_indices[i][q])
        <3>1. current_term[q] = current_term[i]
            BY <2>2, <2>3, <2>4
        <3> QED BY <1>12, <2>1, <2>2, <2>4, <3>1
    <2> QED BY <2>1, <2>2, <2>3, <2>4
<1> QED BY <1>13, <1>14, <1>15 DEF MatchInv

\* A winner has sent nothing in its term yet, and forgets the answers to
\* what it sent before.
LEMMA ReceiveVoteMatch ==
    ASSUME IndexInv, IndexInv', LogInv, MatchInv, NEW m \in rpcs, ReceiveVote(m)
    PROVE  MatchInv'
<1> DEFINE i == m.to
           received == votes[i] \cup {m.from}
           won == Cardinality(received) >= Quorum
           win == Win(current_term[i], i)
<1>1. i \in Server /\ rpcs \in SUBSET Message /\ role \in [Server -> Roles]
    BY MessageKinds DEF IndexInv, TypeOK
<1>2. /\ role[i] = "Candidate"
      /\ rpcs' = IF won THEN Abandon(i, rpcs) ELSE rpcs \ {m}
      /\ IF won THEN role' = [role EXCEPT ![i] = "Leader"] /\ elected' = elected \cup {win}
                ELSE UNCHANGED <<role, elected>>
      /\ UNCHANGED <<current_term, log, match_indices>>
    BY DEF ReceiveVote, persistentVars, Win
<1> HIDE DEF won
<1>3. CASE ~won
    <2>1. Told(rpcs')
        BY <1>2, <1>3, ToldBefore
    <2>2. MatchQuiet
        BY <1>2, <1>3, <2>1, SameRoleMatch DEF IndexInv
    <2> QED BY <2>2, MatchQuietKeeps DEF IndexInv
<1>4. CASE won
    <2>1. /\ role' = [role EXCEPT ![i] = "Leader"] /\ elected' = elected \cup {win}
          /\ rpcs' = Abandon(i, rpcs) /\ UNCHANGED <<current_term, log, match_indices>>
        BY <1>2, <1>4
    <2>2. \A j \in Server : j # i => role'[j] = role[j]
        BY <1>1, <2>1
    <2>3. CallsAreLeaders'
        <3> SUFFICES ASSUME NEW x \in rpcs', x.kind = "AppendEntries"
                     PROVE  /\ Win(x.term, x.from) \in elected'
                            /\ role'[x.from] = "Leader" /\ current_term[x.from] = x.term => SentFrom(x, log[x.from])
            BY <2>1 DEF CallsAreLeaders, Leads
        <3>1. PICK y \in rpcs : SameCall(x, y)
            BY <1>1, <2>1, AbandonedCall
        <3>2. y.kind = "AppendEntries" /\ x.from = y.from /\ x.term = y.term /\ y.from \in Server
            BY <1>1, <3>1, MessageKinds DEF SameCall, AppendEntriesRequest
        <3>3. Win(x.term, x.from) \in elected
            BY <3>1, <3>2 DEF MatchInv, CallsAreLeaders
        <3>4. ASSUME role'[x.from] = "Leader", current_term[x.from] = x.term PROVE SentFrom(x, log[x.from])
            <4>1. x.from # i
                BY <1>1, <1>2, <3>3, <3>4 DEF LogInv, WinsArePast
            <4>2. SentFrom(y, log[x.from])
                BY <2>2, <3>1, <3>2, <3>4, <4>1 DEF MatchInv, CallsAreLeaders, Leads
            <4> QED BY <3>1, <4>2, SameSent
        <3> QED BY <2>1, <3>3, <3>4
    <2>4. AnswersAgree'
        <3>1. \A x \in rpcs' : x.kind = "AppendEntriesAnswer" => x \in rpcs /\ x.to # i /\ x.to \in Server
            BY <1>1, <2>1, AbandonFacts, MessageKinds
        <3> QED BY <2>1, <2>2, <3>1 DEF MatchInv, AnswersAgree, Leads, AgreeAt
    <2>5. MatchesAgree'
        <3>1. \A q \in Server : match_indices[i][q] = 0
            BY <1>1, <1>2 DEF MatchInv, MatchesAgree
        <3> QED BY <2>1, <2>2, <3>1 DEF MatchInv, MatchesAgree, Credited, AgreeAt
    <2> QED BY <2>3, <2>4, <2>5 DEF MatchInv
<1> QED BY <1>3, <1>4

-----------------------------------------------------------------------------
(* Theorem: what is counted as replicated is there *)

LEMMA MatchInvInit == Init => MatchInv
BY DEF Init, MatchInv, CallsAreLeaders, AnswersAgree, MatchesAgree

\* Only a vote that wins and the entries of a call are told apart below.
LEMMA MatchQuietNext ==
    IndexInv /\ LogInv /\ MatchInv /\ [Next]_vars =>
        MatchQuiet \/ \E m \in rpcs : ReceiveVote(m) \/ ReceiveAppendEntries(m)
<1> SUFFICES ASSUME IndexInv, LogInv, MatchInv, [Next]_vars,
                    ~ \E m \in rpcs : ReceiveVote(m) \/ ReceiveAppendEntries(m)
             PROVE  MatchQuiet
    OBVIOUS
<1>1. ASSUME NEW m \in rpcs, Receive(m) \/ AppendEntriesCallFails(m) PROVE MatchQuiet
    <2>1. CASE ReceiveRequestVote(m) \/ ReceiveAppendEntriesResponse(m) \/ RefuseAppendEntries(m)
                   \/ PanicInOverwriteLog(m)
        BY <2>1, RequestVoteMatch, ResponseMatch, RefusalMatch
    <2>2. CASE ReceiveForwardAnswer(m) \/ AppendEntriesCallFails(m)
        BY <2>2, ExchangeMatch
    <2>3. CASE ReceiveForward(m)
        <3>1. m.to \in Server /\ m.cmd \in Cmd
            BY <2>3, MessageKinds DEF ReceiveForward, IndexInv, TypeOK, ForwardRequest
        <3>2. CASE HandleLogUpdate(m.to, m.cmd, outcome, rpcs \ {m})
            BY <3>1, <3>2, LogUpdateMatch
        <3>3. CASE ~HandleLogUpdate(m.to, m.cmd, outcome, rpcs \ {m})
            <4>1. \A x \in rpcs' : x \in rpcs \/ x.kind = "ForwardAnswer"
                BY <2>3, <3>3 DEF ReceiveForward
            <4>2. \A x \in rpcs' : x.kind \in {"AppendEntries", "AppendEntriesAnswer"} => x \in rpcs
                BY <4>1
            <4> QED BY <2>3, <3>3, <4>2, ToldBefore, SameRoleMatch
                    DEF ReceiveForward, persistentVars, leaderVars, historyVars, IndexInv
        <3> QED BY <3>2, <3>3
    <2> QED BY <1>1, <2>1, <2>2, <2>3 DEF Receive
<1>2. ASSUME NEW c \in Cmd, ClientRequest(c) \/ ForwardCallFails(c) PROVE MatchQuiet
    <2>1. CASE LeaderClientRequest(c)
        <3>1. origin[c] \in Server /\ rpcs \in SUBSET rpcs
            BY DEF IndexInv, TypeOK
        <3> QED BY <2>1, <3>1, LogUpdateMatch DEF LeaderClientRequest
    <2>2. CASE ~LeaderClientRequest(c)
        BY <1>2, <2>2, ExchangeMatch DEF ClientRequest
    <2> QED BY <2>1, <2>2
<1>3. ASSUME NEW i \in Server, ElectionTimeout(i) \/ Heartbeat(i) \/ CloseWindow(i) \/ Restart(i)
      PROVE  MatchQuiet
    BY <1>3, ElectionTimeoutMatch, HeartbeatMatch, WindowMatch
<1>4. ASSUME NEW i \in Server, NEW j \in Server, Disconnect(i, j) \/ NewPeer(i, j) PROVE MatchQuiet
    BY <1>4, ExchangeMatch
<1>5. CASE UNCHANGED vars
    BY <1>5, ToldBefore, SameRoleMatch DEF vars, persistentVars, leaderVars, historyVars, IndexInv
<1> QED BY <1>1, <1>2, <1>3, <1>4, <1>5 DEF Next

LEMMA MatchInvNext ==
    IndexInv /\ IndexInv' /\ ElectionSafety /\ LogInv /\ MatchInv /\ [Next]_vars => MatchInv'
BY MatchQuietNext, MatchQuietKeeps, ReceiveVoteMatch, ReceivedEntriesMatch DEF IndexInv

\* What a leader counts as replicated on a peer of its term is in that peer's
\* log: the answers of worker.rs:643-647 credit no more, whatever calls
\* failed, were orphaned or overtook each other before.
THEOREM MatchesAreSound == Spec => []MatchIndexSound
<1>1. IndexInv /\ ElectionInv => ElectionSafety
    BY OneWinnerPerTerm DEF ElectionInv, IndexInv
<1>2. IndexInv /\ LogInv => LogMatching
    BY PlacesMatch DEF IndexInv, LogInv
<1>3. IndexInv /\ LogMatching /\ MatchInv => MatchIndexSound
    BY CreditedMatch DEF IndexInv, MatchInv
<1> QED BY <1>1, <1>2, <1>3, IndexInvInit, IndexInvNext, ElectionInvInit, ElectionInvNext, LogInvInit, LogInvNext,
           MatchInvInit, MatchInvNext, PTL DEF Spec

=============================================================================
