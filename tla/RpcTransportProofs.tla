------------------------- MODULE RpcTransportProofs -------------------------
(***************************************************************************)
(* Calls over one connection, for any number of them and any capacity of    *)
(* the table, as long as indices do not wrap.  An index is carried from the *)
(* table through both windows and back; the invariant says that wherever it *)
(* is met it stands for the same call, that a call is asked once, and that  *)
(* what comes back was handled.                                             *)
(***************************************************************************)
EXTENDS RpcTransport, FiniteSetTheorems, SequenceTheorems, TLAPS

\* Fewer calls than usize can number: the index does not wrap.
FewCalls == IsFiniteSet(Call) /\ Cardinality(Call) < UsizeMod

\* What of a request or a response travels: the index and, to the proof only,
\* the call it stands for.
Pairs(seq) == {<<seq[k].idx, seq[k].req>> : k \in DOMAIN seq}
Reqs(seq) == {seq[k].req : k \in DOMAIN seq}
Values(seq) == {seq[k] : k \in DOMAIN seq}
NoRepeats(seq) == \A j, k \in DOMAIN seq : seq[j].req = seq[k].req => j = k

Asked == [idx : Nat, req : Call]
Answered == [idx : Nat, req : Call, ok : BOOLEAN]
Filled == [idx : Nat, value : Call]

TransportTypes ==
    /\ status \in [Call -> {"new"} \cup Waiting \cup Ended]
    /\ answer \in [Call -> Call \cup {None}]
    /\ manager \in BOOLEAN
    /\ in_flight.data \in [Slots -> Filled \cup {None}] /\ in_flight.next_idx \in Nat
    /\ req_rx \in Seq(Call) /\ resp_rx \in Seq(Answered) /\ timeout_rx \in Seq(Nat)
    /\ timers \subseteq Nat
    /\ to_server \in Seq(Asked) /\ to_caller \in Seq(Answered)
    /\ server_req_rx \in Seq(Asked) /\ serving \in Asked \cup {None}
    /\ handled \in Seq(Call)

\* The calls whose turn has come in the RequestManager, or never will.
Begun == {c \in Call : status[c] \notin {"new", "queued"}}

\* Each queued call waits once.
QueueInv ==
    \A j \in DOMAIN req_rx : /\ status[req_rx[j]] = "queued"
                             /\ \A k \in DOMAIN req_rx : req_rx[j] = req_rx[k] => j = k

Kept == {s \in Slots : in_flight.data[s] # None}
KeptCall(s) == in_flight.data[s].value

\* Each entry of the table lies in its slot and is of a call that waits for it.
TableInv ==
    /\ \A s \in Kept : DataIdx(in_flight.data[s].idx) = s /\ status[KeptCall(s)] = "in_flight"
    /\ \A s, t \in Kept : KeptCall(s) = KeptCall(t) => s = t

CountInv == manager => in_flight.next_idx <= Cardinality(Begun)

Arrived == Values(handled)
Asking == Reqs(to_server) \cup Reqs(server_req_rx)

\* A call is asked once: before its request is handled, and not again.
AskedInv ==
    /\ NoRepeats(to_server) /\ NoRepeats(server_req_rx)
    /\ Reqs(to_server) \cap Reqs(server_req_rx) = {}
    /\ Asking \cap Arrived = {}
    /\ Asking \cup Arrived \subseteq Begun

\* What is answered was handled.
AnsweredInv ==
    /\ serving # None => serving.req \in Arrived
    /\ Reqs(to_caller) \cup Reqs(resp_rx) \subseteq Arrived

KeptPairs == {<<in_flight.data[s].idx, KeptCall(s)>> : s \in Kept}
ServedPair == IF serving = None THEN {} ELSE {<<serving.idx, serving.req>>}
AllPairs ==
    KeptPairs \cup Pairs(to_server) \cup Pairs(server_req_rx) \cup ServedPair
        \cup Pairs(to_caller) \cup Pairs(resp_rx)

\* An index stands for one call, and the next index for none yet.
IndexInv ==
    /\ \A p, q \in AllPairs : p[1] = q[1] => p[2] = q[2]
    /\ manager => \A p \in AllPairs : p[1] < in_flight.next_idx

TransportInv ==
    /\ TransportTypes
    /\ QueueInv
    /\ TableInv
    /\ CountInv
    /\ AskedInv
    /\ AnsweredInv
    /\ IndexInv
    /\ TimedEntries
    /\ AnswerIsOwn

-----------------------------------------------------------------------------
(* Sequences and slots *)

LEMMA SlotOfIndex == ASSUME NEW i \in Nat PROVE DataIdx(i) \in Slots
BY CapacityAssumption DEF DataIdx, Slots

LEMMA SmallModulo == ASSUME NEW x \in Nat, NEW y \in Nat, x < y PROVE x % y = x
OBVIOUS

LEMMA PairsOfEmpty == Pairs(<<>>) = {} /\ Reqs(<<>>) = {} /\ NoRepeats(<<>>)
BY DEF Pairs, Reqs, NoRepeats

LEMMA PairsOfAppend ==
    ASSUME NEW S, NEW seq \in Seq(S), NEW x \in S
    PROVE  /\ Append(seq, x) \in Seq(S)
           /\ Pairs(Append(seq, x)) = Pairs(seq) \cup {<<x.idx, x.req>>}
           /\ Reqs(Append(seq, x)) = Reqs(seq) \cup {x.req}
           /\ NoRepeats(seq) /\ x.req \notin Reqs(seq) => NoRepeats(Append(seq, x))
<1> DEFINE app == Append(seq, x)
<1>1. /\ app \in Seq(S) /\ Len(seq) \in Nat /\ DOMAIN seq = 1 .. Len(seq)
      /\ DOMAIN app = 1 .. Len(seq) + 1 /\ app[Len(seq) + 1] = x
      /\ \A k \in 1 .. Len(seq) : app[k] = seq[k]
  BY AppendProperties, LenProperties
<1> HIDE DEF app
<1>2. DOMAIN app = DOMAIN seq \cup {Len(seq) + 1} /\ Len(seq) + 1 \notin DOMAIN seq
  BY <1>1
<1>3. Pairs(app) = Pairs(seq) \cup {<<x.idx, x.req>>}
  BY <1>1, <1>2 DEF Pairs
<1>4. Reqs(app) = Reqs(seq) \cup {x.req}
  BY <1>1, <1>2 DEF Reqs
<1>5. NoRepeats(seq) /\ x.req \notin Reqs(seq) => NoRepeats(app)
  BY <1>1, <1>2 DEF NoRepeats, Reqs
<1> QED  BY <1>1, <1>3, <1>4, <1>5 DEF app

LEMMA PairsOfTail ==
    ASSUME NEW S, NEW seq \in Seq(S), seq # <<>>
    PROVE  /\ Head(seq) \in S /\ Tail(seq) \in Seq(S)
           /\ Pairs(seq) = Pairs(Tail(seq)) \cup {<<Head(seq).idx, Head(seq).req>>}
           /\ Reqs(seq) = Reqs(Tail(seq)) \cup {Head(seq).req}
           /\ NoRepeats(seq) => NoRepeats(Tail(seq)) /\ Head(seq).req \notin Reqs(Tail(seq))
<1> DEFINE rest == Tail(seq)
<1>1. /\ Head(seq) \in S /\ rest \in Seq(S) /\ Len(seq) \in Nat \ {0} /\ DOMAIN seq = 1 .. Len(seq)
      /\ DOMAIN rest = 1 .. Len(seq) - 1 /\ \A k \in DOMAIN rest : rest[k] = seq[k + 1]
      /\ Head(seq) = seq[1]
  BY HeadTailProperties, EmptySeq, LenProperties
<1> HIDE DEF rest
<1>2. \A k \in DOMAIN seq : k = 1 \/ (k - 1 \in DOMAIN rest /\ seq[k] = rest[k - 1])
  BY <1>1
<1>3. \A k \in DOMAIN rest : k + 1 \in DOMAIN seq /\ k + 1 # 1
  BY <1>1
<1>4. 1 \in DOMAIN seq  BY <1>1
<1>5. Pairs(seq) = Pairs(rest) \cup {<<Head(seq).idx, Head(seq).req>>}
  BY <1>1, <1>2, <1>3, <1>4 DEF Pairs
<1>6. Reqs(seq) = Reqs(rest) \cup {Head(seq).req}
  BY <1>1, <1>2, <1>3, <1>4 DEF Reqs
<1>7. NoRepeats(seq) => NoRepeats(rest) /\ Head(seq).req \notin Reqs(rest)
  <2>1. HAVE NoRepeats(seq)
  <2>2. \A j, k \in DOMAIN rest : rest[j].req = rest[k].req => j = k
    <3>1. TAKE j, k \in DOMAIN rest
    <3>2. HAVE rest[j].req = rest[k].req
    <3>3. seq[j + 1].req = seq[k + 1].req  BY <1>1, <3>2
    <3>4. j + 1 = k + 1  BY <1>3, <2>1, <3>3 DEF NoRepeats
    <3> QED  BY <1>1, <3>4
  <2>3. \A k \in DOMAIN rest : rest[k].req # Head(seq).req
    BY <1>1, <1>3, <1>4, <2>1 DEF NoRepeats
  <2> QED  BY <2>2, <2>3 DEF NoRepeats, Reqs
<1> QED  BY <1>1, <1>5, <1>6, <1>7 DEF rest

LEMMA ValuesOfAppend ==
    ASSUME NEW S, NEW seq \in Seq(S), NEW x \in S
    PROVE  /\ Append(seq, x) \in Seq(S)
           /\ Values(Append(seq, x)) = Values(seq) \cup {x}
           /\ \A k \in DOMAIN Append(seq, x) :
                 (k \in DOMAIN seq /\ Append(seq, x)[k] = seq[k])
                    \/ (k = Len(seq) + 1 /\ Append(seq, x)[k] = x)
<1> DEFINE app == Append(seq, x)
<1>1. /\ app \in Seq(S) /\ Len(seq) \in Nat /\ DOMAIN seq = 1 .. Len(seq)
      /\ DOMAIN app = 1 .. Len(seq) + 1 /\ app[Len(seq) + 1] = x
      /\ \A k \in 1 .. Len(seq) : app[k] = seq[k]
  BY AppendProperties, LenProperties
<1> HIDE DEF app
<1>2. DOMAIN app = DOMAIN seq \cup {Len(seq) + 1}
  BY <1>1
<1>3. Values(app) = Values(seq) \cup {x}  BY <1>1, <1>2 DEF Values
<1> QED  BY <1>1, <1>2, <1>3 DEF app

LEMMA ValuesOfTail ==
    ASSUME NEW S, NEW seq \in Seq(S), seq # <<>>
    PROVE  /\ Head(seq) \in S /\ Tail(seq) \in Seq(S)
           /\ Values(seq) = Values(Tail(seq)) \cup {Head(seq)}
           /\ 1 \in DOMAIN seq /\ Head(seq) = seq[1]
           /\ \A k \in DOMAIN Tail(seq) :
                 k \in Nat /\ k + 1 \in DOMAIN seq /\ k + 1 # 1 /\ Tail(seq)[k] = seq[k + 1]
<1> DEFINE rest == Tail(seq)
<1>1. /\ Head(seq) \in S /\ rest \in Seq(S) /\ Len(seq) \in Nat \ {0} /\ DOMAIN seq = 1 .. Len(seq)
      /\ DOMAIN rest = 1 .. Len(seq) - 1 /\ \A k \in DOMAIN rest : rest[k] = seq[k + 1]
      /\ Head(seq) = seq[1]
  BY HeadTailProperties, EmptySeq, LenProperties
<1> HIDE DEF rest
<1>2. \A k \in DOMAIN seq : k = 1 \/ (k - 1 \in DOMAIN rest /\ seq[k] = rest[k - 1])
  BY <1>1
<1>3. \A k \in DOMAIN rest : k \in Nat /\ k + 1 \in DOMAIN seq /\ k + 1 # 1
  BY <1>1
<1>4. 1 \in DOMAIN seq  BY <1>1
<1>5. Values(seq) = Values(rest) \cup {Head(seq)}
  BY <1>1, <1>2, <1>3, <1>4 DEF Values
<1> QED  BY <1>1, <1>3, <1>4, <1>5 DEF rest

-----------------------------------------------------------------------------
(* What a step leaves alone *)

\* A call that leaves the queue stays out of it.
LEMMA MoreBegun ==
    ASSUME FewCalls, Begun \subseteq Begun'
    PROVE  Cardinality(Begun) <= Cardinality(Begun') /\ Cardinality(Begun) \in Nat /\ Cardinality(Begun') \in Nat
<1>1. Begun \subseteq Call /\ Begun' \subseteq Call  BY DEF Begun
<1>2. IsFiniteSet(Begun) /\ IsFiniteSet(Begun')  BY <1>1, FS_Subset DEF FewCalls
<1> QED  BY <1>2, FS_Subset, FS_CardinalityType

\* The serving window and the channel do not touch the calling one.
LEMMA CallerSame ==
    ASSUME TransportInv, UNCHANGED callerVars
    PROVE  /\ Begun' = Begun
           /\ QueueInv' /\ TableInv' /\ CountInv' /\ TimedEntries' /\ AnswerIsOwn'
           /\ UNCHANGED <<status, answer, manager, in_flight, req_rx, resp_rx, timeout_rx, timers>>
<1>1. UNCHANGED <<status, answer, manager, in_flight, req_rx, resp_rx, timeout_rx, timers>>
  BY DEF callerVars
<1>2. Begun' = Begun  BY <1>1 DEF Begun
<1>3. QueueInv' /\ TableInv'  BY <1>1 DEF TransportInv, QueueInv, TableInv, Kept, KeptCall
<1>4. CountInv'  BY <1>1, <1>2 DEF TransportInv, CountInv
<1>5. TimedEntries' /\ AnswerIsOwn'  BY <1>1 DEF TransportInv, TimedEntries, AnswerIsOwn
<1> QED  BY <1>1, <1>2, <1>3, <1>4, <1>5

LEMMA PairTypes == ASSUME TransportInv PROVE \A p \in AllPairs : p[1] \in Nat
<1>1. \A p \in KeptPairs : p[1] \in Nat
  BY DEF TransportInv, TransportTypes, KeptPairs, Kept, KeptCall, Filled
<1>2. \A p \in ServedPair : p[1] \in Nat
  BY DEF TransportInv, TransportTypes, ServedPair, Asked
<1>3. \A seq \in Seq(Asked) : \A p \in Pairs(seq) : p[1] \in Nat
  <2>1. TAKE seq \in Seq(Asked)
  <2>2. \A k \in DOMAIN seq : seq[k] \in Asked  BY ElementOfSeq, LenProperties
  <2> QED  BY <2>2 DEF Pairs, Asked
<1>4. \A seq \in Seq(Answered) : \A p \in Pairs(seq) : p[1] \in Nat
  <2>1. TAKE seq \in Seq(Answered)
  <2>2. \A k \in DOMAIN seq : seq[k] \in Answered  BY ElementOfSeq, LenProperties
  <2> QED  BY <2>2 DEF Pairs, Answered
<1> QED  BY <1>1, <1>2, <1>3, <1>4 DEF AllPairs, TransportInv, TransportTypes

\* No index is given to another call.
LEMMA FewerPairs ==
    ASSUME TransportInv, AllPairs' \subseteq AllPairs,
           manager' => manager /\ in_flight'.next_idx >= in_flight.next_idx,
           manager' => in_flight'.next_idx \in Nat
    PROVE  IndexInv'
<1>1. manager' => \A p \in AllPairs : p[1] < in_flight.next_idx
  BY DEF TransportInv, IndexInv
<1>2. \A p \in AllPairs : p[1] \in Nat  BY PairTypes
<1>3. in_flight.next_idx \in Nat  BY DEF TransportInv, TransportTypes
<1> QED  BY <1>1, <1>2, <1>3 DEF TransportInv, IndexInv

-----------------------------------------------------------------------------
(* The data channel *)

LEMMA ChannelClosesKeeps ==
    ASSUME TransportInv, ChannelCloses
    PROVE  TransportInv'
<1>1. /\ UNCHANGED callerVars
      /\ UNCHANGED <<server_req_rx, serving, handled, to_server, to_caller>>
  BY DEF ChannelCloses, serverVars
<1>2. /\ Begun' = Begun
      /\ QueueInv' /\ TableInv' /\ CountInv' /\ TimedEntries' /\ AnswerIsOwn'
      /\ UNCHANGED <<status, answer, manager, in_flight, req_rx, resp_rx, timeout_rx, timers>>
  BY <1>1, CallerSame
<1>3. TransportTypes'  BY <1>1, <1>2 DEF TransportInv, TransportTypes
<1>4. AskedInv'  BY <1>1, <1>2 DEF TransportInv, AskedInv, Asking, Arrived
<1>5. AnsweredInv'  BY <1>1, <1>2 DEF TransportInv, AnsweredInv, Arrived
<1>6. IndexInv'
  BY <1>1, <1>2 DEF TransportInv, IndexInv, AllPairs, KeptPairs, Kept, KeptCall, ServedPair
<1> QED  BY <1>2, <1>3, <1>4, <1>5, <1>6 DEF TransportInv

LEMMA CallerOnCloseKeeps ==
    ASSUME TransportInv, CallerOnClose
    PROVE  TransportInv'
<1>1. /\ UNCHANGED callerVars /\ to_caller' = <<>>
      /\ UNCHANGED <<server_req_rx, serving, handled, to_server>>
  BY DEF CallerOnClose, serverVars
<1>2. /\ Begun' = Begun
      /\ QueueInv' /\ TableInv' /\ CountInv' /\ TimedEntries' /\ AnswerIsOwn'
      /\ UNCHANGED <<status, answer, manager, in_flight, req_rx, resp_rx, timeout_rx, timers>>
  BY <1>1, CallerSame
<1>3. TransportTypes'  BY <1>1, <1>2, EmptySeq DEF TransportInv, TransportTypes
<1>4. AskedInv'  BY <1>1, <1>2 DEF TransportInv, AskedInv, Asking, Arrived
<1>5. AnsweredInv'  BY <1>1, <1>2, PairsOfEmpty DEF TransportInv, AnsweredInv, Arrived
<1>6. AllPairs' \subseteq AllPairs
  BY <1>1, <1>2, PairsOfEmpty DEF AllPairs, KeptPairs, Kept, KeptCall, ServedPair
<1>7. IndexInv'
  BY <1>2, <1>6, FewerPairs DEF TransportInv, TransportTypes
<1> QED  BY <1>2, <1>3, <1>4, <1>5, <1>7 DEF TransportInv

LEMMA ServerOnCloseKeeps ==
    ASSUME TransportInv, ServerOnClose
    PROVE  TransportInv'
<1>1. /\ UNCHANGED callerVars /\ to_server' = <<>>
      /\ UNCHANGED <<server_req_rx, serving, handled, to_caller>>
  BY DEF ServerOnClose, serverVars
<1>2. /\ Begun' = Begun
      /\ QueueInv' /\ TableInv' /\ CountInv' /\ TimedEntries' /\ AnswerIsOwn'
      /\ UNCHANGED <<status, answer, manager, in_flight, req_rx, resp_rx, timeout_rx, timers>>
  BY <1>1, CallerSame
<1>3. TransportTypes'  BY <1>1, <1>2, EmptySeq DEF TransportInv, TransportTypes
<1>4. AskedInv'  BY <1>1, <1>2, PairsOfEmpty DEF TransportInv, AskedInv, Asking, Arrived
<1>5. AnsweredInv'  BY <1>1, <1>2 DEF TransportInv, AnsweredInv, Arrived
<1>6. AllPairs' \subseteq AllPairs
  BY <1>1, <1>2, PairsOfEmpty DEF AllPairs, KeptPairs, Kept, KeptCall, ServedPair
<1>7. IndexInv'
  BY <1>2, <1>6, FewerPairs DEF TransportInv, TransportTypes
<1> QED  BY <1>2, <1>3, <1>4, <1>5, <1>7 DEF TransportInv

-----------------------------------------------------------------------------
(* The serving side *)

LEMMA ReceiveRequestKeeps ==
    ASSUME TransportInv, ReceiveRequest
    PROVE  TransportInv'
<1> DEFINE m == Head(to_server)
<1>1. /\ UNCHANGED callerVars /\ to_server # <<>> /\ to_server' = Tail(to_server)
      /\ server_req_rx' = Append(server_req_rx, m)
      /\ UNCHANGED <<serving, handled, to_caller>>
  BY DEF ReceiveRequest
<1>2. /\ Begun' = Begun
      /\ QueueInv' /\ TableInv' /\ CountInv' /\ TimedEntries' /\ AnswerIsOwn'
      /\ UNCHANGED <<status, answer, manager, in_flight, req_rx, resp_rx, timeout_rx, timers>>
  BY <1>1, CallerSame
<1>3. to_server \in Seq(Asked) /\ server_req_rx \in Seq(Asked)
  BY DEF TransportInv, TransportTypes
<1>4. /\ m \in Asked /\ to_server' \in Seq(Asked)
      /\ Pairs(to_server) = Pairs(to_server') \cup {<<m.idx, m.req>>}
      /\ Reqs(to_server) = Reqs(to_server') \cup {m.req}
      /\ NoRepeats(to_server) => NoRepeats(to_server') /\ m.req \notin Reqs(to_server')
  BY <1>1, <1>3, PairsOfTail
<1>5. /\ server_req_rx' \in Seq(Asked)
      /\ Pairs(server_req_rx') = Pairs(server_req_rx) \cup {<<m.idx, m.req>>}
      /\ Reqs(server_req_rx') = Reqs(server_req_rx) \cup {m.req}
      /\ NoRepeats(server_req_rx) /\ m.req \notin Reqs(server_req_rx) => NoRepeats(server_req_rx')
  BY <1>1, <1>3, <1>4, PairsOfAppend
<1> HIDE DEF m
<1>6. TransportTypes'  BY <1>1, <1>2, <1>4, <1>5 DEF TransportInv, TransportTypes
<1>7. AskedInv'  BY <1>1, <1>2, <1>4, <1>5 DEF TransportInv, AskedInv, Asking, Arrived
<1>8. AnsweredInv'  BY <1>1, <1>2 DEF TransportInv, AnsweredInv, Arrived
<1>9. AllPairs' \subseteq AllPairs
  BY <1>1, <1>2, <1>4, <1>5 DEF AllPairs, KeptPairs, Kept, KeptCall, ServedPair
<1>10. IndexInv'
  BY <1>2, <1>9, FewerPairs DEF TransportInv, TransportTypes
<1> QED  BY <1>2, <1>6, <1>7, <1>8, <1>10 DEF TransportInv

LEMMA ServeKeeps ==
    ASSUME TransportInv, Serve
    PROVE  /\ TransportInv'
           /\ \E c \in Begun : /\ handled' = Append(handled, c) /\ c \notin Arrived
                               /\ UNCHANGED status
<1> DEFINE m == Head(server_req_rx)
<1>1. /\ UNCHANGED callerVars /\ server_req_rx # <<>> /\ server_req_rx' = Tail(server_req_rx)
      /\ serving' = m /\ handled' = Append(handled, m.req)
      /\ UNCHANGED <<to_server, to_caller>>
  BY DEF Serve, channelVars
<1>2. /\ Begun' = Begun
      /\ QueueInv' /\ TableInv' /\ CountInv' /\ TimedEntries' /\ AnswerIsOwn'
      /\ UNCHANGED <<status, answer, manager, in_flight, req_rx, resp_rx, timeout_rx, timers>>
  BY <1>1, CallerSame
<1>3. server_req_rx \in Seq(Asked) /\ handled \in Seq(Call)
  BY DEF TransportInv, TransportTypes
<1>4. /\ m \in Asked /\ server_req_rx' \in Seq(Asked)
      /\ Pairs(server_req_rx) = Pairs(server_req_rx') \cup {<<m.idx, m.req>>}
      /\ Reqs(server_req_rx) = Reqs(server_req_rx') \cup {m.req}
      /\ NoRepeats(server_req_rx) => NoRepeats(server_req_rx') /\ m.req \notin Reqs(server_req_rx')
  BY <1>1, <1>3, PairsOfTail
<1> HIDE DEF m
<1>5. m.req \in Call  BY <1>4 DEF Asked
<1>6. handled' \in Seq(Call) /\ Arrived' = Arrived \cup {m.req}
  BY <1>1, <1>3, <1>5, ValuesOfAppend DEF Arrived
<1>7. m.req \in Begun /\ m.req \notin Arrived
  BY <1>4 DEF TransportInv, AskedInv, Asking
<1>8. TransportTypes'  BY <1>1, <1>2, <1>4, <1>6 DEF TransportInv, TransportTypes
<1>9. AskedInv'  BY <1>1, <1>2, <1>4, <1>6 DEF TransportInv, AskedInv, Asking
<1>10. AnsweredInv'  BY <1>1, <1>2, <1>6 DEF TransportInv, AnsweredInv
<1>11. AllPairs' \subseteq AllPairs
  BY <1>1, <1>2, <1>4 DEF AllPairs, KeptPairs, Kept, KeptCall, ServedPair
<1>12. IndexInv'
  BY <1>2, <1>11, FewerPairs DEF TransportInv, TransportTypes
<1>13. TransportInv'  BY <1>2, <1>8, <1>9, <1>10, <1>12 DEF TransportInv
<1> QED  BY <1>1, <1>2, <1>7, <1>13

LEMMA RespondKeeps ==
    ASSUME TransportInv, NEW ok \in BOOLEAN, Respond(ok)
    PROVE  TransportInv'
<1> DEFINE m == [idx |-> serving.idx, req |-> serving.req, ok |-> ok]
<1>1. /\ UNCHANGED callerVars /\ serving # None /\ serving' = None
      /\ to_caller' = Append(to_caller, m) \/ to_caller' = to_caller
      /\ UNCHANGED <<to_server, server_req_rx, handled>>
  BY DEF Respond
<1>2. /\ Begun' = Begun
      /\ QueueInv' /\ TableInv' /\ CountInv' /\ TimedEntries' /\ AnswerIsOwn'
      /\ UNCHANGED <<status, answer, manager, in_flight, req_rx, resp_rx, timeout_rx, timers>>
  BY <1>1, CallerSame
<1>3. to_caller \in Seq(Answered) /\ serving \in Asked
  BY <1>1 DEF TransportInv, TransportTypes
<1>4. m \in Answered /\ m.idx = serving.idx /\ m.req = serving.req
  BY <1>3 DEF Asked, Answered
<1> HIDE DEF m
<1>5. /\ to_caller' \in Seq(Answered)
      /\ Pairs(to_caller') \subseteq Pairs(to_caller) \cup {<<serving.idx, serving.req>>}
      /\ Reqs(to_caller') \subseteq Reqs(to_caller) \cup {serving.req}
  <2>1. CASE to_caller' = to_caller  BY <1>3, <2>1
  <2>2. CASE to_caller' = Append(to_caller, m)
    <3>1. /\ Append(to_caller, m) \in Seq(Answered)
          /\ Pairs(Append(to_caller, m)) = Pairs(to_caller) \cup {<<m.idx, m.req>>}
          /\ Reqs(Append(to_caller, m)) = Reqs(to_caller) \cup {m.req}
      BY <1>3, <1>4, PairsOfAppend
    <3> QED  BY <1>4, <2>2, <3>1
  <2> QED  BY <1>1, <2>1, <2>2
<1>6. serving.req \in Arrived  BY <1>1 DEF TransportInv, AnsweredInv
<1>7. TransportTypes'  BY <1>1, <1>2, <1>5 DEF TransportInv, TransportTypes
<1>8. AskedInv'  BY <1>1, <1>2 DEF TransportInv, AskedInv, Asking, Arrived
<1>9. AnsweredInv'  BY <1>1, <1>2, <1>5, <1>6 DEF TransportInv, AnsweredInv, Arrived
<1>10. AllPairs' \subseteq AllPairs
  BY <1>1, <1>2, <1>5 DEF AllPairs, KeptPairs, Kept, KeptCall, ServedPair
<1>11. IndexInv'
  BY <1>2, <1>10, FewerPairs DEF TransportInv, TransportTypes
<1> QED  BY <1>2, <1>7, <1>8, <1>9, <1>11 DEF TransportInv

-----------------------------------------------------------------------------
(* The calling side *)

LEMMA ReceiveResponseKeeps ==
    ASSUME TransportInv, ReceiveResponse
    PROVE  TransportInv'
<1> DEFINE m == Head(to_caller)
<1>1. /\ to_caller # <<>> /\ to_caller' = Tail(to_caller)
      /\ resp_rx' = Append(resp_rx, m) \/ resp_rx' = resp_rx
      /\ UNCHANGED <<status, answer, manager, in_flight, req_rx, timeout_rx, timers>>
      /\ UNCHANGED <<to_server, server_req_rx, serving, handled>>
  BY DEF ReceiveResponse, serverVars
<1>2. to_caller \in Seq(Answered) /\ resp_rx \in Seq(Answered)
  BY DEF TransportInv, TransportTypes
<1>3. /\ m \in Answered /\ to_caller' \in Seq(Answered)
      /\ Pairs(to_caller) = Pairs(to_caller') \cup {<<m.idx, m.req>>}
      /\ Reqs(to_caller) = Reqs(to_caller') \cup {m.req}
  BY <1>1, <1>2, PairsOfTail
<1> HIDE DEF m
<1>4. /\ resp_rx' \in Seq(Answered)
      /\ Pairs(resp_rx') \subseteq Pairs(resp_rx) \cup {<<m.idx, m.req>>}
      /\ Reqs(resp_rx') \subseteq Reqs(resp_rx) \cup {m.req}
  <2>1. CASE resp_rx' = resp_rx  BY <1>2, <2>1
  <2>2. CASE resp_rx' = Append(resp_rx, m)
    <3>1. /\ Append(resp_rx, m) \in Seq(Answered)
          /\ Pairs(Append(resp_rx, m)) = Pairs(resp_rx) \cup {<<m.idx, m.req>>}
          /\ Reqs(Append(resp_rx, m)) = Reqs(resp_rx) \cup {m.req}
      BY <1>2, <1>3, PairsOfAppend
    <3> QED  BY <2>2, <3>1
  <2> QED  BY <1>1, <2>1, <2>2
<1>5. TransportTypes'  BY <1>1, <1>3, <1>4 DEF TransportInv, TransportTypes
<1>6. Begun' = Begun  BY <1>1 DEF Begun
<1>7. QueueInv' /\ TableInv'  BY <1>1 DEF TransportInv, QueueInv, TableInv, Kept, KeptCall
<1>8. CountInv'  BY <1>1, <1>6 DEF TransportInv, CountInv
<1>9. AskedInv'  BY <1>1, <1>6 DEF TransportInv, AskedInv, Asking, Arrived
<1>10. AnsweredInv'  BY <1>1, <1>3, <1>4 DEF TransportInv, AnsweredInv, Arrived
<1>11. AllPairs' \subseteq AllPairs
  BY <1>1, <1>3, <1>4 DEF AllPairs, KeptPairs, Kept, KeptCall, ServedPair
<1>12. IndexInv'
  BY <1>1, <1>11, FewerPairs DEF TransportInv, TransportTypes
<1>13. TimedEntries' /\ AnswerIsOwn'  BY <1>1 DEF TransportInv, TimedEntries, AnswerIsOwn
<1> QED  BY <1>5, <1>7, <1>8, <1>9, <1>10, <1>12, <1>13 DEF TransportInv

LEMMA TimerFiresKeeps ==
    ASSUME TransportInv, NEW idx \in timers, TimerFires(idx)
    PROVE  TransportInv'
<1>1. /\ timers' = timers \ {idx}
      /\ timeout_rx' = IF manager THEN Append(timeout_rx, idx) ELSE timeout_rx
      /\ UNCHANGED <<status, answer, manager, in_flight, req_rx, resp_rx>>
      /\ UNCHANGED <<to_server, to_caller, server_req_rx, serving, handled>>
  BY DEF TimerFires, serverVars, channelVars
<1>2. timeout_rx \in Seq(Nat) /\ timers \subseteq Nat
  BY DEF TransportInv, TransportTypes
<1>3. /\ timeout_rx' \in Seq(Nat)
      /\ manager => Values(timeout_rx') = Values(timeout_rx) \cup {idx}
  BY <1>1, <1>2, ValuesOfAppend
<1>4. TransportTypes'  BY <1>1, <1>2, <1>3 DEF TransportInv, TransportTypes
<1>5. Begun' = Begun  BY <1>1 DEF Begun
<1>6. QueueInv' /\ TableInv'  BY <1>1 DEF TransportInv, QueueInv, TableInv, Kept, KeptCall
<1>7. CountInv'  BY <1>1, <1>5 DEF TransportInv, CountInv
<1>8. AskedInv'  BY <1>1, <1>5 DEF TransportInv, AskedInv, Asking, Arrived
<1>9. AnsweredInv'  BY <1>1 DEF TransportInv, AnsweredInv, Arrived
<1>10. IndexInv'
  BY <1>1 DEF TransportInv, IndexInv, AllPairs, KeptPairs, Kept, KeptCall, ServedPair
<1>11. TimedEntries'
  <2>1. manager => timers \cup Values(timeout_rx) \subseteq timers' \cup Values(timeout_rx')
    BY <1>1, <1>3
  <2> QED  BY <1>1, <2>1 DEF TransportInv, TimedEntries, Values
<1>12. AnswerIsOwn'  BY <1>1 DEF TransportInv, AnswerIsOwn
<1> QED  BY <1>4, <1>6, <1>7, <1>8, <1>9, <1>10, <1>11, <1>12 DEF TransportInv

LEMMA ClientCallKeeps ==
    ASSUME FewCalls, TransportInv, NEW c \in Call, ClientCall(c)
    PROVE  TransportInv'
<1>1. /\ status[c] = "new" /\ UNCHANGED <<answer, manager, in_flight, resp_rx, timeout_rx, timers>>
      /\ UNCHANGED <<to_server, to_caller, server_req_rx, serving, handled>>
      /\ \/ status' = [status EXCEPT ![c] = "queued"] /\ req_rx' = Append(req_rx, c)
         \/ status' = [status EXCEPT ![c] = "disconnected"] /\ req_rx' = req_rx
  BY DEF ClientCall, serverVars, channelVars
<1>2. req_rx \in Seq(Call) /\ status \in [Call -> {"new"} \cup Waiting \cup Ended]
  BY DEF TransportInv, TransportTypes
<1>3. \A d \in Call : d # c => status'[d] = status[d]  BY <1>1, <1>2
<1>4. \A k \in DOMAIN req_rx : req_rx[k] \in Call /\ req_rx[k] # c
  BY <1>1, <1>2, ElementOfSeq, LenProperties DEF TransportInv, QueueInv
<1>5. /\ req_rx' \in Seq(Call)
      /\ status' \in [Call -> {"new"} \cup Waiting \cup Ended]
  BY <1>1, <1>2, ValuesOfAppend DEF Waiting, Ended, Failures
<1>6. Begun \subseteq Begun'  BY <1>1, <1>3 DEF Begun
<1>7. QueueInv'
  <2>1. CASE status' = [status EXCEPT ![c] = "disconnected"] /\ req_rx' = req_rx
    BY <1>3, <1>4, <2>1 DEF TransportInv, QueueInv
  <2>2. CASE status' = [status EXCEPT ![c] = "queued"] /\ req_rx' = Append(req_rx, c)
    <3>1. \A k \in DOMAIN req_rx' :
              (k \in DOMAIN req_rx /\ req_rx'[k] = req_rx[k]) \/ (k = Len(req_rx) + 1 /\ req_rx'[k] = c)
      BY <1>2, <2>2, ValuesOfAppend
    <3>2. status'[c] = "queued"  BY <1>2, <2>2
    <3> QED  BY <1>3, <1>4, <3>1, <3>2 DEF TransportInv, QueueInv
  <2> QED  BY <1>1, <2>1, <2>2
<1>8. TableInv'
  <2>1. \A s \in Kept : KeptCall(s) \in Call /\ KeptCall(s) # c
    BY <1>1 DEF TransportInv, TransportTypes, TableInv, Kept, KeptCall, Filled
  <2> QED  BY <1>1, <1>3, <2>1 DEF TransportInv, TableInv, Kept, KeptCall
<1>9. CountInv'
  <2>1. /\ Cardinality(Begun) <= Cardinality(Begun')
        /\ Cardinality(Begun) \in Nat /\ Cardinality(Begun') \in Nat
    BY <1>6, MoreBegun
  <2> QED  BY <1>1, <2>1 DEF TransportInv, TransportTypes, CountInv
<1>10. TransportTypes'  BY <1>1, <1>5 DEF TransportInv, TransportTypes
<1>11. AskedInv'  BY <1>1, <1>6 DEF TransportInv, AskedInv, Asking, Arrived
<1>12. AnsweredInv'  BY <1>1 DEF TransportInv, AnsweredInv, Arrived
<1>13. IndexInv'
  BY <1>1 DEF TransportInv, IndexInv, AllPairs, KeptPairs, Kept, KeptCall, ServedPair
<1>14. TimedEntries'  BY <1>1 DEF TransportInv, TimedEntries
<1>15. AnswerIsOwn'
  <2>1. status'[c] # "ok"  BY <1>1, <1>2
  <2> QED  BY <1>1, <1>3, <2>1 DEF TransportInv, AnswerIsOwn
<1> QED  BY <1>7, <1>8, <1>9, <1>10, <1>11, <1>12, <1>13, <1>14, <1>15 DEF TransportInv

\* The channels go and the table with them.
LEMMA StopManagerKeeps ==
    ASSUME TransportInv, StopManager
    PROVE  TransportInv'
<1>1. /\ manager' = FALSE /\ in_flight' = WithCapacity
      /\ status' = [c \in Call |-> IF c \in Dropped THEN "disconnected" ELSE status[c]]
      /\ req_rx' = <<>> /\ resp_rx' = <<>> /\ timeout_rx' = <<>>
      /\ UNCHANGED <<answer, timers>>
      /\ UNCHANGED <<to_server, to_caller, server_req_rx, serving, handled>>
  BY DEF StopManager, serverVars, channelVars
<1>2. in_flight'.data = [s \in Slots |-> None] /\ in_flight'.next_idx = 0
  BY <1>1 DEF WithCapacity
<1>3. Kept' = {}  BY <1>2 DEF Kept
<1>4. TransportTypes'
  <2>1. status' \in [Call -> {"new"} \cup Waiting \cup Ended]
    BY <1>1 DEF TransportInv, TransportTypes, Ended, Failures
  <2>2. in_flight'.data \in [Slots -> Filled \cup {None}] /\ in_flight'.next_idx \in Nat
    BY <1>2
  <2> QED  BY <1>1, <2>1, <2>2, EmptySeq DEF TransportInv, TransportTypes
<1>5. Begun \subseteq Begun'  BY <1>1 DEF Begun
<1>6. QueueInv' /\ TableInv' /\ CountInv' /\ TimedEntries'
  BY <1>1, <1>3 DEF QueueInv, TableInv, CountInv, TimedEntries
<1>7. AskedInv'  BY <1>1, <1>5 DEF TransportInv, AskedInv, Asking, Arrived
<1>8. AnsweredInv'  BY <1>1, PairsOfEmpty DEF TransportInv, AnsweredInv, Arrived
<1>9. AllPairs' \subseteq AllPairs
  BY <1>1, <1>3, PairsOfEmpty DEF AllPairs, KeptPairs, ServedPair
<1>10. IndexInv'  BY <1>1, <1>9, FewerPairs
<1>11. AnswerIsOwn'  BY <1>1 DEF TransportInv, AnswerIsOwn
<1> QED  BY <1>4, <1>6, <1>7, <1>8, <1>10, <1>11 DEF TransportInv

\* What takes an entry out of the table ends the call that it was kept for.
LEMMA FinishFacts ==
    ASSUME TransportInv, NEW idx \in Nat, NEW outcome \in Ended, NEW for \in Call \cup {None},
           Finish(idx, outcome, for), req_rx' = req_rx,
           Holds(in_flight, idx) /\ outcome = "ok" => for = ValueAt(in_flight, idx)
    PROVE  /\ status' \in [Call -> {"new"} \cup Waiting \cup Ended]
           /\ answer' \in [Call -> Call \cup {None}]
           /\ in_flight'.data \in [Slots -> Filled \cup {None}]
           /\ in_flight'.next_idx = in_flight.next_idx
           /\ Kept' \subseteq Kept /\ \A s \in Kept' : in_flight'.data[s] = in_flight.data[s]
           /\ \A s \in Kept' : in_flight'.data[s].idx # idx
           /\ Begun' = Begun /\ QueueInv' /\ TableInv' /\ AnswerIsOwn'
<1>1. /\ status \in [Call -> {"new"} \cup Waiting \cup Ended]
      /\ answer \in [Call -> Call \cup {None}]
      /\ in_flight.data \in [Slots -> Filled \cup {None}]
      /\ \A s \in Kept : /\ DataIdx(in_flight.data[s].idx) = s /\ status[KeptCall(s)] = "in_flight"
                         /\ KeptCall(s) \in Call
      /\ \A s, t \in Kept : KeptCall(s) = KeptCall(t) => s = t
  BY DEF TransportInv, TransportTypes, TableInv, Kept, KeptCall, Filled
<1>2. DataIdx(idx) \in Slots  BY SlotOfIndex
<1>3. CASE ~Holds(in_flight, idx)
  <2>1. UNCHANGED <<in_flight, status, answer>>  BY <1>3 DEF Finish
  <2>2. \A s \in Kept : in_flight.data[s].idx # idx
    BY <1>1, <1>3 DEF Holds, Kept
  <2>3. Kept' = Kept /\ Begun' = Begun /\ QueueInv' /\ TableInv' /\ AnswerIsOwn'
    BY <2>1 DEF TransportInv, Kept, KeptCall, Begun, QueueInv, TableInv, AnswerIsOwn
  <2> QED  BY <1>1, <2>1, <2>2, <2>3
<1>4. CASE Holds(in_flight, idx)
  <2> DEFINE c == ValueAt(in_flight, idx)
             slot == DataIdx(idx)
  <2>1. /\ in_flight' = Remove(in_flight, idx)
        /\ status' = [status EXCEPT ![c] = outcome] /\ answer' = [answer EXCEPT ![c] = for]
    BY <1>4 DEF Finish
  <2>2. slot \in Kept /\ c = KeptCall(slot)  BY <1>2, <1>4 DEF Holds, Kept, KeptCall, ValueAt
  <2>3. /\ in_flight'.data = [in_flight.data EXCEPT ![slot] = None]
        /\ in_flight'.next_idx = in_flight.next_idx
    BY <2>1 DEF Remove
  <2>4. outcome = "ok" => for = c  BY <1>4
  <2>5. c \in Call /\ status[c] = "in_flight"  BY <1>1, <2>2
  <2>6. \A s \in Kept : in_flight.data[s].idx = idx => s = slot  BY <1>1
  <2> HIDE DEF c, slot
  <2>7. in_flight'.data \in [Slots -> Filled \cup {None}]  BY <1>1, <2>3
  <2>8. Kept' = Kept \ {slot} /\ \A s \in Kept' : in_flight'.data[s] = in_flight.data[s]
    BY <1>1, <2>2, <2>3 DEF Kept
  <2>9. \A s \in Kept' : in_flight'.data[s].idx # idx  BY <2>6, <2>8
  <2>10. /\ status' \in [Call -> {"new"} \cup Waiting \cup Ended]
         /\ answer' \in [Call -> Call \cup {None}]
    BY <1>1, <2>1, <2>5
  <2>11. \A d \in Call : d # c => status'[d] = status[d] /\ answer'[d] = answer[d]
    BY <1>1, <2>1
  <2>12. status'[c] = outcome /\ answer'[c] = for  BY <1>1, <2>1, <2>5
  <2>13. outcome \notin {"new", "queued"}  BY DEF Ended, Failures
  <2>14. Begun' = Begun  BY <2>5, <2>11, <2>12, <2>13 DEF Begun
  <2>15. QueueInv'
    <3>1. \A k \in DOMAIN req_rx : req_rx[k] \in Call /\ req_rx[k] # c
      BY <2>5, ElementOfSeq, LenProperties DEF TransportInv, TransportTypes, QueueInv
    <3> QED  BY <2>11, <3>1 DEF TransportInv, QueueInv
  <2>16. TableInv'
    <3>1. \A s \in Kept' : s \in Kept /\ KeptCall(s)' = KeptCall(s) /\ KeptCall(s) # c
      BY <1>1, <2>2, <2>8 DEF KeptCall
    <3> QED  BY <1>1, <2>8, <2>11, <3>1 DEF TableInv
  <2>17. AnswerIsOwn'  BY <2>4, <2>11, <2>12 DEF TransportInv, AnswerIsOwn
  <2> QED  BY <2>3, <2>7, <2>8, <2>9, <2>10, <2>14, <2>15, <2>16, <2>17
<1> QED  BY <1>3, <1>4

\* What both ends of a call keep, when what is left of the table was there.
LEMMA FinishKeeps ==
    ASSUME TransportInv, UNCHANGED <<manager, to_server, to_caller, server_req_rx, serving, handled>>,
           in_flight'.next_idx = in_flight.next_idx,
           Kept' \subseteq Kept, \A s \in Kept' : in_flight'.data[s] = in_flight.data[s],
           Pairs(resp_rx') \subseteq Pairs(resp_rx), Reqs(resp_rx') \subseteq Reqs(resp_rx),
           Begun' = Begun
    PROVE  CountInv' /\ AskedInv' /\ AnsweredInv' /\ IndexInv'
<1>1. CountInv'  BY DEF TransportInv, CountInv
<1>2. AskedInv'  BY DEF TransportInv, AskedInv, Asking, Arrived
<1>3. AnsweredInv'  BY DEF TransportInv, AnsweredInv, Arrived
<1>4. KeptPairs' \subseteq KeptPairs  BY DEF KeptPairs, KeptCall
<1>5. AllPairs' \subseteq AllPairs  BY <1>4 DEF AllPairs, ServedPair
<1>6. IndexInv'  BY <1>5, FewerPairs DEF TransportInv, TransportTypes
<1> QED  BY <1>1, <1>2, <1>3, <1>6

\* A response that finds an entry is the one to the entry's call.
LEMMA ResponseIsOwn ==
    ASSUME TransportInv, resp_rx # <<>>, Holds(in_flight, Head(resp_rx).idx)
    PROVE  ValueAt(in_flight, Head(resp_rx).idx) = Head(resp_rx).req
<1> DEFINE resp == Head(resp_rx)
           s == DataIdx(resp.idx)
<1>1. /\ resp \in Answered
      /\ Pairs(resp_rx) = Pairs(Tail(resp_rx)) \cup {<<resp.idx, resp.req>>}
  BY PairsOfTail DEF TransportInv, TransportTypes
<1>2. s \in Slots  BY <1>1, SlotOfIndex DEF Answered
<1>3. s \in Kept /\ in_flight.data[s].idx = resp.idx /\ KeptCall(s) = ValueAt(in_flight, resp.idx)
  BY <1>2 DEF Holds, Kept, KeptCall, ValueAt
<1> HIDE DEF resp, s
<1>4. <<resp.idx, resp.req>> \in AllPairs  BY <1>1 DEF AllPairs
<1>5. <<in_flight.data[s].idx, KeptCall(s)>> \in AllPairs  BY <1>3 DEF AllPairs, KeptPairs
<1>6. KeptCall(s) = resp.req
  <2> DEFINE p == <<resp.idx, resp.req>>
             q == <<in_flight.data[s].idx, KeptCall(s)>>
  <2>1. p \in AllPairs /\ q \in AllPairs /\ p[1] = q[1]  BY <1>3, <1>4, <1>5
  <2>2. p[2] = q[2]  BY <2>1 DEF TransportInv, IndexInv
  <2> QED  BY <2>2
<1> QED  BY <1>3, <1>6 DEF resp

LEMMA HandleResponseKeeps ==
    ASSUME TransportInv, HandleResponse
    PROVE  TransportInv'
<1> DEFINE resp == Head(resp_rx)
           outcome == IF resp.ok THEN "ok" ELSE "unavailable"
           for == IF resp.ok THEN resp.req ELSE None
<1>1. /\ manager /\ resp_rx # <<>> /\ resp_rx' = Tail(resp_rx)
      /\ UNCHANGED <<manager, req_rx, timeout_rx, timers>>
      /\ UNCHANGED <<to_server, to_caller, server_req_rx, serving, handled>>
  BY DEF HandleResponse, serverVars, channelVars
<1>2. Finish(resp.idx, outcome, for)
  BY DEF HandleResponse
<1>3. /\ resp \in Answered /\ resp_rx' \in Seq(Answered)
      /\ Pairs(resp_rx) = Pairs(resp_rx') \cup {<<resp.idx, resp.req>>}
      /\ Reqs(resp_rx) = Reqs(resp_rx') \cup {resp.req}
  BY <1>1, PairsOfTail DEF TransportInv, TransportTypes
<1>4. /\ resp.idx \in Nat /\ outcome \in Ended /\ for \in Call \cup {None}
      /\ Holds(in_flight, resp.idx) /\ outcome = "ok" => for = ValueAt(in_flight, resp.idx)
  BY <1>1, <1>3, ResponseIsOwn DEF Answered, Ended, Failures
<1> HIDE DEF resp, outcome, for
<1>5. /\ status' \in [Call -> {"new"} \cup Waiting \cup Ended]
      /\ answer' \in [Call -> Call \cup {None}]
      /\ in_flight'.data \in [Slots -> Filled \cup {None}]
      /\ in_flight'.next_idx = in_flight.next_idx
      /\ Kept' \subseteq Kept /\ \A s \in Kept' : in_flight'.data[s] = in_flight.data[s]
      /\ Begun' = Begun /\ QueueInv' /\ TableInv' /\ AnswerIsOwn'
  BY <1>1, <1>2, <1>4, FinishFacts
<1>6. TransportTypes'  BY <1>1, <1>3, <1>5 DEF TransportInv, TransportTypes
<1>7. CountInv' /\ AskedInv' /\ AnsweredInv' /\ IndexInv'
  BY <1>1, <1>3, <1>5, FinishKeeps
<1>8. TimedEntries'
  <2>1. \A s \in Slots : in_flight'.data[s] # None =>
            in_flight.data[s] # None /\ in_flight'.data[s] = in_flight.data[s]
    BY <1>5 DEF Kept
  <2> QED  BY <1>1, <2>1 DEF TransportInv, TimedEntries
<1> QED  BY <1>5, <1>6, <1>7, <1>8 DEF TransportInv

LEMMA HandleTimeoutKeeps ==
    ASSUME TransportInv, HandleTimeout
    PROVE  TransportInv'
<1> DEFINE idx == Head(timeout_rx)
<1>1. /\ manager /\ timeout_rx # <<>> /\ timeout_rx' = Tail(timeout_rx)
      /\ Finish(idx, "timeout", None)
      /\ UNCHANGED <<manager, req_rx, resp_rx, timers>>
      /\ UNCHANGED <<to_server, to_caller, server_req_rx, serving, handled>>
  BY DEF HandleTimeout, serverVars, channelVars
<1>2. /\ idx \in Nat /\ timeout_rx' \in Seq(Nat)
      /\ Values(timeout_rx) = Values(timeout_rx') \cup {idx}
  BY <1>1, ValuesOfTail DEF TransportInv, TransportTypes
<1>3. "timeout" \in Ended  BY DEF Ended, Failures
<1> HIDE DEF idx
<1>4. /\ status' \in [Call -> {"new"} \cup Waiting \cup Ended]
      /\ answer' \in [Call -> Call \cup {None}]
      /\ in_flight'.data \in [Slots -> Filled \cup {None}]
      /\ in_flight'.next_idx = in_flight.next_idx
      /\ Kept' \subseteq Kept /\ \A s \in Kept' : in_flight'.data[s] = in_flight.data[s]
      /\ \A s \in Kept' : in_flight'.data[s].idx # idx
      /\ Begun' = Begun /\ QueueInv' /\ TableInv' /\ AnswerIsOwn'
  BY <1>1, <1>2, <1>3, FinishFacts
<1>5. TransportTypes'  BY <1>1, <1>2, <1>4 DEF TransportInv, TransportTypes
<1>6. CountInv' /\ AskedInv' /\ AnsweredInv' /\ IndexInv'
  BY <1>1, <1>4, FinishKeeps
<1>7. TimedEntries'
  <2>1. \A s \in Slots : in_flight'.data[s] # None =>
            /\ in_flight.data[s] # None /\ in_flight'.data[s] = in_flight.data[s]
            /\ in_flight.data[s].idx # idx
    BY <1>4 DEF Kept
  <2>2. \A s \in Slots : in_flight.data[s] # None => in_flight.data[s].idx \in timers \cup Values(timeout_rx)
    BY <1>1 DEF TransportInv, TimedEntries, Values
  <2>3. \A s \in Slots : in_flight'.data[s] # None =>
            in_flight'.data[s].idx \in timers' \cup Values(timeout_rx')
    BY <1>1, <1>2, <2>1, <2>2
  <2> QED  BY <2>3 DEF TimedEntries, Values
<1> QED  BY <1>4, <1>5, <1>6, <1>7 DEF TransportInv

\* The call whose turn it is leaves the queue, and is the next to begin.
LEMMA TurnFacts ==
    ASSUME FewCalls, TransportInv, manager, req_rx # <<>>, req_rx' = Tail(req_rx),
           NEW st \in {"too_many", "in_flight", "js"},
           status' = [status EXCEPT ![Head(req_rx)] = st]
    PROVE  /\ Head(req_rx) \in Call /\ Head(req_rx) \notin Begun
           /\ req_rx' \in Seq(Call)
           /\ status' \in [Call -> {"new"} \cup Waiting \cup Ended] /\ status'[Head(req_rx)] = st
           /\ \A d \in Call : d # Head(req_rx) => status'[d] = status[d]
           /\ Begun' = Begun \cup {Head(req_rx)}
           /\ QueueInv'
           /\ AnswerIsOwn' \/ answer' # answer
           /\ \A s \in Kept : KeptCall(s) \in Call /\ KeptCall(s) # Head(req_rx)
           /\ in_flight.next_idx + 1 <= Cardinality(Begun') /\ Cardinality(Begun') \in Nat
           /\ in_flight.next_idx \in Usize
           /\ (in_flight.next_idx + 1) % UsizeMod = in_flight.next_idx + 1
<1> DEFINE c == Head(req_rx)
           n == in_flight.next_idx
<1>1. /\ status \in [Call -> {"new"} \cup Waiting \cup Ended] /\ req_rx \in Seq(Call) /\ n \in Nat
  BY DEF TransportInv, TransportTypes
<1>2. /\ c \in Call /\ req_rx' \in Seq(Call) /\ 1 \in DOMAIN req_rx /\ c = req_rx[1]
      /\ \A k \in DOMAIN req_rx' : k \in Nat /\ k + 1 \in DOMAIN req_rx /\ k + 1 # 1 /\ req_rx'[k] = req_rx[k + 1]
  BY <1>1, ValuesOfTail
<1>3. status[c] = "queued"  BY <1>2 DEF TransportInv, QueueInv
<1>4. status' \in [Call -> {"new"} \cup Waiting \cup Ended]
  BY <1>1, <1>2 DEF Waiting, Ended, Failures
<1> HIDE DEF c, n
<1>5. status'[c] = st /\ \A d \in Call : d # c => status'[d] = status[d]
  BY <1>1, <1>2 DEF c
<1>6. c \notin Begun /\ Begun' = Begun \cup {c}  BY <1>2, <1>3, <1>5 DEF Begun
<1>7. QueueInv'
  <2>1. \A k \in DOMAIN req_rx' : req_rx'[k] # c
    BY <1>2 DEF TransportInv, QueueInv
  <2>2. \A k \in DOMAIN req_rx' : req_rx'[k] \in Call
    BY <1>2, ElementOfSeq, LenProperties
  <2>3. \A k \in DOMAIN req_rx' : status'[req_rx'[k]] = "queued"
    BY <1>2, <1>5, <2>1, <2>2 DEF TransportInv, QueueInv
  <2>4. \A j, k \in DOMAIN req_rx' : req_rx'[j] = req_rx'[k] => j = k
    BY <1>2 DEF TransportInv, QueueInv
  <2> QED  BY <2>3, <2>4 DEF QueueInv
<1>8. answer' = answer => AnswerIsOwn'
  BY <1>5 DEF TransportInv, AnswerIsOwn
<1>9. \A s \in Kept : KeptCall(s) \in Call /\ KeptCall(s) # c
  BY <1>3 DEF TransportInv, TransportTypes, TableInv, Kept, KeptCall, Filled
<1>10. /\ Cardinality(Begun') = Cardinality(Begun) + 1 /\ Cardinality(Begun) \in Nat
       /\ Cardinality(Begun') <= Cardinality(Call) /\ Cardinality(Call) \in Nat
  <2>1. Begun \subseteq Call /\ Begun' \subseteq Call /\ IsFiniteSet(Call)  BY DEF Begun, FewCalls
  <2>2. IsFiniteSet(Begun)  BY <2>1, FS_Subset
  <2>3. Cardinality(Begun \cup {c}) = Cardinality(Begun) + 1  BY <1>6, <2>2, FS_AddElement
  <2> QED  BY <1>6, <2>1, <2>2, <2>3, FS_Subset, FS_CardinalityType
<1>11. n + 1 <= Cardinality(Begun') /\ Cardinality(Begun') \in Nat /\ n + 1 < UsizeMod
  BY <1>1, <1>10, UsizeAssumption DEF TransportInv, CountInv, FewCalls, n
<1>12. n \in Usize /\ (n + 1) % UsizeMod = n + 1
  BY <1>1, <1>11, SmallModulo, UsizeAssumption DEF Usize
<1> QED  BY <1>2, <1>4, <1>5, <1>6, <1>7, <1>8, <1>9, <1>11, <1>12 DEF c, n

LEMMA HandleRequestKeeps ==
    ASSUME FewCalls, TransportInv, HandleRequest
    PROVE  TransportInv'
<1> DEFINE c == Head(req_rx)
           n == in_flight.next_idx
           slot == DataIdx(n)
           entry == [idx |-> n, value |-> c]
           m == [idx |-> n, req |-> c]
<1>1. /\ manager /\ req_rx # <<>> /\ req_rx' = Tail(req_rx)
      /\ UNCHANGED <<answer, manager, resp_rx, timeout_rx, to_caller>>
      /\ UNCHANGED <<server_req_rx, serving, handled>>
  BY DEF HandleRequest, serverVars
<1>2. PICK st \in {"too_many", "in_flight", "js"} :
          /\ status' = [status EXCEPT ![c] = st]
          /\ \/ st = "too_many" /\ UNCHANGED <<in_flight, timers, to_server>>
             \/ /\ st = "in_flight" /\ in_flight' = Add(in_flight, c)
                /\ to_server' = Append(to_server, m) /\ timers' = timers \cup {n}
             \/ /\ st = "js" /\ in_flight' = Remove(Add(in_flight, c), n)
                /\ UNCHANGED <<timers, to_server>>
  BY DEF HandleRequest, TimersWith
<1>3. /\ c \in Call /\ c \notin Begun
      /\ req_rx' \in Seq(Call)
      /\ status' \in [Call -> {"new"} \cup Waiting \cup Ended] /\ status'[c] = st
      /\ \A d \in Call : d # c => status'[d] = status[d]
      /\ Begun' = Begun \cup {c}
      /\ QueueInv'
      /\ AnswerIsOwn' \/ answer' # answer
      /\ \A s \in Kept : KeptCall(s) \in Call /\ KeptCall(s) # c
      /\ n + 1 <= Cardinality(Begun') /\ Cardinality(Begun') \in Nat
      /\ n \in Usize
      /\ (n + 1) % UsizeMod = n + 1
  BY <1>1, <1>2, TurnFacts
<1>4. /\ in_flight.data \in [Slots -> Filled \cup {None}] /\ n \in Nat /\ slot \in Slots
      /\ to_server \in Seq(Asked) /\ timers \subseteq Nat
  BY SlotOfIndex DEF TransportInv, TransportTypes
<1>5. /\ entry \in Filled /\ entry.idx = n /\ entry.value = c
      /\ m \in Asked /\ m.idx = n /\ m.req = c
  BY <1>3, <1>4 DEF Filled, Asked
<1>6. entry # None
  <2>1. c \in Value  BY <1>3 DEF Call
  <2>2. entry \in SlotEntry  BY <1>3, <2>1 DEF SlotEntry
  <2> QED  BY <2>2, NoneAssumption
<1>7. AnswerIsOwn' /\ AnsweredInv'
  BY <1>1, <1>3 DEF TransportInv, AnsweredInv, Arrived
<1>8. /\ Add(in_flight, c).data = [in_flight.data EXCEPT ![slot] = entry]
      /\ Add(in_flight, c).next_idx = n + 1
  BY <1>3 DEF Add
<1>9. /\ Remove(Add(in_flight, c), n).data = [Add(in_flight, c).data EXCEPT ![slot] = None]
      /\ Remove(Add(in_flight, c), n).next_idx = n + 1
  BY <1>8 DEF Remove
<1> HIDE DEF c, n, slot, entry, m
\* The call fails at once: its index may be used up, but stands for nothing.
<1>10. ASSUME /\ in_flight'.data \in [Slots -> Filled \cup {None}]
              /\ in_flight'.next_idx \in {n, n + 1}
              /\ Kept' \subseteq Kept /\ \A s \in Kept' : in_flight'.data[s] = in_flight.data[s]
              /\ UNCHANGED <<timers, to_server>>
       PROVE  TransportInv'
  <2>1. TransportTypes'
    BY <1>1, <1>3, <1>4, <1>10 DEF TransportInv, TransportTypes
  <2>2. TableInv'
    <3>1. \A s \in Kept' : s \in Kept /\ KeptCall(s)' = KeptCall(s)  BY <1>10 DEF KeptCall
    <3> QED  BY <1>3, <1>10, <3>1 DEF TransportInv, TableInv
  <2>3. CountInv'  BY <1>3, <1>4, <1>10 DEF CountInv
  <2>4. AskedInv'  BY <1>1, <1>3, <1>10 DEF TransportInv, AskedInv, Asking, Arrived
  <2>5. AllPairs' \subseteq AllPairs
    <3>1. KeptPairs' \subseteq KeptPairs  BY <1>10 DEF KeptPairs, KeptCall
    <3> QED  BY <1>1, <1>10, <3>1 DEF AllPairs, ServedPair
  <2>6. IndexInv'  BY <1>1, <1>4, <1>10, <2>5, FewerPairs DEF n
  <2>7. TimedEntries'
    <3>1. \A s \in Slots : in_flight'.data[s] # None =>
              in_flight.data[s] # None /\ in_flight'.data[s] = in_flight.data[s]
      BY <1>10 DEF Kept
    <3> QED  BY <1>1, <1>10, <3>1 DEF TransportInv, TimedEntries
  <2> QED  BY <1>3, <1>7, <2>1, <2>2, <2>3, <2>4, <2>6, <2>7 DEF TransportInv
<1>11. CASE st = "too_many"
  BY <1>2, <1>4, <1>10, <1>11 DEF Kept, n
<1>12. CASE st = "js"
  <2>1. /\ in_flight'.data = [[in_flight.data EXCEPT ![slot] = entry] EXCEPT ![slot] = None]
        /\ in_flight'.next_idx = n + 1 /\ UNCHANGED <<timers, to_server>>
    BY <1>2, <1>8, <1>9, <1>12
  <2>2. in_flight'.data = [in_flight.data EXCEPT ![slot] = None]  BY <1>4, <2>1
  <2>3. Kept' \subseteq Kept /\ \A s \in Kept' : in_flight'.data[s] = in_flight.data[s]
    BY <1>4, <2>2 DEF Kept
  <2>4. in_flight'.data \in [Slots -> Filled \cup {None}]  BY <1>4, <2>2
  <2> QED  BY <1>10, <2>1, <2>3, <2>4
\* The request is sent, and the next index stands for its call.
<1>13. CASE st = "in_flight"
  <2>1. /\ in_flight'.data = [in_flight.data EXCEPT ![slot] = entry]
        /\ in_flight'.next_idx = n + 1
        /\ to_server' = Append(to_server, m) /\ timers' = timers \cup {n}
    BY <1>2, <1>8, <1>13
  <2>2. /\ to_server' \in Seq(Asked)
        /\ Pairs(to_server') = Pairs(to_server) \cup {<<n, c>>}
        /\ Reqs(to_server') = Reqs(to_server) \cup {c}
        /\ NoRepeats(to_server) /\ c \notin Reqs(to_server) => NoRepeats(to_server')
    BY <1>4, <1>5, <2>1, PairsOfAppend
  <2>3. /\ in_flight'.data \in [Slots -> Filled \cup {None}]
        /\ in_flight'.data[slot] = entry
        /\ \A s \in Slots : s # slot => in_flight'.data[s] = in_flight.data[s]
    BY <1>4, <1>5, <2>1
  <2>4. TransportTypes'
    <3>1. timers' \subseteq Nat /\ in_flight'.next_idx \in Nat  BY <1>4, <2>1
    <3> QED  BY <1>1, <1>3, <2>2, <2>3, <3>1 DEF TransportInv, TransportTypes
  <2>5. \A s \in Kept' : \/ (s = slot /\ in_flight'.data[s] = entry /\ KeptCall(s)' = c)
                        \/ (/\ s \in Kept /\ s # slot /\ in_flight'.data[s] = in_flight.data[s]
                            /\ KeptCall(s)' = KeptCall(s) /\ KeptCall(s) # c)
    BY <1>3, <1>5, <2>3 DEF Kept, KeptCall
  <2>6. TableInv'
    <3>1. \A s \in Kept' : DataIdx(in_flight'.data[s].idx) = s /\ status'[KeptCall(s)'] = "in_flight"
      BY <1>3, <1>5, <1>13, <2>5 DEF TransportInv, TableInv, slot
    <3>2. \A s, t \in Kept' : KeptCall(s)' = KeptCall(t)' => s = t
      BY <2>5 DEF TransportInv, TableInv
    <3> QED  BY <3>1, <3>2 DEF TableInv
  <2>7. CountInv'  BY <1>3, <2>1 DEF CountInv
  <2>8. AskedInv'
    <3>1. c \notin Reqs(to_server) /\ c \notin Reqs(server_req_rx) /\ c \notin Arrived
      BY <1>3 DEF TransportInv, AskedInv, Asking
    <3> QED  BY <1>1, <1>3, <2>2, <3>1 DEF TransportInv, AskedInv, Asking, Arrived
  <2>9. AllPairs' \subseteq AllPairs \cup {<<n, c>>}
    <3>1. KeptPairs' \subseteq KeptPairs \cup {<<n, c>>}
      BY <1>5, <2>5 DEF KeptPairs
    <3> QED  BY <1>1, <2>2, <3>1 DEF AllPairs, ServedPair
  <2>10. IndexInv'
    <3>1. \A p \in AllPairs : p[1] < n /\ p[1] \in Nat  BY <1>1, PairTypes DEF TransportInv, IndexInv, n
    <3>2. \A p \in AllPairs' : p \in AllPairs \/ p = <<n, c>>  BY <2>9
    <3>3. \A p \in AllPairs' : p[1] < n + 1  BY <1>4, <3>1, <3>2
    <3>4. \A p, q \in AllPairs' : p[1] = q[1] => p[2] = q[2]
      BY <1>4, <3>1, <3>2 DEF TransportInv, IndexInv
    <3> QED  BY <2>1, <3>3, <3>4 DEF IndexInv
  <2>11. TimedEntries'
    <3>1. \A s \in Kept : in_flight.data[s].idx \in timers \cup Values(timeout_rx)
      BY <1>1 DEF TransportInv, TimedEntries, Kept, Values
    <3>2. \A s \in Kept' : in_flight'.data[s].idx \in timers' \cup Values(timeout_rx')
      BY <1>1, <1>5, <2>1, <2>5, <3>1
    <3> QED  BY <3>2 DEF TimedEntries, Kept, Values
  <2> QED  BY <1>3, <1>7, <2>4, <2>6, <2>7, <2>8, <2>10, <2>11 DEF TransportInv
<1> QED  BY <1>11, <1>12, <1>13

-----------------------------------------------------------------------------
(* The invariant *)

LEMMA InitHolds == Init => TransportInv
<1> SUFFICES ASSUME Init PROVE TransportInv
  OBVIOUS
<1>1. /\ status = [c \in Call |-> "new"] /\ answer = [c \in Call |-> None] /\ manager = TRUE
      /\ in_flight.data = [s \in Slots |-> None] /\ in_flight.next_idx = 0
      /\ req_rx = <<>> /\ resp_rx = <<>> /\ timeout_rx = <<>> /\ timers = {}
      /\ to_server = <<>> /\ to_caller = <<>> /\ server_req_rx = <<>>
      /\ serving = None /\ handled = <<>>
  BY DEF Init, WithCapacity
<1>2. Kept = {} /\ Begun = {} /\ Arrived = {}  BY <1>1 DEF Kept, Begun, Arrived, Values
<1>3. TransportTypes  BY <1>1, EmptySeq DEF TransportTypes
<1>4. QueueInv /\ TableInv  BY <1>1, <1>2 DEF QueueInv, TableInv
<1>5. CountInv  BY <1>1, <1>2, FS_EmptySet DEF CountInv
<1>6. AskedInv  BY <1>1, <1>2, PairsOfEmpty DEF AskedInv, Asking
<1>7. AnsweredInv  BY <1>1, PairsOfEmpty DEF AnsweredInv
<1>8. AllPairs = {}  BY <1>1, <1>2, PairsOfEmpty DEF AllPairs, KeptPairs, ServedPair
<1>9. IndexInv  BY <1>8 DEF IndexInv
<1>10. TimedEntries  BY <1>1 DEF TimedEntries
<1>11. AnswerIsOwn  BY <1>1 DEF AnswerIsOwn
<1> QED  BY <1>3, <1>4, <1>5, <1>6, <1>7, <1>9, <1>10, <1>11 DEF TransportInv

LEMMA NextKeeps ==
    ASSUME FewCalls, TransportInv, [Next]_vars
    PROVE  TransportInv'
<1>1. ASSUME NEW c \in Call, ClientCall(c) PROVE TransportInv'
  BY <1>1, ClientCallKeeps
<1>2. CASE HandleRequest  BY <1>2, HandleRequestKeeps
<1>3. CASE HandleResponse  BY <1>3, HandleResponseKeeps
<1>4. CASE HandleTimeout  BY <1>4, HandleTimeoutKeeps
<1>5. ASSUME NEW idx \in timers, TimerFires(idx) PROVE TransportInv'
  BY <1>5, TimerFiresKeeps
<1>6. CASE StopManager  BY <1>6, StopManagerKeeps
<1>7. CASE ReceiveResponse  BY <1>7, ReceiveResponseKeeps
<1>8. CASE ReceiveRequest  BY <1>8, ReceiveRequestKeeps
<1>9. CASE Serve  BY <1>9, ServeKeeps
<1>10. ASSUME NEW ok \in BOOLEAN, Respond(ok) PROVE TransportInv'
  BY <1>10, RespondKeeps
<1>11. CASE ChannelCloses  BY <1>11, ChannelClosesKeeps
<1>12. CASE CallerOnClose  BY <1>12, CallerOnCloseKeeps
<1>13. CASE ServerOnClose  BY <1>13, ServerOnCloseKeeps
<1>14. CASE UNCHANGED vars
  <2>1. /\ UNCHANGED callerVars
        /\ UNCHANGED <<server_req_rx, serving, handled, to_server, to_caller>>
    BY <1>14 DEF vars, serverVars, channelVars
  <2>2. /\ Begun' = Begun
        /\ QueueInv' /\ TableInv' /\ CountInv' /\ TimedEntries' /\ AnswerIsOwn'
        /\ UNCHANGED <<status, answer, manager, in_flight, req_rx, resp_rx, timeout_rx, timers>>
    BY <2>1, CallerSame
  <2>3. TransportTypes'  BY <2>1, <2>2 DEF TransportInv, TransportTypes
  <2>4. AskedInv'  BY <2>1, <2>2 DEF TransportInv, AskedInv, Asking, Arrived
  <2>5. AnsweredInv'  BY <2>1, <2>2 DEF TransportInv, AnsweredInv, Arrived
  <2>6. IndexInv'
    BY <2>1, <2>2 DEF TransportInv, IndexInv, AllPairs, KeptPairs, Kept, KeptCall, ServedPair
  <2> QED  BY <2>2, <2>3, <2>4, <2>5, <2>6 DEF TransportInv
<1> QED
  BY <1>1, <1>2, <1>3, <1>4, <1>5, <1>6, <1>7, <1>8, <1>9, <1>10, <1>11, <1>12, <1>13, <1>14 DEF Next

LEMMA TransportInvHolds == ASSUME FewCalls PROVE Spec => []TransportInv
<1>1. Init => TransportInv  BY InitHolds
<1>2. TransportInv /\ [Next]_vars => TransportInv'  BY NextKeeps
<1> QED  BY <1>1, <1>2, PTL DEF Spec

-----------------------------------------------------------------------------
(* Calls as the Raft worker uses them *)

Made == {c \in Call : status[c] # "new"}
Returned == {c \in Call : status[c] = "ok"}
Failed == {c \in Call : status[c] \in Failures}

\* What a step on this connection does to the calls.
CallStep == Calls!Next \/ UNCHANGED <<Made, handled, Returned, Failed>>

\* A call whose outcome becomes known, and no other call's.
LEMMA OneMoved ==
    ASSUME TransportInv, NEW c \in Call, NEW st, status' = [status EXCEPT ![c] = st]
    PROVE  status'[c] = st /\ \A d \in Call : d # c => status'[d] = status[d]
BY DEF TransportInv, TransportTypes

\* Lost calls fail, and nothing else happens.
LEMMA LostFail ==
    ASSUME NEW lost \in SUBSET Call, lost \subseteq Made \ (Returned \cup Failed),
           Made' = Made, Returned' = Returned, Failed' = Failed \cup lost, UNCHANGED handled
    PROVE  CallStep
<1>1. Calls!Fail(lost)  BY DEF Calls!Fail, Made, Returned, Failed
<1> QED  BY <1>1 DEF CallStep, Calls!Next, Calls!Fail

LEMMA OneFails ==
    ASSUME TransportInv, NEW c \in Call, status[c] \in Waiting,
           NEW st \in Failures, status' = [status EXCEPT ![c] = st], UNCHANGED handled
    PROVE  CallStep
<1>1. st \notin {"ok", "new"}  BY DEF Failures
<1>2. status'[c] = st /\ \A d \in Call : d # c => status'[d] = status[d]
  BY OneMoved
<1>3. status[c] # "new" /\ status[c] # "ok" /\ status[c] \notin Failures
  BY DEF Waiting, Failures
<1>4. {c} \subseteq Made \ (Returned \cup Failed)  BY <1>3 DEF Made, Returned, Failed
<1>5. Made' = Made /\ Returned' = Returned  BY <1>1, <1>2, <1>3 DEF Made, Returned
<1>6. Failed' = Failed \cup {c}  BY <1>2 DEF Failed
<1> QED  BY <1>4, <1>5, <1>6, LostFail

LEMMA FinishImplements ==
    ASSUME TransportInv, NEW idx \in Nat, NEW outcome \in {"ok", "unavailable", "timeout"},
           NEW for, Finish(idx, outcome, for), UNCHANGED handled,
           Holds(in_flight, idx) /\ outcome = "ok" => ValueAt(in_flight, idx) \in Arrived
    PROVE  CallStep
<1>1. CASE ~Holds(in_flight, idx)  BY <1>1 DEF Finish, CallStep, Made, Returned, Failed
<1>2. CASE Holds(in_flight, idx)
  <2> DEFINE c == ValueAt(in_flight, idx)
             s == DataIdx(idx)
  <2>1. s \in Kept /\ c = KeptCall(s)
    BY <1>2, SlotOfIndex DEF Holds, Kept, KeptCall, ValueAt
  <2>2. status' = [status EXCEPT ![c] = outcome]  BY <1>2 DEF Finish
  <2>3. outcome = "ok" => c \in Arrived  BY <1>2
  <2> HIDE DEF c, s
  <2>4. c \in Call /\ status[c] = "in_flight"
    BY <2>1 DEF TransportInv, TransportTypes, TableInv, Kept, KeptCall, Filled
  <2>5. CASE outcome # "ok"
    <3>1. status[c] \in Waiting /\ outcome \in Failures  BY <2>4, <2>5 DEF Waiting, Failures
    <3> QED  BY <2>2, <2>4, <3>1, OneFails
  <2>6. CASE outcome = "ok"
    <3>1. status'[c] = "ok" /\ \A d \in Call : d # c => status'[d] = status[d]
      BY <2>2, <2>4, <2>6, OneMoved
    <3>2. Made' = Made /\ Failed' = Failed /\ Returned' = Returned \cup {c}
      BY <2>4, <3>1 DEF Made, Failed, Returned, Failures
    <3>3. c \notin Failed \cup Returned  BY <2>4 DEF Failed, Returned, Failures
    <3>4. Calls!HasArrived(c)  BY <2>3, <2>6 DEF Arrived, Values, Calls!HasArrived
    <3>5. Calls!Return(c)  BY <3>2, <3>3, <3>4 DEF Calls!Return, Made, Failed, Returned
    <3> QED  BY <2>4, <3>5 DEF CallStep, Calls!Next, Calls!Return
  <2> QED  BY <2>5, <2>6
<1> QED  BY <1>1, <1>2

LEMMA ClientCallImplements ==
    ASSUME TransportInv, NEW c \in Call, ClientCall(c)
    PROVE  CallStep
<1>1. PICK st \in {"queued", "disconnected"} : status' = [status EXCEPT ![c] = st]
  BY DEF ClientCall
<1>2. status[c] = "new" /\ UNCHANGED handled  BY DEF ClientCall, serverVars
<1>3. status'[c] = st /\ \A d \in Call : d # c => status'[d] = status[d]
  BY <1>1, OneMoved
<1>4. c \notin Made /\ Made' = Made \cup {c}  BY <1>2, <1>3 DEF Made
<1>5. Returned' = Returned  BY <1>2, <1>3 DEF Returned
<1>6. Failed' \in {Failed, Failed \cup {c}}
  <2>1. "queued" \notin Failures /\ "new" \notin Failures /\ "disconnected" \in Failures
    BY DEF Failures
  <2> QED  BY <1>2, <1>3, <2>1 DEF Failed
<1>7. Calls!Make(c)  BY <1>2, <1>4, <1>5, <1>6 DEF Calls!Make, Made, Returned, Failed
<1> QED  BY <1>7 DEF CallStep, Calls!Next, Calls!Make

LEMMA HandleRequestImplements ==
    ASSUME TransportInv, HandleRequest
    PROVE  CallStep
<1> DEFINE c == Head(req_rx)
<1>1. req_rx # <<>> /\ UNCHANGED handled  BY DEF HandleRequest, serverVars
<1>2. PICK st \in {"too_many", "in_flight", "js"} : status' = [status EXCEPT ![c] = st]
  BY DEF HandleRequest
<1>3. c \in Call /\ 1 \in DOMAIN req_rx /\ c = req_rx[1]
  BY <1>1, ValuesOfTail DEF TransportInv, TransportTypes
<1>4. status[c] = "queued"  BY <1>3 DEF TransportInv, QueueInv
<1> HIDE DEF c
<1>5. CASE st # "in_flight"
  <2>1. status[c] \in Waiting /\ st \in Failures  BY <1>4, <1>5 DEF Waiting, Failures
  <2> QED  BY <1>1, <1>2, <1>3, <2>1, OneFails
<1>6. CASE st = "in_flight"
  <2>1. status'[c] = "in_flight" /\ \A d \in Call : d # c => status'[d] = status[d]
    BY <1>2, <1>3, <1>6, OneMoved
  <2>2. Made' = Made /\ Returned' = Returned  BY <1>4, <2>1 DEF Made, Returned
  <2>3. Failed' = Failed
    <3>1. "queued" \notin Failures /\ "in_flight" \notin Failures  BY DEF Failures
    <3> QED  BY <1>4, <2>1, <3>1 DEF Failed
  <2> QED  BY <1>1, <2>2, <2>3 DEF CallStep
<1> QED  BY <1>5, <1>6

LEMMA HandleResponseImplements ==
    ASSUME TransportInv, HandleResponse
    PROVE  CallStep
<1> DEFINE resp == Head(resp_rx)
           outcome == IF resp.ok THEN "ok" ELSE "unavailable"
           for == IF resp.ok THEN resp.req ELSE None
<1>1. resp_rx # <<>> /\ UNCHANGED handled /\ Finish(resp.idx, outcome, for)
  BY DEF HandleResponse, serverVars
<1>2. /\ resp \in Answered
      /\ Reqs(resp_rx) = Reqs(Tail(resp_rx)) \cup {resp.req}
  BY <1>1, PairsOfTail DEF TransportInv, TransportTypes
<1>3. resp.idx \in Nat /\ resp.req \in Arrived
  BY <1>2 DEF Answered, TransportInv, AnsweredInv
<1>4. Holds(in_flight, resp.idx) => ValueAt(in_flight, resp.idx) = resp.req
  BY <1>1, ResponseIsOwn
<1>5. outcome \in {"ok", "unavailable", "timeout"}
  OBVIOUS
<1> HIDE DEF resp, outcome, for
<1> QED  BY <1>1, <1>3, <1>4, <1>5, FinishImplements

LEMMA HandleTimeoutImplements ==
    ASSUME TransportInv, HandleTimeout
    PROVE  CallStep
<1>1. timeout_rx # <<>> /\ UNCHANGED handled /\ Finish(Head(timeout_rx), "timeout", None)
  BY DEF HandleTimeout, serverVars
<1>2. Head(timeout_rx) \in Nat
  BY <1>1, ValuesOfTail DEF TransportInv, TransportTypes
<1> QED  BY <1>1, <1>2, FinishImplements

LEMMA StopManagerImplements ==
    ASSUME TransportInv, StopManager
    PROVE  CallStep
<1>1. /\ UNCHANGED handled
      /\ \A c \in Call : status'[c] = IF c \in Dropped THEN "disconnected" ELSE status[c]
  BY DEF StopManager, serverVars
<1>2. /\ "disconnected" \in Failures /\ "disconnected" \notin {"new", "ok"}
      /\ \A st \in Waiting : st \notin Failures /\ st \notin {"new", "ok"}
  BY DEF Waiting, Failures
<1>3. \A c \in Dropped : c \in Call /\ status[c] \in Waiting  BY DEF Dropped
<1>4. Dropped \subseteq Made \ (Returned \cup Failed)
  BY <1>2, <1>3 DEF Made, Returned, Failed
<1>5. Made' = Made /\ Returned' = Returned  BY <1>1, <1>2, <1>3 DEF Made, Returned
<1>6. Failed' = Failed \cup Dropped  BY <1>1, <1>2, <1>3 DEF Failed
<1>7. Dropped \in SUBSET Call  BY <1>3
<1> HIDE DEF Dropped
<1> QED  BY <1>1, <1>4, <1>5, <1>6, <1>7, LostFail

LEMMA ServeImplements ==
    ASSUME TransportInv, Serve
    PROVE  CallStep
<1>1. PICK c \in Begun : handled' = Append(handled, c) /\ c \notin Arrived /\ UNCHANGED status
  BY ServeKeeps
<1>2. c \in Call /\ c \in Made  BY DEF Begun, Made
<1>3. ~Calls!HasArrived(c)  BY <1>1 DEF Arrived, Values, Calls!HasArrived
<1>4. Calls!Arrive(c)  BY <1>1, <1>2, <1>3 DEF Calls!Arrive, Made
<1> QED  BY <1>2, <1>4 DEF CallStep, Calls!Next, Calls!Arrive

LEMMA StepImplements ==
    ASSUME TransportInv, [Next]_vars
    PROVE  CallStep
<1>1. ASSUME NEW c \in Call, ClientCall(c) PROVE CallStep
  BY <1>1, ClientCallImplements
<1>2. CASE HandleRequest  BY <1>2, HandleRequestImplements
<1>3. CASE HandleResponse  BY <1>3, HandleResponseImplements
<1>4. CASE HandleTimeout  BY <1>4, HandleTimeoutImplements
<1>5. CASE StopManager  BY <1>5, StopManagerImplements
<1>6. CASE Serve  BY <1>6, ServeImplements
<1>7. ASSUME UNCHANGED <<status, handled>> PROVE CallStep
  BY <1>7 DEF CallStep, Made, Returned, Failed
<1>8. ASSUME NEW idx \in timers, TimerFires(idx) PROVE CallStep
  BY <1>7, <1>8 DEF TimerFires, serverVars
<1>9. CASE ReceiveResponse  BY <1>7, <1>9 DEF ReceiveResponse, serverVars
<1>10. CASE ReceiveRequest  BY <1>7, <1>10 DEF ReceiveRequest, callerVars
<1>11. ASSUME NEW ok \in BOOLEAN, Respond(ok) PROVE CallStep
  BY <1>7, <1>11 DEF Respond, callerVars
<1>12. CASE ChannelCloses  BY <1>7, <1>12 DEF ChannelCloses, callerVars, serverVars
<1>13. CASE CallerOnClose  BY <1>7, <1>13 DEF CallerOnClose, callerVars, serverVars
<1>14. CASE ServerOnClose  BY <1>7, <1>14 DEF ServerOnClose, callerVars, serverVars
<1>15. CASE UNCHANGED vars  BY <1>7, <1>15 DEF vars, callerVars, serverVars
<1> QED
  BY <1>1, <1>2, <1>3, <1>4, <1>5, <1>6, <1>8, <1>9, <1>10, <1>11, <1>12, <1>13, <1>14, <1>15
  DEF Next

-----------------------------------------------------------------------------
\* RingBuf::remove finds a caller by index, and answers share the slots of
\* earlier requests: a call still returns the answer to its own request.
THEOREM AnswersAreOwn == ASSUME FewCalls PROVE Spec => []AnswerIsOwn
<1>1. TransportInv => AnswerIsOwn  BY DEF TransportInv
<1> QED  BY <1>1, TransportInvHolds, PTL

\* RequestManager starts a timer for every request that it keeps: none waits
\* in the table without one, whatever is removed and added meanwhile.
THEOREM EntriesAreTimed == ASSUME FewCalls PROVE Spec => []TimedEntries
<1>1. TransportInv => TimedEntries  BY DEF TransportInv
<1> QED  BY <1>1, TransportInvHolds, PTL

\* Client, RequestManager and Server together give the Raft worker the calls
\* it counts on: a request is handled at most once, and a call returns once,
\* with an answer only after its request was handled, or fails.
THEOREM TransportImplementsCalls == ASSUME FewCalls PROVE Spec => ImplementsPeerCalls
<1>1. Init => Calls!Init
  <2>1. "new" \notin Failures  BY DEF Failures
  <2> QED  BY <2>1 DEF Init, Calls!Init
<1>2. TransportInv /\ [Next]_vars
        => [Calls!Next]_<<{c \in Call : status[c] # "new"}, handled,
                          {c \in Call : status[c] = "ok"}, {c \in Call : status[c] \in Failures}>>
  BY StepImplements DEF CallStep, Made, Returned, Failed
<1> QED  BY <1>1, <1>2, TransportInvHolds, PTL DEF Spec, ImplementsPeerCalls, Calls!Spec

=============================================================================
