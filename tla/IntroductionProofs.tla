------------------------- MODULE IntroductionProofs -------------------------
(***************************************************************************)
(* Introductions are made in one direction, for any number of windows: a    *)
(* window makes offers to greater ids and answers smaller ones, however     *)
(* late a status is read and however often windows are opened again.  The   *)
(* argument follows an offer on its way: it leaves for a greater id, the    *)
(* introducer passes it to its target only, and what is made for it answers *)
(* a smaller one.                                                           *)
(*                                                                         *)
(* The peers that the bootstrap stores are all the others unless a window   *)
(* is opened again or a peer introduced twice.  That argument follows a     *)
(* description: it stands for one connection of its sender, and a channel   *)
(* takes two connections that hold each other's.                            *)
(*                                                                         *)
(* No window gives up unless an offer was sent again, a window opened again *)
(* or a peer introduced twice.  That argument follows the introduction of   *)
(* two windows through the introducer: one offer, its answer, then the      *)
(* candidate, each once and in order, with the entry of peers that the      *)
(* handler of it will look for.                                             *)
(***************************************************************************)
EXTENDS Introduction, TLAPS, FiniteSetTheorems, SequenceTheorems

Stage == {"describing", "offering", "answering", "answered", "queued", "held", "served",
          "closed", "dropped"}

\* The stages of a connection whose offer is made, again perhaps.
Offering == {"describing", "offering"}

\* What a window may send, and what may be forwarded to it.
Sent == {m \in Command : m.kind = "Offer" => m.from < m.target}
Heard(w) == {m \in Command : m.kind = "Offer" => m.from < w}

OffersGoUp == up \in [Socket -> Seq(Sent)] /\ down \in [Window -> Seq(Command)]
OffersArrive == \A w \in Window : down[w] \in Seq(Heard(w))

\* Connections with the role that the two ids give them.
Fits(w, c) ==
    /\ c.peer # w
    /\ c.role = "offer" <=> c.peer > w
    /\ c.stage \in Offering => c.role = "offer"
ConnsFit(cs) ==
    /\ cs \in [Window -> Seq(Conn)]
    /\ \A w \in Window : \A n \in DOMAIN cs[w] : Fits(w, cs[w][n])

\* Both ends of a connection stay, the far one once its description is there.
SameEnds(c, d) ==
    /\ d.peer = c.peer /\ d.role = c.role
    /\ ~TakesAnswer(c) => d.remote = c.remote

\* Connections stay where they are.
Keeps(cs, ds) ==
    \A w \in Window : \A n \in DOMAIN cs[w] : n \in DOMAIN ds[w] /\ SameEnds(cs[w][n], ds[w][n])

\* No connection is made.
Changes(cs, ds) == Keeps(cs, ds) /\ \A w \in Window : DOMAIN ds[w] = DOMAIN cs[w]

EntriesMade ==
    \A w, p \in Window : peers[w][p] # 0 =>
        peers[w][p] \in DOMAIN conns[w] /\ conns[w][peers[w][p]].peer = p

\* What send_peer has passed on was made.
QueueMade == \A w \in Window : peer_rx[w] \in Seq(DOMAIN conns[w])

ServerInv ==
    /\ openings \in [Window -> Nat]
    /\ session_online \subseteq Window
    /\ subscribed \subseteq Socket
    /\ ids \subseteq Socket
    /\ OffersGoUp
    /\ OffersArrive

ConnsInv ==
    /\ ConnsFit(conns)
    /\ peers \in [Window -> [Window -> Nat]]
    /\ EntriesMade
    /\ QueueMade

WindowInv ==
    /\ online \in [Window -> SUBSET Window]
    /\ peer_rx \in [Window -> Seq(Nat)]
    /\ initiating \in [Window -> BOOLEAN]
    /\ panicked \in [Window -> BOOLEAN]
    /\ repeats \in Nat
    /\ raft \in [Window -> {"bootstrap", "running", "ended"}]
    /\ clients \in [Window -> SUBSET Window]
    /\ stored \in [Window -> SUBSET Window]

IntroductionInv == ServerInv /\ ConnsInv /\ WindowInv

-----------------------------------------------------------------------------
(* Connections *)

\* A sequence that is changed elementwise.
LEMMA SameLength ==
    ASSUME NEW S, NEW T, NEW s \in Seq(S), NEW t \in [DOMAIN s -> T]
    PROVE  t \in Seq(T)
<1>1. Len(s) \in Nat /\ DOMAIN s = 1 .. Len(s)  BY LenProperties
<1>2. t \in [1 .. Len(s) -> T]  BY <1>1
<1> QED  BY <1>1, <1>2, SeqDef

LEMMA ListIsSequence ==
    ASSUME NEW S, NEW n \in Nat, NEW f \in [1 .. n -> S]
    PROVE  f \in Seq(S)
BY SeqDef

LEMMA NewConnFits ==
    ASSUME NEW p \in Window, NEW role \in {"offer", "answer"}, NEW remote \in Nat \X Nat
    PROVE  /\ NewConn(p, role, remote) \in Conn
           /\ NewConn(p, role, remote).peer = p
           /\ NewConn(p, role, remote).role = role
           /\ NewConn(p, role, remote).stage \in Offering => role = "offer"
BY DEF NewConn, Conn, Offering

\* What a step may change of a connection leaves its ends alone.
Becomes(c, d) ==
    /\ d \in Conn /\ SameEnds(c, d)
    /\ d.stage \in Offering => c.stage \in Offering

LEMMA ConnChanges ==
    ASSUME NEW c \in Conn
    PROVE  /\ \A st \in Stage : (st \in Offering => c.stage \in Offering) =>
                  Becomes(c, [c EXCEPT !.stage = st])
           /\ \A r \in Nat \X Nat : TakesAnswer(c) => Becomes(c, [c EXCEPT !.remote = r])
           /\ \A b \in BOOLEAN : Becomes(c, [c EXCEPT !.ack = b])
           /\ \A l \in {"up", "closed", "missed"} : Becomes(c, [c EXCEPT !.link = l])
           /\ \A st \in Stage, q \in Nat : (st \in Offering => c.stage \in Offering) =>
                  Becomes(c, [c EXCEPT !.stage = st, !.pc = q])
           /\ \A st \in Stage, b \in BOOLEAN : (st \in Offering => c.stage \in Offering) =>
                  Becomes(c, [c EXCEPT !.stage = st, !.shut = b])
<1>1. \A st \in Stage : (st \in Offering => c.stage \in Offering) =>
          Becomes(c, [c EXCEPT !.stage = st])
  BY Zenon DEF Conn, Stage, Becomes, SameEnds, TakesAnswer
<1>2. \A r \in Nat \X Nat : TakesAnswer(c) => Becomes(c, [c EXCEPT !.remote = r])
  BY Zenon DEF Conn, Becomes, SameEnds, TakesAnswer
<1>3. \A b \in BOOLEAN : Becomes(c, [c EXCEPT !.ack = b])
  BY Zenon DEF Conn, Becomes, SameEnds, TakesAnswer
<1>4. \A l \in {"up", "closed", "missed"} : Becomes(c, [c EXCEPT !.link = l])
  BY Zenon DEF Conn, Becomes, SameEnds, TakesAnswer
<1>5. \A st \in Stage, q \in Nat : (st \in Offering => c.stage \in Offering) =>
          Becomes(c, [c EXCEPT !.stage = st, !.pc = q])
  BY ZenonT(30) DEF Conn, Stage, Becomes, SameEnds, TakesAnswer
<1>6. \A st \in Stage, b \in BOOLEAN : (st \in Offering => c.stage \in Offering) =>
          Becomes(c, [c EXCEPT !.stage = st, !.shut = b])
  BY ZenonT(30) DEF Conn, Stage, Becomes, SameEnds, TakesAnswer
<1> QED  BY <1>1, <1>2, <1>3, <1>4, <1>5, <1>6

\* The connections of a window change, each at its place.
LEMMA ConnsChange ==
    ASSUME NEW cs, ConnsFit(cs), NEW w \in Window,
           NEW seq, seq = [n \in DOMAIN cs[w] |-> seq[n]],
           \A n \in DOMAIN cs[w] : Becomes(cs[w][n], seq[n]),
           NEW ds, ds = [cs EXCEPT ![w] = seq]
    PROVE  ConnsFit(ds) /\ Keeps(cs, ds) /\ Changes(cs, ds)
<1>1. cs[w] \in Seq(Conn)  BY DEF ConnsFit
<1>2. seq \in [DOMAIN cs[w] -> Conn]  BY DEF Becomes
<1>3. seq \in Seq(Conn)  BY <1>1, <1>2, SameLength
<1>4. ds \in [Window -> Seq(Conn)]  BY <1>3 DEF ConnsFit
<1>5. \A v \in Window : ds[v] = IF v = w THEN seq ELSE cs[v]  BY DEF ConnsFit
<1>6. \A v \in Window : DOMAIN ds[v] = DOMAIN cs[v]  BY <1>2, <1>5
<1>7. \A v \in Window : \A n \in DOMAIN cs[v] :
          /\ SameEnds(cs[v][n], ds[v][n])
          /\ ds[v][n].stage \in Offering => cs[v][n].stage \in Offering
  BY <1>5 DEF Becomes, SameEnds
<1>8. \A v \in Window : \A n \in DOMAIN ds[v] : Fits(v, ds[v][n])
  <2>1. TAKE v \in Window
  <2>2. TAKE n \in DOMAIN ds[v]
  <2>3. n \in DOMAIN cs[v]  BY <1>6
  <2>4. Fits(v, cs[v][n])  BY <2>3 DEF ConnsFit
  <2> QED  BY <1>7, <2>3, <2>4 DEF Fits, SameEnds
<1> QED  BY <1>4, <1>6, <1>7, <1>8 DEF ConnsFit, Keeps, Changes

\* One connection of a window changes.
LEMMA OneConnChanges ==
    ASSUME NEW cs, ConnsFit(cs), NEW w \in Window, NEW n \in DOMAIN cs[w],
           NEW d, Becomes(cs[w][n], d),
           NEW ds, ds = [cs EXCEPT ![w] = [cs[w] EXCEPT ![n] = d]]
    PROVE  ConnsFit(ds) /\ Keeps(cs, ds) /\ Changes(cs, ds)
<1> DEFINE seq == [cs[w] EXCEPT ![n] = d]
<1>1. \A k \in DOMAIN cs[w] : cs[w][k] \in Conn
  BY LenProperties, ElementOfSeq DEF ConnsFit
<1>2. \A k \in DOMAIN cs[w] : Becomes(cs[w][k], seq[k])
  BY <1>1 DEF Becomes, SameEnds
<1>3. seq = [k \in DOMAIN cs[w] |-> seq[k]]  OBVIOUS
<1> HIDE DEF seq
<1> QED  BY <1>2, <1>3, ConnsChange DEF seq

\* A window makes connections.
LEMMA ConnsAreMade ==
    ASSUME NEW cs, ConnsFit(cs), NEW w \in Window, NEW new \in Seq(Conn),
           \A n \in DOMAIN new : Fits(w, new[n]),
           NEW ds, ds = [cs EXCEPT ![w] = cs[w] \o new]
    PROVE  ConnsFit(ds) /\ Keeps(cs, ds)
<1>1. cs[w] \in Seq(Conn)  BY DEF ConnsFit
<1>2. cs[w] \o new \in Seq(Conn)  BY <1>1
<1>3. /\ Len(cs[w]) \in Nat /\ Len(new) \in Nat
      /\ DOMAIN cs[w] = 1 .. Len(cs[w]) /\ DOMAIN new = 1 .. Len(new)
      /\ DOMAIN (cs[w] \o new) = 1 .. Len(cs[w]) + Len(new)
  BY <1>1, <1>2, LenProperties, ConcatProperties
<1>4. \A n \in DOMAIN (cs[w] \o new) : Fits(w, (cs[w] \o new)[n])
  <2>1. TAKE n \in DOMAIN (cs[w] \o new)
  <2>2. CASE n <= Len(cs[w])
    BY <1>1, <1>3, <2>2, ConcatProperties DEF ConnsFit
  <2>3. CASE ~(n <= Len(cs[w]))
    <3>1. n - Len(cs[w]) \in DOMAIN new /\ (cs[w] \o new)[n] = new[n - Len(cs[w])]
      BY <1>1, <1>3, <2>3, ConcatProperties
    <3> QED  BY <3>1
  <2> QED  BY <2>2, <2>3
<1>5. \A n \in DOMAIN cs[w] : n \in DOMAIN (cs[w] \o new) /\ (cs[w] \o new)[n] = cs[w][n]
  BY <1>1, <1>3, ConcatProperties
<1>6. ds \in [Window -> Seq(Conn)]  BY <1>2 DEF ConnsFit
<1>7. \A v \in Window : ds[v] = IF v = w THEN cs[w] \o new ELSE cs[v]  BY DEF ConnsFit
<1> QED  BY <1>4, <1>5, <1>6, <1>7 DEF ConnsFit, Keeps, SameEnds

-----------------------------------------------------------------------------
(* Messages *)

LEMMA CommandTypes ==
    ASSUME NEW w \in Window, NEW v \in Window, NEW sdp \in Nat \X Nat
    PROVE  /\ Join(w) \in Sent
           /\ Signal("Answer", w, v, sdp) \in Sent
           /\ Signal("IceCandidate", w, v, sdp) \in Sent
           /\ w < v => Signal("Offer", w, v, sdp) \in Sent
BY DEF Join, Signal, Sent, Command

LEMMA StatusType ==
    ASSUME NEW on, on \subseteq Window
    PROVE  SessionStatus(on) \in Sent
BY DEF SessionStatus, Sent, Command

LEMMA SignalTypes ==
    ASSUME NEW m \in Command, m.kind \notin {"Join", "SessionStatus"}
    PROVE  m.from \in Window /\ m.target \in Window /\ m.sdp \in Nat \X Nat
BY DEF Command

\* A window sends on its own socket.
LEMMA SendKeepsServer ==
    ASSUME ServerInv, NEW w \in Window, NEW cmds \in Seq(Sent), Send(w, cmds),
           UNCHANGED <<openings, down, introducerVars>>
    PROVE  ServerInv'
<1>1. up' \in [Socket -> Seq(Sent)]
  <2>1. CASE Current(w) \in Socket
    <3>1. up[Current(w)] \o cmds \in Seq(Sent)
      BY <2>1, ConcatProperties DEF ServerInv, OffersGoUp
    <3> QED  BY <3>1 DEF ServerInv, OffersGoUp, Send
  <2>2. CASE Current(w) \notin Socket
    BY <2>2 DEF ServerInv, OffersGoUp, Send
  <2> QED  BY <2>1, <2>2
<1> QED  BY <1>1 DEF ServerInv, OffersGoUp, OffersArrive, introducerVars

\* What is broadcast is forwarded to its target only.
LEMMA BroadcastArrives ==
    ASSUME ServerInv, NEW cmd \in Sent, NEW receivers, Broadcast(cmd, receivers)
    PROVE  down' \in [Window -> Seq(Command)] /\ OffersArrive'
<1>1. cmd \in Command  BY DEF Sent
<1>2. \A w \in Window : Hears(w, cmd) => cmd \in Heard(w)
  BY DEF Hears, Heard, Sent
<1>3. \A w \in Window : Hears(w, cmd) =>
          Append(down[w], cmd) \in Seq(Command) /\ Append(down[w], cmd) \in Seq(Heard(w))
  BY <1>1, <1>2 DEF ServerInv, OffersGoUp, OffersArrive
<1>4. down' \in [Window -> Seq(Command)]
  BY <1>3 DEF ServerInv, OffersGoUp, Broadcast
<1>5. \A w \in Window : down'[w] \in Seq(Heard(w))
  BY <1>3 DEF ServerInv, OffersArrive, Broadcast
<1> QED  BY <1>4, <1>5 DEF OffersArrive

\* The introducer takes what a socket brings, and keeps its sets to the session.
LEMMA IntroducerKeepsServer ==
    ASSUME ServerInv, NEW s \in Socket, IntroducerStep(s)
    PROVE  ServerInv'
<1>1. s[1] \in Window  BY DEF Socket
<1>2. CASE ProcessMessage(s)
  <2>1. Head(up[s]) \in Sent /\ Tail(up[s]) \in Seq(Sent)
    BY <1>2, HeadTailProperties DEF ProcessMessage, ServerInv, OffersGoUp
  <2>2. up' \in [Socket -> Seq(Sent)]
    BY <1>2, <2>1 DEF ProcessMessage, ServerInv, OffersGoUp
  <2>3. CASE ProcessJoin(s)
    <3>1. session_online' \subseteq Window /\ subscribed' \subseteq Socket /\ ids' \subseteq Socket
      BY <1>1, <2>3 DEF ProcessJoin, ServerInv
    <3>2. SessionStatus(session_online') \in Sent
      BY <3>1, StatusType
    <3>3. down' \in [Window -> Seq(Command)] /\ OffersArrive'
      BY <2>3, <3>2, BroadcastArrives DEF ProcessJoin
    <3> QED  BY <1>2, <2>2, <3>1, <3>3 DEF ProcessMessage, ServerInv, OffersGoUp
  <2>4. CASE ProcessSignal(s, Head(up[s]))
    <3>1. down' \in [Window -> Seq(Command)] /\ OffersArrive'
      BY <2>1, <2>4, BroadcastArrives DEF ProcessSignal
    <3> QED  BY <1>2, <2>2, <2>4, <3>1 DEF ProcessMessage, ProcessSignal, ServerInv, OffersGoUp
  <2> QED  BY <1>2, <2>3, <2>4 DEF ProcessMessage
<1>3. CASE Leave(s) /\ s \in ids
  <2>1. /\ session_online' \subseteq Window /\ subscribed' \subseteq Socket /\ ids' \subseteq Socket
        /\ UNCHANGED <<openings, up>>
    BY <1>3 DEF Leave, Return, ServerInv
  <2>2. SessionStatus(session_online') \in Sent
    BY <2>1, StatusType
  <2>3. down' \in [Window -> Seq(Command)] /\ OffersArrive'
    BY <1>3, <2>2, BroadcastArrives DEF Leave
  <2> QED  BY <2>1, <2>3 DEF ServerInv, OffersGoUp
<1>4. CASE Return(s) /\ UNCHANGED <<session_online, down>>
  BY <1>4 DEF Return, ServerInv, OffersGoUp, OffersArrive
<1> QED  BY <1>2, <1>3, <1>4 DEF IntroducerStep, Leave, LeaveFails

-----------------------------------------------------------------------------
(* What the handlers have in common *)

\* An entry of peers stays good as long as its connection stays in place.
LEMMA EntriesStay ==
    ASSUME ConnsInv, ConnsFit(conns'), Keeps(conns, conns'), peers' \in [Window -> [Window -> Nat]],
           \A w, p \in Window : peers'[w][p] \in {0, peers[w][p]},
           \A w \in Window : peer_rx'[w] \in Seq(DOMAIN conns[w])
    PROVE  ConnsInv'
<1>1. EntriesMade'
  <2>1. SUFFICES ASSUME NEW w \in Window, NEW p \in Window, peers'[w][p] # 0
                 PROVE  peers'[w][p] \in DOMAIN conns'[w] /\ conns'[w][peers'[w][p]].peer = p
    BY DEF EntriesMade
  <2>2. peers'[w][p] = peers[w][p]  BY <2>1
  <2>3. peers[w][p] \in DOMAIN conns[w] /\ conns[w][peers[w][p]].peer = p
    BY <2>1, <2>2 DEF ConnsInv, EntriesMade
  <2> QED  BY <2>2, <2>3 DEF Keeps, SameEnds
<1>2. QueueMade'
  <2>1. \A w \in Window : DOMAIN conns[w] \subseteq DOMAIN conns'[w]  BY DEF Keeps
  <2> QED  BY <2>1, SeqMonotonic DEF QueueMade
<1> QED  BY <1>1, <1>2 DEF ConnsInv, ConnsFit, Fits

LEMMA NothingChanges ==
    ASSUME ConnsInv, WindowInv, UNCHANGED <<stateVars, raftVars>>
    PROVE  ConnsInv' /\ WindowInv' /\ Changes(conns, conns')
<1> USE DEF stateVars, raftVars
<1>1. ConnsFit(conns')  BY DEF ConnsInv
<1>2. EntriesMade' /\ QueueMade'  BY DEF ConnsInv, EntriesMade, QueueMade
<1>3. ConnsInv'  BY <1>1, <1>2 DEF ConnsInv, ConnsFit, Fits
<1>4. WindowInv'  BY DEF WindowInv
<1>5. Changes(conns, conns')  BY DEF Changes, Keeps, SameEnds
<1> QED  BY <1>3, <1>4, <1>5

\* insert_peer is called with the connection that was made for the peer.
LEMMA EntryIsMade ==
    ASSUME ConnsInv, WindowInv, ConnsFit(conns'), Keeps(conns, conns'),
           NEW w \in Window, NEW p \in Window, NEW n \in Nat,
           n \in DOMAIN conns'[w], conns'[w][n].peer = p, InsertPeer(w, p, n),
           UNCHANGED peer_rx
    PROVE  ConnsInv' /\ online' \in [Window -> SUBSET Window]
<1>1. peers' \in [Window -> [Window -> Nat]]
  BY DEF InsertPeer, ConnsInv
<1>2. \A v, q \in Window : peers'[v][q] = IF v = w /\ q = p THEN n ELSE peers[v][q]
  BY DEF InsertPeer, ConnsInv
<1>3. EntriesMade'  BY <1>2 DEF ConnsInv, EntriesMade, Keeps, SameEnds
<1>4. online' \in [Window -> SUBSET Window]  BY DEF InsertPeer, WindowInv
<1>5. QueueMade'
  <2>1. \A v \in Window : DOMAIN conns[v] \subseteq DOMAIN conns'[v]  BY DEF Keeps
  <2> QED  BY <2>1, SeqMonotonic DEF ConnsInv, QueueMade
<1> QED  BY <1>1, <1>3, <1>4, <1>5 DEF ConnsInv, ConnsFit, Fits

LEMMA DropKeepsConn ==
    ASSUME NEW c \in Conn, NEW dropped, NEW shut
    PROVE  Becomes(c, Drop(c, dropped, shut))
<1> DEFINE st == IF dropped THEN "closed" ELSE c.stage
           b == c.shut \/ shut
<1>1. Drop(c, dropped, shut) = [c EXCEPT !.stage = st, !.shut = b]
  BY Zenon DEF Drop
<1>2. st \in Stage /\ (st \in Offering => c.stage \in Offering)
  BY DEF Conn, Stage, Offering
<1>3. b \in BOOLEAN  BY Zenon
<1> HIDE DEF st, b
<1>4. Becomes(c, [c EXCEPT !.stage = st, !.shut = b])
  BY <1>2, <1>3, ConnChanges
<1> QED  BY <1>1, <1>4, Zenon

\* Drop for Server closes connections where they are.
LEMMA DropKeepsConns ==
    ASSUME ConnsInv, WindowInv, NEW w \in Window, NEW ns, ns \subseteq DOMAIN conns[w],
           DropServers(w, ns)
    PROVE  /\ ConnsFit(conns') /\ Keeps(conns, conns') /\ Changes(conns, conns')
           /\ online' \in [Window -> SUBSET Window]
<1> DEFINE shut(n) == \E k \in ns : conns[w][k].pc = n
           d(n) == Drop(conns[w][n], n \in ns, shut(n))
           seq == [n \in DOMAIN conns[w] |-> d(n)]
<1>1. conns[w] \in Seq(Conn) /\ \A n \in DOMAIN conns[w] : conns[w][n] \in Conn
  BY LenProperties, ElementOfSeq DEF ConnsInv, ConnsFit
<1>2. conns' = [conns EXCEPT ![w] = seq]
  BY DEF DropServers
<1>3. \A n \in DOMAIN conns[w] : Becomes(conns[w][n], d(n))
  BY <1>1, DropKeepsConn, Zenon
<1> HIDE DEF d
<1>4. seq = [n \in DOMAIN conns[w] |-> seq[n]] /\ \A n \in DOMAIN conns[w] : seq[n] = d(n)
  OBVIOUS
<1> HIDE DEF seq
<1>5. ConnsFit(conns') /\ Keeps(conns, conns') /\ Changes(conns, conns')
  BY <1>2, <1>3, <1>4, ConnsChange DEF ConnsInv
<1>6. online' \in [Window -> SUBSET Window]
  BY DEF DropServers, WindowInv
<1> QED  BY <1>5, <1>6

\* A handler that fails ends the introductions and drops what was held.
LEMMA FailKeeps ==
    ASSUME ConnsInv, WindowInv, NEW w \in Window, Fail(w),
           UNCHANGED <<peers, panicked, repeats, clients, stored>>
    PROVE  ConnsInv' /\ WindowInv' /\ Changes(conns, conns')
<1>1. Held(w) \subseteq DOMAIN conns[w] /\ DropServers(w, Held(w))
  BY DEF Held, Fail
<1>2. /\ ConnsFit(conns') /\ Keeps(conns, conns') /\ Changes(conns, conns')
      /\ online' \in [Window -> SUBSET Window]
  BY <1>1, DropKeepsConns
<1>3. \A v \in Window : peer_rx'[v] \in Seq(DOMAIN conns[v])
  BY EmptySeq DEF Fail, ConnsInv, QueueMade, WindowInv
<1>4. ConnsInv'  BY <1>2, <1>3, EntriesStay DEF ConnsInv
<1>5. initiating' \in [Window -> BOOLEAN]  BY DEF Fail, WindowInv
<1>6. raft' \in [Window -> {"bootstrap", "running", "ended"}]  BY DEF Fail, WindowInv
<1>7. peer_rx' \in [Window -> Seq(Nat)]
  BY EmptySeq DEF Fail, WindowInv
<1> QED  BY <1>2, <1>5, <1>6, <1>7, <1>4 DEF WindowInv

\* send_peer takes the entry out and passes a connection on.
LEMMA SendPeerKeeps ==
    ASSUME ConnsInv, WindowInv, NEW w \in Window, NEW cs, ConnsFit(cs), Changes(conns, cs),
           NEW n \in DOMAIN conns[w], SendPeer(w, n, cs),
           UNCHANGED <<online, initiating, repeats, raftVars>>
    PROVE  ConnsInv' /\ WindowInv' /\ Changes(conns, conns')
<1>1. cs[w] \in Seq(Conn) /\ n \in DOMAIN cs[w]  BY DEF ConnsFit, Keeps, Changes
<1>2. n \in Nat /\ cs[w][n] \in Conn
  BY <1>1, LenProperties, ElementOfSeq
<1>3. cs[w][n].peer \in Window  BY <1>2 DEF Conn
<1> DEFINE p == cs[w][n].peer
           d(st) == [cs[w][n] EXCEPT !.stage = st, !.pc = peers[w][p]]
           after(st) == [cs EXCEPT ![w][n] = d(st)]
<1>4. \A st \in {"queued", "dropped"} : ConnsFit(after(st)) /\ Changes(cs, after(st))
  <2>1. TAKE st \in {"queued", "dropped"}
  <2>2. peers[w][p] \in Nat /\ st \in Stage /\ st \notin Offering
    BY <1>3 DEF ConnsInv, Stage, Offering
  <2>3. Becomes(cs[w][n], d(st))
    <3> HIDE DEF p
    <3> QED  BY <1>2, <2>2, ConnChanges
  <2>4. after(st) = [cs EXCEPT ![w] = [cs[w] EXCEPT ![n] = d(st)]]
    OBVIOUS
  <2> HIDE DEF d, after
  <2> QED  BY <1>1, <2>3, <2>4, OneConnChanges
<1>5. \E st \in {"queued", "dropped"} : conns' = after(st)
  BY DEF SendPeer
<1> HIDE DEF after
<1>6. ConnsFit(conns') /\ Keeps(conns, conns') /\ Changes(conns, conns')
  BY <1>4, <1>5 DEF Keeps, Changes, SameEnds, TakesAnswer
<1>7. /\ peers' \in [Window -> [Window -> Nat]]
      /\ \A v, q \in Window : peers'[v][q] \in {0, peers[v][q]}
  <2>1. CASE UNCHANGED peers
    BY <2>1 DEF ConnsInv
  <2>2. CASE peers' = [peers EXCEPT ![w][p] = 0]
    <3> HIDE DEF p
    <3> QED  BY <1>3, <2>2 DEF ConnsInv
  <2> QED  BY <2>1, <2>2 DEF SendPeer
<1>8. \A v \in Window : peer_rx'[v] \in Seq(DOMAIN conns[v])
  <2>1. \A v \in Window : peer_rx[v] \in Seq(DOMAIN conns[v])  BY DEF ConnsInv, QueueMade
  <2>2. Append(peer_rx[w], n) \in Seq(DOMAIN conns[w])
    <3>1. \A S : \A q \in Seq(S), e \in S : Append(q, e) \in Seq(S)  OBVIOUS
    <3> QED  BY <2>1, <3>1
  <2> QED  BY <2>1, <2>2 DEF SendPeer, WindowInv
<1>9. ConnsInv'  BY <1>6, <1>7, <1>8, EntriesStay
<1>10. peer_rx' \in [Window -> Seq(Nat)]
  <2>1. Append(peer_rx[w], n) \in Seq(Nat)  BY <1>2 DEF WindowInv
  <2> QED  BY <2>1 DEF SendPeer, WindowInv
<1>11. panicked' \in [Window -> BOOLEAN]  BY DEF SendPeer, WindowInv
<1> QED  BY <1>6, <1>9, <1>10, <1>11 DEF WindowInv, raftVars

-----------------------------------------------------------------------------
(* Messages that a window handles *)

\* handle_session_update introduces greater ids.
LEMMA SessionUpdateKeeps ==
    ASSUME ConnsInv, WindowInv, NEW w \in Window, NEW m \in Command, m.kind = "SessionStatus",
           HandleSessionUpdate(w, m), UNCHANGED <<clients, stored>>
    PROVE  ConnsInv' /\ WindowInv' /\ Keeps(conns, conns')
<1> DEFINE S == {p \in m.online : p > w /\ p \notin online[w]}
<1>1. m.online \subseteq Window  BY DEF Command
<1>2. IsFiniteSet(S) /\ S \subseteq Window
  BY <1>1, WindowAssumption, FS_Subset
<1>3. Cardinality(S) \in Nat  BY <1>2, FS_CardinalityType
<1>4. PICK new \in Orders(S) :
          conns' = [conns EXCEPT ![w] = @ \o [k \in DOMAIN new |-> NewConn(new[k], "offer", NoConn)]]
  BY DEF HandleSessionUpdate
<1>5. new \in [1 .. Cardinality(S) -> S]  BY <1>4 DEF Orders
<1> DEFINE made == [k \in DOMAIN new |-> NewConn(new[k], "offer", NoConn)]
<1>6. \A k \in DOMAIN new : /\ made[k] \in Conn
                            /\ made[k].peer = new[k] /\ made[k].role = "offer" /\ new[k] > w
  <2>1. TAKE k \in DOMAIN new
  <2>2. new[k] \in S  BY <1>5
  <2>3. new[k] \in Window /\ new[k] > w  BY <1>2, <2>2
  <2>4. NoConn \in Nat \X Nat  BY DEF NoConn
  <2> QED  BY <2>3, <2>4, NewConnFits
<1>7. DOMAIN made = 1 .. Cardinality(S)  BY <1>5
<1>8. made \in Seq(Conn)
  <2>1. made \in [1 .. Cardinality(S) -> Conn]  BY <1>5, <1>6
  <2> QED  BY <1>3, <2>1, ListIsSequence
<1>9. \A k \in DOMAIN made : Fits(w, made[k])
  <2>1. w \in Nat /\ S \subseteq Nat  BY <1>2, WindowAssumption
  <2>2. TAKE k \in DOMAIN made
  <2>3. k \in DOMAIN new /\ new[k] \in S  BY <1>5, <1>7
  <2>4. made[k].peer > w /\ made[k].peer \in Nat /\ made[k].role = "offer"
    BY <1>6, <2>1, <2>3
  <2> QED  BY <2>1, <2>4 DEF Fits
<1>10. conns' = [conns EXCEPT ![w] = conns[w] \o made]  BY <1>4
<1> HIDE DEF made
<1>11. ConnsFit(conns') /\ Keeps(conns, conns')
  BY <1>8, <1>9, <1>10, ConnsAreMade DEF ConnsInv
<1>12. ConnsInv'  BY <1>11, EntriesStay DEF HandleSessionUpdate, ConnsInv, QueueMade
<1> QED  BY <1>11, <1>12 DEF HandleSessionUpdate, WindowInv

\* handle_offer answers a smaller id.
LEMMA OfferKeeps ==
    ASSUME ConnsInv, WindowInv, NEW w \in Window, NEW m \in Heard(w), m.kind = "Offer",
           HandleOffer(w, m), UNCHANGED <<clients, stored>>
    PROVE  ConnsInv' /\ WindowInv' /\ Keeps(conns, conns')
<1>1. m \in Command /\ m.from < w  BY DEF Heard
<1>2. m.from \in Window /\ m.sdp \in Nat \X Nat  BY <1>1, SignalTypes
<1> DEFINE c == NewConn(m.from, "answer", m.sdp)
<1>3. c \in Conn /\ c.peer = m.from /\ c.role = "answer" /\ c.stage \notin Offering
  BY <1>2, NewConnFits
<1>4. conns[w] \in Seq(Conn)  BY DEF ConnsInv, ConnsFit
<1>5. conns' = [conns EXCEPT ![w] = Append(conns[w], c)]  BY DEF HandleOffer
<1> HIDE DEF c
<1>6. Append(conns[w], c) = conns[w] \o <<c>>  BY <1>3, <1>4
<1>7. Fits(w, c)
  <2>1. w \in Nat /\ m.from \in Nat  BY <1>2, WindowAssumption
  <2> QED  BY <1>1, <1>3, <2>1 DEF Fits
<1>8. <<c>> \in Seq(Conn) /\ \A n \in DOMAIN <<c>> : Fits(w, <<c>>[n])
  BY <1>3, <1>7
<1>9. ConnsFit(conns') /\ Keeps(conns, conns')
  BY <1>5, <1>6, <1>8, ConnsAreMade DEF ConnsInv
<1>10. /\ Len(conns'[w]) \in DOMAIN conns'[w] /\ Len(conns'[w]) \in Nat
       /\ conns'[w][Len(conns'[w])].peer = m.from
  <2>1. conns'[w] = Append(conns[w], c)  BY <1>5 DEF ConnsInv, ConnsFit
  <2> QED  BY <1>3, <1>4, <2>1
<1>11. InsertPeer(w, m.from, Len(conns'[w]))  BY DEF HandleOffer
<1>12. ConnsInv' /\ online' \in [Window -> SUBSET Window]
  BY <1>2, <1>9, <1>10, <1>11, EntryIsMade DEF HandleOffer
<1> QED  BY <1>9, <1>12 DEF HandleOffer, WindowInv

\* handle_answer changes the connection of an entry, or fails.
LEMMA AnswerKeeps ==
    ASSUME ConnsInv, WindowInv, NEW w \in Window, NEW m \in Command, m.kind = "Answer",
           HandleAnswer(w, m), UNCHANGED <<clients, stored>>
    PROVE  ConnsInv' /\ WindowInv' /\ Changes(conns, conns')
<1>1. m.from \in Window /\ m.sdp \in Nat \X Nat  BY SignalTypes
<1> DEFINE n == peers[w][m.from]
<1>2. CASE n # 0 /\ TakesAnswer(conns[w][n])
  <2>1. n \in DOMAIN conns[w]  BY <1>1, <1>2 DEF ConnsInv, EntriesMade
  <2>2. conns[w][n] \in Conn
    BY <2>1, LenProperties, ElementOfSeq DEF ConnsInv, ConnsFit
  <2> DEFINE d == [conns[w][n] EXCEPT !.remote = m.sdp]
  <2>3. Becomes(conns[w][n], d)
    <3> HIDE DEF n
    <3> QED  BY <1>1, <1>2, <2>2, ConnChanges
  <2>4. /\ conns' = [conns EXCEPT ![w] = [conns[w] EXCEPT ![n] = d]]
        /\ UNCHANGED <<peers, online, peer_rx, initiating, panicked, repeats, raft>>
    BY <1>2 DEF HandleAnswer
  <2> HIDE DEF n, d
  <2>5. ConnsFit(conns') /\ Keeps(conns, conns') /\ Changes(conns, conns')
    BY <2>1, <2>3, <2>4, OneConnChanges DEF ConnsInv
  <2>6. ConnsInv'  BY <2>4, <2>5, EntriesStay DEF ConnsInv, QueueMade
  <2> QED  BY <2>4, <2>5, <2>6 DEF WindowInv
<1>3. CASE ~(n # 0 /\ TakesAnswer(conns[w][n]))
  <2>1. Fail(w) /\ UNCHANGED <<peers, panicked, repeats>>
    BY <1>3 DEF HandleAnswer
  <2> QED  BY <2>1, FailKeeps
<1> QED  BY <1>2, <1>3

LEMMA IceCandidateKeeps ==
    ASSUME ConnsInv, WindowInv, NEW w \in Window, NEW m,
           HandleIceCandidate(w, m), UNCHANGED <<clients, stored>>
    PROVE  ConnsInv' /\ WindowInv' /\ Changes(conns, conns')
<1>1. CASE Fail(w) /\ UNCHANGED <<peers, panicked, repeats>>
  BY <1>1, FailKeeps
<1>2. CASE UNCHANGED <<stateVars, raft>>
  BY <1>2, NothingChanges DEF raftVars
<1> QED  BY <1>1, <1>2 DEF HandleIceCandidate

LEMMA HandleMessageKeeps ==
    ASSUME IntroductionInv, NEW w \in Window, HandleMessage(w)
    PROVE  IntroductionInv' /\ Keeps(conns, conns')
<1> DEFINE m == Head(down[w])
<1>1. m \in Heard(w) /\ m \in Command /\ Tail(down[w]) \in Seq(Heard(w)) /\ Tail(down[w]) \in Seq(Command)
  BY HeadTailProperties DEF HandleMessage, IntroductionInv, ServerInv, OffersGoUp, OffersArrive
<1>2. ServerInv'
  BY <1>1 DEF HandleMessage, IntroductionInv, ServerInv, OffersGoUp, OffersArrive, introducerVars
<1> SUFFICES ConnsInv' /\ WindowInv' /\ Keeps(conns, conns')
  BY <1>2 DEF IntroductionInv
<1>3. CASE m.kind = "SessionStatus" /\ HandleSessionUpdate(w, m)
  BY <1>1, <1>3, SessionUpdateKeeps DEF HandleMessage, IntroductionInv
<1>4. CASE UNCHANGED <<stateVars, raft>>
  BY <1>4, NothingChanges DEF HandleMessage, IntroductionInv, raftVars, Changes
<1>5. CASE m.kind = "Offer" /\ HandleOffer(w, m)
  BY <1>1, <1>5, OfferKeeps DEF HandleMessage, IntroductionInv
<1>6. CASE m.kind = "Answer" /\ HandleAnswer(w, m)
  BY <1>1, <1>6, AnswerKeeps DEF HandleMessage, IntroductionInv, Changes
<1>7. CASE m.kind = "IceCandidate" /\ HandleIceCandidate(w, m)
  BY <1>7, IceCandidateKeeps DEF HandleMessage, IntroductionInv, Changes
<1> QED
  BY <1>3, <1>4, <1>5, <1>6, <1>7 DEF HandleMessage

-----------------------------------------------------------------------------
(* Introductions and transports *)

LEMMA ConnTypes ==
    ASSUME ConnsInv, NEW w \in Window, NEW n \in DOMAIN conns[w]
    PROVE  /\ n \in Nat /\ conns[w][n] \in Conn /\ Fits(w, conns[w][n])
           /\ conns[w][n].peer \in Window
<1>1. conns[w] \in Seq(Conn)  BY DEF ConnsInv, ConnsFit
<1>2. n \in Nat /\ conns[w][n] \in Conn  BY <1>1, LenProperties, ElementOfSeq
<1> QED  BY <1>2 DEF Conn, ConnsInv, ConnsFit

\* The messages that a window addresses to the peer of a connection.
LEMMA SignalsFit ==
    ASSUME IntroductionInv, NEW w \in Window, NEW n \in DOMAIN conns[w]
    PROVE  LET p == conns[w][n].peer IN
           /\ conns[w][n].stage \in Offering => <<Signal("Offer", w, p, Id(w, n))>> \in Seq(Sent)
           /\ <<Signal("Answer", w, p, Id(w, n)), Signal("IceCandidate", w, p, Id(w, n))>> \in Seq(Sent)
<1> DEFINE p == conns[w][n].peer
<1>1. p \in Window /\ n \in Nat /\ Fits(w, conns[w][n])
  BY ConnTypes DEF IntroductionInv
<1>2. Id(w, n) \in Nat \X Nat
  BY <1>1 DEF Id, IntroductionInv, ServerInv
<1>3. conns[w][n].stage \in Offering => w < p
  <2>1. w \in Nat /\ p \in Nat  BY <1>1, WindowAssumption
  <2> QED  BY <1>1, <2>1 DEF Fits
<1> HIDE DEF p
<1>4. /\ Signal("Answer", w, p, Id(w, n)) \in Sent
      /\ Signal("IceCandidate", w, p, Id(w, n)) \in Sent
      /\ w < p => Signal("Offer", w, p, Id(w, n)) \in Sent
  BY <1>1, <1>2, CommandTypes
<1>5. \A a, b \in Sent : <<a>> \in Seq(Sent) /\ <<a, b>> \in Seq(Sent)
  OBVIOUS
<1> QED  BY <1>3, <1>4, <1>5 DEF p

\* A step of one connection that leaves the rest of the window alone.
LEMMA ConnStepKeeps ==
    ASSUME ConnsInv, WindowInv, NEW w \in Window, NEW n \in DOMAIN conns[w],
           NEW d, Becomes(conns[w][n], d),
           conns' = [conns EXCEPT ![w] = [conns[w] EXCEPT ![n] = d]],
           UNCHANGED <<peers, online, peer_rx, initiating, panicked, repeats, raftVars>>
    PROVE  ConnsInv' /\ WindowInv' /\ Changes(conns, conns')
<1>1. ConnsFit(conns') /\ Keeps(conns, conns') /\ Changes(conns, conns')
  BY OneConnChanges DEF ConnsInv
<1>2. ConnsInv'  BY <1>1, EntriesStay DEF ConnsInv, QueueMade
<1> QED  BY <1>1, <1>2 DEF WindowInv, raftVars

LEMMA SendOfferKeeps ==
    ASSUME IntroductionInv, NEW w \in Window, NEW n, SendOffer(w, n)
    PROVE  IntroductionInv' /\ Changes(conns, conns')
<1>1. n \in DOMAIN conns[w] /\ conns[w][n].stage = "describing"  BY DEF SendOffer, In
<1> DEFINE p == conns[w][n].peer
           d == [conns[w][n] EXCEPT !.stage = "offering"]
<1>2. conns[w][n] \in Conn /\ p \in Window /\ n \in Nat
  BY <1>1, ConnTypes DEF IntroductionInv
<1>3. "offering" \in Stage /\ conns[w][n].stage \in Offering  BY <1>1 DEF Stage, Offering
<1>4. Becomes(conns[w][n], d)  BY <1>2, <1>3, ConnChanges
<1>5. conns' = [conns EXCEPT ![w] = [conns[w] EXCEPT ![n] = d]]  BY DEF SendOffer
<1>6. InsertPeer(w, p, n) /\ Send(w, <<Signal("Offer", w, p, Id(w, n))>>)  BY DEF SendOffer
<1>7. ServerInv'
  BY <1>1, <1>3, <1>6, SignalsFit, SendKeepsServer DEF SendOffer, IntroductionInv
<1> HIDE DEF d
<1>8. ConnsFit(conns') /\ Keeps(conns, conns') /\ Changes(conns, conns')
  BY <1>1, <1>4, <1>5, OneConnChanges DEF IntroductionInv, ConnsInv
<1>9. n \in DOMAIN conns'[w] /\ conns'[w][n].peer = p  BY <1>1, <1>8 DEF Keeps, SameEnds
<1>10. ConnsInv' /\ online' \in [Window -> SUBSET Window]
  <2> HIDE DEF p
  <2> QED  BY <1>2, <1>6, <1>8, <1>9, EntryIsMade DEF SendOffer, IntroductionInv
<1> QED  BY <1>7, <1>8, <1>10 DEF SendOffer, IntroductionInv, WindowInv, raftVars

LEMMA RetryOfferKeeps ==
    ASSUME IntroductionInv, NEW w \in Window, NEW n, RetryOffer(w, n)
    PROVE  IntroductionInv' /\ Changes(conns, conns')
<1>1. n \in DOMAIN conns[w] /\ conns[w][n].stage \in Offering  BY DEF RetryOffer, In, Offering
<1>2. ServerInv'
  BY <1>1, SignalsFit, SendKeepsServer DEF RetryOffer, IntroductionInv
<1>3. ConnsInv' /\ WindowInv' /\ Changes(conns, conns')
  <2>1. ConnsInv' /\ UNCHANGED <<conns, peers, online, peer_rx, initiating, panicked, raftVars>>
    BY EntriesStay DEF RetryOffer, IntroductionInv, ConnsInv, Keeps, SameEnds, QueueMade
  <2>2. repeats' \in Nat  BY DEF RetryOffer, IntroductionInv, WindowInv
  <2>3. Changes(conns, conns')  BY <2>1 DEF Changes, Keeps, SameEnds
  <2> QED  BY <2>1, <2>2, <2>3 DEF IntroductionInv, WindowInv, raftVars
<1> QED  BY <1>2, <1>3 DEF IntroductionInv

LEMMA SendAnswerKeeps ==
    ASSUME IntroductionInv, NEW w \in Window, NEW n, SendAnswer(w, n)
    PROVE  IntroductionInv' /\ Changes(conns, conns')
<1>1. n \in DOMAIN conns[w]  BY DEF SendAnswer, In
<1> DEFINE d == [conns[w][n] EXCEPT !.stage = "answered"]
<1>2. ServerInv'
  BY <1>1, SignalsFit, SendKeepsServer DEF SendAnswer, IntroductionInv
<1>3. "answered" \in Stage /\ "answered" \notin Offering  BY DEF Stage, Offering
<1>4. conns[w][n] \in Conn  BY <1>1, ConnTypes DEF IntroductionInv
<1>5. Becomes(conns[w][n], d)  BY <1>3, <1>4, ConnChanges
<1>6. conns' = [conns EXCEPT ![w] = [conns[w] EXCEPT ![n] = d]]  BY DEF SendAnswer
<1> HIDE DEF d
<1>7. ConnsInv' /\ WindowInv' /\ Changes(conns, conns')
  BY <1>1, <1>5, <1>6, ConnStepKeeps DEF SendAnswer, IntroductionInv
<1> QED  BY <1>2, <1>7 DEF IntroductionInv

\* The ACK is put in the channel of the other window, and the channel passed on.
LEMMA OpenChannelKeeps ==
    ASSUME IntroductionInv, NEW w \in Window, NEW n, OpenChannel(w, n)
    PROVE  IntroductionInv' /\ Changes(conns, conns')
<1> DEFINE v == conns[w][n].peer
           k == conns[w][n].remote[2]
           d == [conns[v][k] EXCEPT !.ack = TRUE]
           cs == [conns EXCEPT ![v][k].ack = TRUE]
<1>1. n \in DOMAIN conns[w] /\ SendPeer(w, n, cs)  BY DEF OpenChannel, In
<1>2. v \in Window /\ ConnsInv  BY <1>1, ConnTypes DEF IntroductionInv
<1>3. cs = [conns EXCEPT ![v] = [conns[v] EXCEPT ![k] = d]]  OBVIOUS
<1> HIDE DEF v, k, cs
<1>4. ConnsFit(cs) /\ Changes(conns, cs)
  <2>1. CASE k \in DOMAIN conns[v]
    <3>1. Becomes(conns[v][k], d)  BY <1>2, <2>1, ConnTypes, ConnChanges
    <3> QED  BY <1>2, <1>3, <2>1, <3>1, OneConnChanges DEF ConnsInv
  <2>2. CASE k \notin DOMAIN conns[v]
    <3>1. conns[v] \in [DOMAIN conns[v] -> Conn] /\ conns \in [Window -> Seq(Conn)]
      BY <1>2, LenProperties DEF ConnsInv, ConnsFit
    <3>2. [conns[v] EXCEPT ![k] = d] = conns[v]  BY <2>2, <3>1
    <3>3. cs = conns  BY <1>3, <3>1, <3>2
    <3> QED  BY <1>2, <3>3 DEF ConnsInv, Keeps, Changes, SameEnds
  <2> QED  BY <2>1, <2>2
<1>5. ConnsInv' /\ WindowInv' /\ Changes(conns, conns')
  BY <1>1, <1>4, SendPeerKeeps DEF OpenChannel, IntroductionInv
<1> QED
  BY <1>5 DEF OpenChannel, IntroductionInv, ServerInv, OffersGoUp, OffersArrive, introducerVars

LEMMA ReceiveAckKeeps ==
    ASSUME IntroductionInv, NEW w \in Window, NEW n, ReceiveAck(w, n)
    PROVE  IntroductionInv' /\ Changes(conns, conns')
<1>1. n \in DOMAIN conns[w] /\ SendPeer(w, n, conns)  BY DEF ReceiveAck, In
<1>2. ConnsFit(conns) /\ Changes(conns, conns)
  BY DEF IntroductionInv, ConnsInv, Keeps, Changes, SameEnds
<1>3. ConnsInv' /\ WindowInv' /\ Changes(conns, conns')
  BY <1>1, <1>2, SendPeerKeeps DEF ReceiveAck, IntroductionInv
<1> QED
  BY <1>3 DEF ReceiveAck, IntroductionInv, ServerInv, OffersGoUp, OffersArrive, introducerVars

LEMMA BootstrapPeerKeeps ==
    ASSUME ConnsInv, WindowInv, NEW w \in Window, NEW n, BootstrapPeer(w, n),
           clients' \in [Window -> SUBSET Window]
    PROVE  /\ ConnsFit(conns') /\ Keeps(conns, conns') /\ Changes(conns, conns')
           /\ raft' \in [Window -> {"bootstrap", "running", "ended"}]
           /\ stored' \in [Window -> SUBSET Window]
<1> DEFINE complete == Cardinality(Held(w)) + 1 >= ClusterSize - 1
           seq == [k \in DOMAIN conns[w] |->
                      IF k \in Held(w) \cup {n}
                        THEN [conns[w][k] EXCEPT !.stage = IF complete THEN "served" ELSE "held"]
                        ELSE conns[w][k]]
<1>1. conns' = [conns EXCEPT ![w] = seq]  BY DEF BootstrapPeer
<1>2. \A k \in DOMAIN conns[w] : Becomes(conns[w][k], seq[k])
  <2>1. TAKE k \in DOMAIN conns[w]
  <2>2. conns[w][k] \in Conn  BY <2>1, ConnTypes
  <2>3. Becomes(conns[w][k], conns[w][k])  BY <2>2 DEF Becomes, SameEnds
  <2>4. \A st \in {"served", "held"} : st \in Stage /\ st \notin Offering
    BY DEF Stage, Offering
  <2>5. \A st \in {"served", "held"} : Becomes(conns[w][k], [conns[w][k] EXCEPT !.stage = st])
    BY <2>2, <2>4, ConnChanges
  <2> HIDE DEF complete
  <2>6. seq[k] = conns[w][k] \/ \E st \in {"served", "held"} : seq[k] = [conns[w][k] EXCEPT !.stage = st]
    BY <2>1
  <2> QED  BY <2>3, <2>5, <2>6
<1>3. seq = [k \in DOMAIN conns[w] |-> seq[k]]  OBVIOUS
<1> HIDE DEF seq
<1>4. ConnsFit(conns') /\ Keeps(conns, conns') /\ Changes(conns, conns')
  BY <1>1, <1>2, <1>3, ConnsChange DEF ConnsInv
<1>5. raft' \in [Window -> {"bootstrap", "running", "ended"}]
  BY DEF BootstrapPeer, WindowInv
<1>6. stored' \in [Window -> SUBSET Window]
  BY DEF BootstrapPeer, WindowInv
<1> QED  BY <1>4, <1>5, <1>6

\* A transport starts: its peer has a client, and its connection may be served.
LEMMA StartPeerKeeps ==
    ASSUME IntroductionInv, NEW w \in Window, StartPeer(w)
    PROVE  IntroductionInv' /\ Changes(conns, conns')
<1> USE DEF IntroductionInv
<1> DEFINE n == Head(peer_rx[w])
<1>1. peer_rx' \in [Window -> Seq(Nat)]
  <2>1. Tail(peer_rx[w]) \in Seq(Nat)
    BY HeadTailProperties DEF StartPeer, WindowInv
  <2> QED  BY <2>1 DEF StartPeer, WindowInv
<1>2. n \in DOMAIN conns[w] /\ \A v \in Window : peer_rx'[v] \in Seq(DOMAIN conns[v])
  <2>1. \A v \in Window : peer_rx[v] \in Seq(DOMAIN conns[v])  BY DEF ConnsInv, QueueMade
  <2>2. n \in DOMAIN conns[w] /\ Tail(peer_rx[w]) \in Seq(DOMAIN conns[w])
    BY <2>1, HeadTailProperties DEF StartPeer
  <2> QED  BY <2>1, <2>2 DEF StartPeer, WindowInv
<1>3. clients' \in [Window -> SUBSET Window]
  <2>1. conns[w][n].peer \in Window  BY <1>2, ConnTypes
  <2> HIDE DEF n
  <2> QED  BY <2>1 DEF StartPeer, WindowInv, n
<1>4. CASE BootstrapPeer(w, n)
  <2>1. /\ ConnsFit(conns') /\ Keeps(conns, conns') /\ Changes(conns, conns')
        /\ raft' \in [Window -> {"bootstrap", "running", "ended"}]
        /\ stored' \in [Window -> SUBSET Window]
    BY <1>3, <1>4, BootstrapPeerKeeps
  <2>2. ConnsInv'  BY <1>2, <2>1, EntriesStay DEF StartPeer, ConnsInv
  <2> QED
    BY <1>1, <1>3, <2>1, <2>2
       DEF StartPeer, WindowInv, ServerInv, OffersGoUp, OffersArrive, introducerVars
<1>5. CASE HandleNewPeer(w, n)
  <2> DEFINE d == [conns[w][n] EXCEPT !.stage = "served"]
  <2>1. "served" \in Stage /\ "served" \notin Offering  BY DEF Stage, Offering
  <2>2. Becomes(conns[w][n], d)  BY <1>2, <2>1, ConnTypes, ConnChanges
  <2>3. conns' = [conns EXCEPT ![w] = [conns[w] EXCEPT ![n] = d]]
    BY <1>5 DEF HandleNewPeer
  <2> HIDE DEF d
  <2>4. ConnsFit(conns') /\ Keeps(conns, conns') /\ Changes(conns, conns')
    BY <1>2, <2>2, <2>3, OneConnChanges DEF ConnsInv
  <2>5. ConnsInv'  BY <1>2, <2>4, EntriesStay DEF StartPeer, ConnsInv
  <2> QED
    BY <1>1, <1>3, <1>5, <2>4, <2>5
       DEF StartPeer, HandleNewPeer, WindowInv, ServerInv, OffersGoUp, OffersArrive, introducerVars
<1> QED  BY <1>4, <1>5 DEF StartPeer

LEMMA ChannelClosesKeeps ==
    ASSUME IntroductionInv, NEW w \in Window, NEW n, ChannelCloses(w, n)
    PROVE  IntroductionInv' /\ Changes(conns, conns')
<1> DEFINE l == IF conns[w][n].stage \in {"held", "served"} THEN "closed" ELSE "missed"
           d == [conns[w][n] EXCEPT !.link = l]
<1>1. n \in DOMAIN conns[w] /\ conns[w][n] \in Conn
  BY ConnTypes DEF ChannelCloses, IntroductionInv
<1>2. l \in {"up", "closed", "missed"}  OBVIOUS
<1>3. conns' = [conns EXCEPT ![w] = [conns[w] EXCEPT ![n] = d]]  BY DEF ChannelCloses
<1> HIDE DEF l
<1>4. Becomes(conns[w][n], d)  BY <1>1, <1>2, ConnChanges
<1> HIDE DEF d
<1>5. ConnsInv' /\ WindowInv' /\ Changes(conns, conns')
  BY <1>1, <1>3, <1>4, ConnStepKeeps DEF ChannelCloses, IntroductionInv
<1> QED
  BY <1>5 DEF ChannelCloses, IntroductionInv, ServerInv, OffersGoUp, OffersArrive, introducerVars

LEMMA ServeEndsKeeps ==
    ASSUME IntroductionInv, NEW w \in Window, NEW n, ServeEnds(w, n)
    PROVE  IntroductionInv' /\ Changes(conns, conns')
<1>1. {n} \subseteq DOMAIN conns[w] /\ DropServers(w, {n})  BY DEF ServeEnds, In
<1>2. /\ ConnsFit(conns') /\ Keeps(conns, conns') /\ Changes(conns, conns')
      /\ online' \in [Window -> SUBSET Window]
  BY <1>1, DropKeepsConns DEF IntroductionInv
<1>3. ConnsInv'  BY <1>2, EntriesStay DEF ServeEnds, IntroductionInv, ConnsInv, QueueMade
<1> QED
  BY <1>2, <1>3 DEF ServeEnds, IntroductionInv, WindowInv, raftVars,
                    ServerInv, OffersGoUp, OffersArrive, introducerVars

-----------------------------------------------------------------------------
(* Windows and the specification *)

LEMMA OpenKeeps ==
    ASSUME IntroductionInv, NEW w \in Window, Open(w)
    PROVE  IntroductionInv'
<1> USE DEF IntroductionInv
<1>1. ServerInv'
  <2>1. <<Join(w)>> \in Seq(Sent)
    BY DEF Join, Sent, Command
  <2>2. up' \in [Socket -> Seq(Sent)]
    BY <2>1 DEF Open, ServerInv, OffersGoUp
  <2>3. down' \in [Window -> Seq(Command)] /\ OffersArrive'
    BY EmptySeq DEF Open, ServerInv, OffersGoUp, OffersArrive
  <2>4. openings' \in [Window -> Nat]  BY DEF Open, ServerInv
  <2> QED  BY <2>2, <2>3, <2>4 DEF Open, ServerInv, OffersGoUp, introducerVars
<1>2. /\ conns' = [conns EXCEPT ![w] = <<>>]
      /\ peers' = [peers EXCEPT ![w] = [p \in Window |-> 0]]
      /\ peer_rx' = [peer_rx EXCEPT ![w] = <<>>]
  BY DEF Open
<1>3. <<>> \in Seq(Conn) /\ DOMAIN <<>> = {} /\ \A S : <<>> \in Seq(S)
  BY EmptySeq
<1>4. ConnsFit(conns')
  BY <1>2, <1>3 DEF ConnsInv, ConnsFit
<1>5. peers' \in [Window -> [Window -> Nat]] /\ EntriesMade'
  BY <1>2 DEF ConnsInv, ConnsFit, EntriesMade
<1>6. QueueMade'
  BY <1>2, <1>3 DEF ConnsInv, ConnsFit, QueueMade, WindowInv
<1>7. ConnsInv'
  BY <1>4, <1>5, <1>6 DEF ConnsInv, ConnsFit, Fits
<1>8. WindowInv'
  <2>1. peer_rx' \in [Window -> Seq(Nat)]  BY <1>2, <1>3 DEF WindowInv
  <2>2. repeats' \in Nat  BY DEF Open, WindowInv
  <2>3. raft' \in [Window -> {"bootstrap", "running", "ended"}]  BY DEF Open, WindowInv
  <2>4. /\ online' \in [Window -> SUBSET Window] /\ initiating' \in [Window -> BOOLEAN]
        /\ panicked' \in [Window -> BOOLEAN] /\ clients' \in [Window -> SUBSET Window]
        /\ stored' \in [Window -> SUBSET Window]
    BY DEF Open, WindowInv, introducerVars
  <2> QED  BY <2>1, <2>2, <2>3, <2>4 DEF WindowInv
<1> QED  BY <1>1, <1>7, <1>8

LEMMA InitHolds == Init => IntroductionInv
<1> SUFFICES ASSUME Init PROVE IntroductionInv
  OBVIOUS
<1>1. ServerInv
  BY EmptySeq DEF Init, IntroducerInit, ServerInv, OffersGoUp, OffersArrive
<1>2. ConnsInv
  BY EmptySeq DEF Init, ConnsInv, ConnsFit, EntriesMade, QueueMade
<1>3. WindowInv
  BY EmptySeq DEF Init, WindowInv
<1> QED  BY <1>1, <1>2, <1>3 DEF IntroductionInv

LEMMA NextKeeps == IntroductionInv /\ [Next]_vars => IntroductionInv'
<1> SUFFICES ASSUME IntroductionInv, [Next]_vars PROVE IntroductionInv'
  OBVIOUS
<1>1. ASSUME NEW s \in Socket, IntroducerStep(s) PROVE IntroductionInv'
  <2>1. ServerInv'  BY <1>1, IntroducerKeepsServer DEF IntroductionInv
  <2>2. UNCHANGED <<stateVars, raftVars>>  BY <1>1 DEF IntroducerStep
  <2> QED
    BY <2>1, <2>2, NothingChanges DEF IntroductionInv
<1>2. ASSUME NEW w \in Window, WindowStep(w) PROVE IntroductionInv'
  BY <1>2, HandleMessageKeeps, StartPeerKeeps, SendOfferKeeps, SendAnswerKeeps, OpenChannelKeeps,
     ReceiveAckKeeps, ChannelClosesKeeps, ServeEndsKeeps DEF WindowStep
<1>3. ASSUME NEW w \in Window, Open(w) PROVE IntroductionInv'
  BY <1>3, OpenKeeps
<1>4. ASSUME NEW w \in Window, NEW n \in DOMAIN conns[w], RetryOffer(w, n) PROVE IntroductionInv'
  BY <1>4, RetryOfferKeeps
<1>5. CASE UNCHANGED vars
  <2>1. ConnsInv' /\ WindowInv'
    BY <1>5, NothingChanges DEF vars, IntroductionInv
  <2>2. ServerInv'
    BY <1>5 DEF vars, IntroductionInv, introducerVars, ServerInv, OffersGoUp, OffersArrive
  <2> QED  BY <2>1, <2>2 DEF IntroductionInv
<1> QED  BY <1>1, <1>2, <1>3, <1>4, <1>5 DEF Next

LEMMA InvImpliesTypeOK == IntroductionInv => TypeOK
<1> SUFFICES ASSUME IntroductionInv PROVE TypeOK
  OBVIOUS
<1>1. up \in [Socket -> Seq(Command)]
  <2>1. Sent \subseteq Command  BY DEF Sent
  <2> QED  BY <2>1, SeqMonotonic DEF IntroductionInv, ServerInv, OffersGoUp
<1>2. IntroducerTypeOK
  BY <1>1 DEF IntroductionInv, ServerInv, OffersGoUp, IntroducerTypeOK
<1> QED  BY <1>2 DEF IntroductionInv, ConnsInv, ConnsFit, EntriesMade, WindowInv, TypeOK

LEMMA InvImpliesOneInitiator == IntroductionInv => OneInitiator
BY DEF IntroductionInv, ConnsInv, ConnsFit, Fits, OneInitiator

\* Every variable keeps its type, for any number of windows and reloads; an
\* entry of State.peers names a connection that was made for its peer.
THEOREM IntroductionTypeCorrect == Spec => []TypeOK
BY InitHolds, NextKeeps, InvImpliesTypeOK, PTL DEF Spec

\* handle_session_update and handle_offer never meet: offers are made to greater
\* ids and answered by them, and no window is introduced to itself.
THEOREM OffersGoOneWay == Spec => []OneInitiator
BY InitHolds, NextKeeps, InvImpliesOneInitiator, PTL DEF Spec

-----------------------------------------------------------------------------
(* The cluster is whole.  The bootstrap counts channels; that two of them are *)
(* to two peers needs a pair of connections for each.                         *)

\* A description that v gave names a connection of v, or one from before v was
\* opened again.
Refers(v, sdp) ==
    /\ sdp[1] <= openings[v]
    /\ sdp[1] = openings[v] => sdp[2] \in DOMAIN conns[v]

\* An offer was made for a connection, wherever it is on its way.
Described == {m \in Command : m.kind = "Offer" => Refers(m.from, m.sdp)}
OffersDescribed ==
    /\ \A s \in Socket : up[s] \in Seq(Described)
    /\ \A w \in Window : down[w] \in Seq(Described)
AnswersDescribed ==
    \A w \in Window : \A n \in DOMAIN conns[w] :
        conns[w][n].role = "answer" => Refers(conns[w][n].peer, conns[w][n].remote)

\* Nothing reaches a window before it is opened.
Untouched == \A w \in Window : openings[w] = 0 => DOMAIN conns[w] = {} /\ down[w] = <<>>

\* The stages of a channel between send_peer and the complete bootstrap.
Passed == {"queued", "held"}
At(cs, w, stage) == {n \in DOMAIN cs[w] : cs[w][n].stage = stage}

\* What waits to be started was passed on, and once.
Queued == \A w \in Window : peer_rx[w] \in Seq(At(conns, w, "queued")) /\ IsInjective(peer_rx[w])

\* The bootstrap has a client for each channel that it holds, and not all of them.
PeersOf(w, ns) == {conns[w][n].peer : n \in ns}
Counted ==
    \A w \in Window : raft[w] = "bootstrap" =>
        clients[w] = PeersOf(w, Held(w)) /\ Cardinality(Held(w)) < ClusterSize - 1

\* The offer that connection n answers has n for its answer.
Paired(w, n) ==
    LET v == conns[w][n].peer
        r == conns[w][n].remote
    IN /\ r[1] = openings[v] /\ r[2] \in DOMAIN conns[v]
       /\ conns[v][r[2]].peer = w /\ conns[v][r[2]].remote = Id(w, n)
AnswersPaired ==
    \A w \in Window : \A n \in DOMAIN conns[w] :
        conns[w][n].role = "answer" /\ conns[w][n].stage \in Passed => Paired(w, n)

StoredWhole == \A w \in Window : stored[w] # {} => Cardinality(stored[w]) = ClusterSize - 1

Undisturbed == ~IntroducedTwice /\ \A w \in Window : openings[w] <= 1

MessagesInv == OffersDescribed /\ AnswersDescribed /\ Untouched
ChannelsInv == Queued /\ Counted /\ (Undisturbed => AnswersPaired /\ StoredWhole)
ClusterInv == MessagesInv /\ ChannelsInv

\* A description stays good while its connection stays, and when its window is
\* opened again.
LEMMA RefersStays ==
    ASSUME IntroductionInv,
           (UNCHANGED openings /\ Keeps(conns, conns')) \/ \E w \in Window : Open(w),
           NEW v \in Window, NEW sdp \in Nat \X Nat, Refers(v, sdp)
    PROVE  Refers(v, sdp)'
<1>1. CASE UNCHANGED openings /\ Keeps(conns, conns')
  BY <1>1 DEF Refers, Keeps
<1>2. ASSUME NEW w \in Window, Open(w) PROVE Refers(v, sdp)'
  <2>1. openings[v] \in Nat /\ sdp[1] \in Nat /\ openings'[v] = IF v = w THEN openings[v] + 1 ELSE openings[v]
    BY <1>2 DEF Open, IntroductionInv, ServerInv
  <2>2. v # w => conns'[v] = conns[v]
    BY <1>2 DEF Open, IntroductionInv, ConnsInv, ConnsFit
  <2> QED  BY <2>1, <2>2 DEF Refers
<1> QED  BY <1>1, <1>2

LEMMA DescribedStays ==
    ASSUME IntroductionInv,
           (UNCHANGED openings /\ Keeps(conns, conns')) \/ \E w \in Window : Open(w)
    PROVE  Described \subseteq Described'
<1>1. SUFFICES ASSUME NEW m \in Described PROVE m \in Described'
  OBVIOUS
<1>2. m \in Command  BY DEF Described
<1>3. CASE m.kind = "Offer"
  <2>1. m.from \in Window /\ m.sdp \in Nat \X Nat  BY <1>2, <1>3, SignalTypes
  <2>2. Refers(m.from, m.sdp)  BY <1>3 DEF Described
  <2>3. Refers(m.from, m.sdp)'  BY <2>1, <2>2, RefersStays
  <2> QED  BY <1>2, <2>3 DEF Described
<1>4. CASE m.kind # "Offer"
  BY <1>2, <1>4 DEF Described
<1> QED  BY <1>3, <1>4

\* Messages that stay on their way.
LEMMA MessagesStay ==
    ASSUME OffersDescribed, Described \subseteq Described'
    PROVE  /\ \A s \in Socket : up[s] \in Seq(Described')
           /\ \A w \in Window : down[w] \in Seq(Described')
BY SeqMonotonic DEF OffersDescribed

LEMMA AnswersStayDescribed ==
    ASSUME IntroductionInv, AnswersDescribed, UNCHANGED openings, Changes(conns, conns')
    PROVE  AnswersDescribed'
<1> SUFFICES ASSUME NEW w \in Window, NEW n \in DOMAIN conns'[w], conns'[w][n].role = "answer"
             PROVE  \E v, sdp : /\ v = conns'[w][n].peer /\ sdp = conns'[w][n].remote
                                /\ Refers(v, sdp)'
  BY DEF AnswersDescribed, Refers
<1>1. n \in DOMAIN conns[w] /\ SameEnds(conns[w][n], conns'[w][n])
  BY DEF Changes, Keeps
<1>2. /\ conns[w][n].role = "answer" /\ conns'[w][n].peer = conns[w][n].peer
      /\ conns'[w][n].remote = conns[w][n].remote
  BY <1>1 DEF SameEnds, TakesAnswer
<1>3. conns[w][n].peer \in Window /\ conns[w][n].remote \in Nat \X Nat
  BY <1>1, ConnTypes DEF IntroductionInv, Conn
<1>4. Refers(conns[w][n].peer, conns[w][n].remote)  BY <1>1, <1>2 DEF AnswersDescribed
<1>5. PICK v \in Window, sdp \in Nat \X Nat : v = conns[w][n].peer /\ sdp = conns[w][n].remote
  BY <1>3
<1>6. Refers(v, sdp)'  BY <1>4, <1>5, RefersStays DEF Changes
<1> QED  BY <1>2, <1>5, <1>6

LEMMA UntouchedStays ==
    ASSUME Untouched, UNCHANGED openings, Changes(conns, conns'),
           \A w \in Window : openings[w] = 0 => down'[w] = down[w]
    PROVE  Untouched'
BY DEF Untouched, Changes

\* The introducer passes on what it read, to sockets of windows that were opened.
LEMMA IntroducerKeepsMessages ==
    ASSUME IntroductionInv, MessagesInv, NEW s \in Socket, IntroducerStep(s)
    PROVE  MessagesInv'
<1>1. UNCHANGED <<openings, conns>> /\ UNCHANGED <<stateVars, raftVars>>
  BY DEF IntroducerStep, stateVars, ProcessMessage, Leave, LeaveFails, Return
<1>2. Changes(conns, conns')  BY <1>1 DEF Changes, Keeps, SameEnds
<1>3. AnswersDescribed'  BY <1>1, <1>2, AnswersStayDescribed DEF MessagesInv
<1>4. Described \subseteq Described'  BY <1>1, <1>2, DescribedStays DEF Changes
<1>5. /\ \A t \in Socket : up[t] \in Seq(Described')
      /\ \A w \in Window : down[w] \in Seq(Described')
  BY <1>4, MessagesStay DEF MessagesInv
<1>6. \A t \in Socket : up'[t] \in Seq(Described')
  <2>1. up' = up \/ (up[s] # <<>> /\ up' = [up EXCEPT ![s] = Tail(up[s])])
    BY DEF IntroducerStep, ProcessMessage, Leave, LeaveFails, Return
  <2>2. up[s] # <<>> => Tail(up[s]) \in Seq(Described')
    BY <1>5, HeadTailProperties
  <2> QED  BY <1>5, <2>1, <2>2 DEF IntroductionInv, ServerInv, OffersGoUp
<1>7. down' = down \/ \E cmd \in Described', receivers \in SUBSET Socket : Broadcast(cmd, receivers)
  <2>1. s[1] \in Window  BY DEF Socket
  <2>2. \A on \in SUBSET Window : SessionStatus(on) \in Described'
    BY DEF SessionStatus, Described, Command
  <2>3. CASE ProcessMessage(s)
    <3>1. Head(up[s]) \in Described'
      BY <1>5, <2>3, HeadTailProperties DEF ProcessMessage
    <3>2. CASE ProcessJoin(s)
      <4>1. session_online' \subseteq Window /\ subscribed' \subseteq Socket
        BY <2>1, <3>2 DEF ProcessJoin, IntroductionInv, ServerInv
      <4> QED  BY <2>2, <3>2, <4>1 DEF ProcessJoin
    <3>3. CASE ProcessSignal(s, Head(up[s]))
      BY <3>1, <3>3 DEF ProcessSignal, IntroductionInv, ServerInv
    <3> QED  BY <2>3, <3>2, <3>3 DEF ProcessMessage
  <2>4. CASE Leave(s) \/ LeaveFails(s)
    <3>1. subscribed' \subseteq Socket
      BY <2>4 DEF Leave, LeaveFails, Return, IntroductionInv, ServerInv
    <3>2. CASE UNCHANGED <<session_online, down>>  BY <3>2
    <3>3. CASE session_online' = session_online \ {s[1]} /\ Broadcast(SessionStatus(session_online'), subscribed')
      <4>1. session_online' \in SUBSET Window  BY <3>3 DEF IntroductionInv, ServerInv
      <4> QED  BY <2>2, <3>1, <3>3, <4>1
    <3> QED  BY <2>4, <3>2, <3>3 DEF Leave, LeaveFails
  <2> QED  BY <2>3, <2>4 DEF IntroducerStep
<1>8. /\ \A w \in Window : down'[w] \in Seq(Described')
      /\ \A w \in Window : openings[w] = 0 => down'[w] = down[w]
  <2>1. CASE down' = down  BY <1>5, <2>1
  <2>2. ASSUME NEW cmd \in Described', NEW receivers \in SUBSET Socket, Broadcast(cmd, receivers)
        PROVE  /\ \A w \in Window : down'[w] \in Seq(Described')
               /\ \A w \in Window : openings[w] = 0 => down'[w] = down[w]
    <3>1. \A S : \A q \in Seq(S), e \in S : Append(q, e) \in Seq(S)  OBVIOUS
    <3>2. \A w \in Window : down'[w] = down[w] \/ (Current(w) \in Socket /\ down'[w] = Append(down[w], cmd))
      BY <2>2 DEF Broadcast
    <3>3. \A w \in Window : Current(w) \in Socket => openings[w] # 0
      <4>1. TAKE w \in Window
      <4>2. Current(w) \in Socket => openings[w] \in 1 .. MaxOpenings
        BY DEF Current, Socket
      <4> QED  BY <4>2
    <3> QED  BY <1>5, <3>1, <3>2, <3>3
  <2> QED  BY <1>7, <2>1, <2>2
<1>9. Untouched'  BY <1>1, <1>2, <1>8, UntouchedStays DEF MessagesInv
<1> QED  BY <1>3, <1>6, <1>8, <1>9 DEF MessagesInv, OffersDescribed

\* A window says what connections of its own are.
LEMMA SendKeepsMessages ==
    ASSUME IntroductionInv, MessagesInv, NEW w \in Window, NEW n \in DOMAIN conns[w],
           NEW cmds, Send(w, cmds), UNCHANGED <<openings, down>>, Changes(conns, conns'),
           \/ cmds = <<Signal("Offer", w, conns[w][n].peer, Id(w, n))>>
           \/ cmds = <<Signal("Answer", w, conns[w][n].peer, Id(w, n)),
                       Signal("IceCandidate", w, conns[w][n].peer, Id(w, n))>>
    PROVE  MessagesInv'
<1>1. AnswersDescribed' /\ Untouched'
  BY AnswersStayDescribed, UntouchedStays DEF MessagesInv
<1>2. Described \subseteq Described'  BY DescribedStays DEF Changes
<1>3. /\ \A t \in Socket : up[t] \in Seq(Described')
      /\ \A v \in Window : down[v] \in Seq(Described')
  BY <1>2, MessagesStay DEF MessagesInv
<1> DEFINE p == conns[w][n].peer
<1>4. p \in Window /\ Id(w, n) \in Nat \X Nat
  BY ConnTypes DEF Id, IntroductionInv, ServerInv
<1>5. Refers(w, Id(w, n))
  BY DEF Refers, Id, IntroductionInv, ServerInv
<1> HIDE DEF p
<1>6. /\ Signal("Offer", w, p, Id(w, n)) \in Described
      /\ Signal("Answer", w, p, Id(w, n)) \in Described
      /\ Signal("IceCandidate", w, p, Id(w, n)) \in Described
  BY <1>4, <1>5 DEF Signal, Described, Command
<1>7. cmds \in Seq(Described')
  <2>1. \A S : \A a, b \in S : <<a>> \in Seq(S) /\ <<a, b>> \in Seq(S)  OBVIOUS
  <2> QED  BY <1>2, <1>6, <2>1 DEF p
<1>8. \A t \in Socket : up'[t] \in Seq(Described')
  <2>1. \A S : \A q, r \in Seq(S) : q \o r \in Seq(S)  OBVIOUS
  <2>2. \A t \in Socket : up'[t] = up[t] \/ up'[t] = up[t] \o cmds
    BY DEF Send, IntroductionInv, ServerInv, OffersGoUp
  <2> QED  BY <1>3, <1>7, <2>1, <2>2
<1> QED  BY <1>1, <1>3, <1>8 DEF MessagesInv, OffersDescribed

\* A step between other parts of the system.
LEMMA OthersKeepMessages ==
    ASSUME IntroductionInv, MessagesInv, UNCHANGED <<openings, up, down>>, Changes(conns, conns')
    PROVE  MessagesInv'
<1>1. AnswersDescribed' /\ Untouched'
  BY AnswersStayDescribed, UntouchedStays DEF MessagesInv
<1>2. Described \subseteq Described'  BY DescribedStays DEF Changes
<1> QED  BY <1>1, <1>2, MessagesStay DEF MessagesInv, OffersDescribed

\* A handler of one window leaves the connections of the others alone.
LEMMA MessageStaysHome ==
    ASSUME IntroductionInv, NEW w \in Window, HandleMessage(w)
    PROVE  \A v \in Window \ {w} : conns'[v] = conns[v]
<1>1. \A m : HandleSessionUpdate(w, m) => \A v \in Window \ {w} : conns'[v] = conns[v]
  BY DEF HandleSessionUpdate, IntroductionInv, ConnsInv, ConnsFit
<1>2. \A m : HandleOffer(w, m) => \A v \in Window \ {w} : conns'[v] = conns[v]
  BY DEF HandleOffer, IntroductionInv, ConnsInv, ConnsFit
<1>3. Fail(w) => \A v \in Window \ {w} : conns'[v] = conns[v]
  BY DEF Fail, DropServers, IntroductionInv, ConnsInv, ConnsFit
<1>4. \A m : HandleAnswer(w, m) => \A v \in Window \ {w} : conns'[v] = conns[v]
  BY <1>3 DEF HandleAnswer, IntroductionInv, ConnsInv, ConnsFit
<1>5. \A m : HandleIceCandidate(w, m) => \A v \in Window \ {w} : conns'[v] = conns[v]
  BY <1>3 DEF HandleIceCandidate, stateVars
<1> QED  BY <1>1, <1>2, <1>4, <1>5 DEF HandleMessage, stateVars

\* What handle_offer makes answers the offer; handle_session_update makes offers.
LEMMA OnlyOffersAreAnswered ==
    ASSUME IntroductionInv, NEW w \in Window, HandleMessage(w),
           NEW n \in DOMAIN conns'[w] \ DOMAIN conns[w], conns'[w][n].role = "answer"
    PROVE  LET m == Head(down[w]) IN
           /\ m \in Command /\ m.kind = "Offer"
           /\ conns'[w][n].peer = m.from /\ conns'[w][n].remote = m.sdp
<1> DEFINE m == Head(down[w])
<1>1. m \in Heard(w) /\ m \in Command
  BY HeadTailProperties DEF HandleMessage, IntroductionInv, ServerInv, OffersGoUp, OffersArrive
<1>2. conns[w] \in Seq(Conn) /\ Len(conns[w]) \in Nat /\ DOMAIN conns[w] = 1 .. Len(conns[w])
  BY LenProperties DEF IntroductionInv, ConnsInv, ConnsFit
<1>3. CASE m.kind = "SessionStatus" /\ HandleSessionUpdate(w, m)
  <2> DEFINE S == {p \in m.online : p > w /\ p \notin online[w]}
  <2>1. IsFiniteSet(S)
    BY <1>1, <1>3, WindowAssumption, FS_Subset DEF Command
  <2>2. Cardinality(S) \in Nat  BY <2>1, FS_CardinalityType
  <2>3. PICK new \in Orders(S) :
            conns' = [conns EXCEPT ![w] = @ \o [k \in DOMAIN new |-> NewConn(new[k], "offer", NoConn)]]
    BY <1>3 DEF HandleSessionUpdate
  <2> DEFINE made == [k \in DOMAIN new |-> NewConn(new[k], "offer", NoConn)]
  <2>4. new \in [1 .. Cardinality(S) -> S]  BY <2>3 DEF Orders
  <2> HIDE DEF S
  <2>5. /\ made \in Seq({made[k] : k \in DOMAIN made})
        /\ Len(made) = Cardinality(S) /\ DOMAIN made = 1 .. Cardinality(S)
    <3>1. made \in [1 .. Cardinality(S) -> {made[k] : k \in DOMAIN made}]  BY <2>4
    <3>2. made \in Seq({made[k] : k \in DOMAIN made})  BY <2>2, <3>1, ListIsSequence
    <3> QED  BY <2>2, <3>1, <3>2, LenProperties
  <2>6. \A k \in DOMAIN made : made[k].role = "offer"  BY DEF NewConn
  <2>7. conns'[w] = conns[w] \o made
    BY <2>3 DEF IntroductionInv, ConnsInv, ConnsFit
  <2> HIDE DEF made
  <2>8. n - Len(conns[w]) \in DOMAIN made /\ conns'[w][n] = made[n - Len(conns[w])]
    <3>1. n \in 1 .. Len(conns[w]) + Len(made) /\ n \notin 1 .. Len(conns[w])
      BY <1>2, <2>2, <2>5, <2>7
    <3> QED  BY <1>2, <2>2, <2>5, <2>7, <3>1
  <2> QED  BY <2>6, <2>8
<1>4. CASE m.kind = "Offer" /\ HandleOffer(w, m)
  <2> DEFINE c == NewConn(m.from, "answer", m.sdp)
  <2>1. conns'[w] = Append(conns[w], c)
    BY <1>4 DEF HandleOffer, IntroductionInv, ConnsInv, ConnsFit
  <2>2. c.peer = m.from /\ c.remote = m.sdp  BY DEF NewConn
  <2>3. conns'[w][n] = c
    <3> HIDE DEF c
    <3> QED  BY <1>2, <2>1
  <2> QED  BY <1>1, <1>4, <2>2, <2>3
<1>5. CASE DOMAIN conns'[w] = DOMAIN conns[w]
  BY <1>5
<1>6. HandleAnswer(w, m) => DOMAIN conns'[w] = DOMAIN conns[w]
  BY <1>2 DEF HandleAnswer, Fail, DropServers, IntroductionInv, ConnsInv, ConnsFit
<1>7. HandleIceCandidate(w, m) => DOMAIN conns'[w] = DOMAIN conns[w]
  BY <1>2 DEF HandleIceCandidate, Fail, DropServers, IntroductionInv, ConnsInv, ConnsFit, stateVars
<1>8. UNCHANGED <<stateVars, raft>> => DOMAIN conns'[w] = DOMAIN conns[w]
  BY DEF stateVars
<1> QED  BY <1>3, <1>4, <1>5, <1>6, <1>7, <1>8 DEF HandleMessage

LEMMA MessageKeepsMessages ==
    ASSUME IntroductionInv, MessagesInv, NEW w \in Window, HandleMessage(w)
    PROVE  MessagesInv'
<1>1. Keeps(conns, conns') /\ UNCHANGED <<openings, up>>
  BY HandleMessageKeeps DEF HandleMessage
<1>2. \A v \in Window \ {w} : conns'[v] = conns[v]  BY MessageStaysHome
<1>3. Described \subseteq Described'  BY <1>1, DescribedStays
<1>4. /\ \A t \in Socket : up[t] \in Seq(Described')
      /\ \A v \in Window : down[v] \in Seq(Described')
  BY <1>3, MessagesStay DEF MessagesInv
<1>5. OffersDescribed'
  <2>1. down[w] # <<>> /\ down' = [down EXCEPT ![w] = Tail(down[w])]  BY DEF HandleMessage
  <2>2. Tail(down[w]) \in Seq(Described')  BY <1>4, <2>1, HeadTailProperties
  <2>3. \A v \in Window : down'[v] \in Seq(Described')
    BY <1>4, <2>1, <2>2 DEF IntroductionInv, ServerInv, OffersGoUp
  <2> QED  BY <1>1, <1>4, <2>3 DEF OffersDescribed
<1>6. Untouched'
  <2>1. openings[w] # 0  BY DEF HandleMessage, MessagesInv, Untouched
  <2>2. \A v \in Window \ {w} : down'[v] = down[v]
    BY DEF HandleMessage, IntroductionInv, ServerInv, OffersGoUp
  <2> QED  BY <1>1, <1>2, <2>1, <2>2 DEF MessagesInv, Untouched
<1>7. AnswersDescribed'
  <2> SUFFICES ASSUME NEW v \in Window, NEW n \in DOMAIN conns'[v], conns'[v][n].role = "answer"
               PROVE  \E p, sdp : /\ p = conns'[v][n].peer /\ sdp = conns'[v][n].remote
                                  /\ Refers(p, sdp)'
    BY DEF AnswersDescribed, Refers
  <2>1. CASE n \in DOMAIN conns[v]
    <3>1. SameEnds(conns[v][n], conns'[v][n])  BY <1>1, <2>1 DEF Keeps
    <3>2. /\ conns[v][n].role = "answer" /\ conns'[v][n].peer = conns[v][n].peer
          /\ conns'[v][n].remote = conns[v][n].remote
      BY <3>1 DEF SameEnds, TakesAnswer
    <3>3. conns[v][n].peer \in Window /\ conns[v][n].remote \in Nat \X Nat
      BY <2>1, ConnTypes DEF IntroductionInv, Conn
    <3>4. Refers(conns[v][n].peer, conns[v][n].remote)
      BY <2>1, <3>2 DEF MessagesInv, AnswersDescribed
    <3>5. PICK p \in Window, sdp \in Nat \X Nat : p = conns[v][n].peer /\ sdp = conns[v][n].remote
      BY <3>3
    <3>6. Refers(p, sdp)'  BY <1>1, <3>4, <3>5, RefersStays
    <3> QED  BY <3>2, <3>5, <3>6
  <2>2. CASE n \notin DOMAIN conns[v]
    <3> DEFINE m == Head(down[w])
    <3>1. v = w  BY <1>2, <2>2
    <3>2. m \in Command /\ m.kind = "Offer" /\ conns'[v][n].peer = m.from /\ conns'[v][n].remote = m.sdp
      BY <2>2, <3>1, OnlyOffersAreAnswered
    <3>3. m \in Described
      BY HeadTailProperties DEF HandleMessage, MessagesInv, OffersDescribed
    <3>4. m.from \in Window /\ m.sdp \in Nat \X Nat /\ Refers(m.from, m.sdp)
      BY <3>2, <3>3, SignalTypes DEF Described
    <3> HIDE DEF m
    <3>5. PICK p \in Window, sdp \in Nat \X Nat : p = m.from /\ sdp = m.sdp
      BY <3>4
    <3>6. Refers(p, sdp)'  BY <1>1, <3>4, <3>5, RefersStays
    <3> QED  BY <3>2, <3>5, <3>6
  <2> QED  BY <2>1, <2>2
<1> QED  BY <1>5, <1>6, <1>7 DEF MessagesInv

LEMMA OpenKeepsMessages ==
    ASSUME IntroductionInv, MessagesInv, NEW w \in Window, Open(w)
    PROVE  MessagesInv'
<1>1. Described \subseteq Described'  BY DescribedStays
<1>2. /\ \A t \in Socket : up[t] \in Seq(Described')
      /\ \A v \in Window : down[v] \in Seq(Described')
  BY <1>1, MessagesStay DEF MessagesInv
<1>3. <<Join(w)>> \in Seq(Described')
  BY DEF Join, Described, Command
<1>4. OffersDescribed'
  <2>1. \A t \in Socket : up'[t] = up[t] \/ up'[t] = <<Join(w)>>
    BY DEF Open, IntroductionInv, ServerInv, OffersGoUp
  <2>2. \A v \in Window : down'[v] = down[v] \/ down'[v] = <<>>
    BY DEF Open, IntroductionInv, ServerInv, OffersGoUp
  <2>3. \A S : <<>> \in Seq(S)  BY EmptySeq
  <2> QED  BY <1>2, <1>3, <2>1, <2>2, <2>3 DEF OffersDescribed
<1>5. /\ \A v \in Window \ {w} : openings'[v] = openings[v] /\ conns'[v] = conns[v] /\ down'[v] = down[v]
      /\ openings'[w] = openings[w] + 1 /\ openings[w] \in Nat
      /\ conns'[w] = <<>> /\ DOMAIN conns'[w] = {}
  BY EmptySeq DEF Open, IntroductionInv, ServerInv, OffersGoUp, ConnsInv, ConnsFit
<1>6. Untouched'
  BY <1>5 DEF MessagesInv, Untouched
<1>7. AnswersDescribed'
  <2> SUFFICES ASSUME NEW v \in Window, NEW n \in DOMAIN conns'[v], conns'[v][n].role = "answer"
               PROVE  \E p, sdp : /\ p = conns'[v][n].peer /\ sdp = conns'[v][n].remote
                                  /\ Refers(p, sdp)'
    BY DEF AnswersDescribed, Refers
  <2>1. v # w /\ conns'[v] = conns[v]  BY <1>5
  <2>2. conns[v][n].peer \in Window /\ conns[v][n].remote \in Nat \X Nat
    BY <2>1, ConnTypes DEF IntroductionInv, Conn
  <2>3. Refers(conns[v][n].peer, conns[v][n].remote)
    BY <2>1 DEF MessagesInv, AnswersDescribed
  <2>4. PICK p \in Window, sdp \in Nat \X Nat : p = conns[v][n].peer /\ sdp = conns[v][n].remote
    BY <2>2
  <2>5. Refers(p, sdp)'  BY <2>3, <2>4, RefersStays
  <2> QED  BY <2>1, <2>4, <2>5
<1> QED  BY <1>4, <1>6, <1>7 DEF MessagesInv

-----------------------------------------------------------------------------
(* Channels that were passed on *)

\* The connections of each window that are at a stage stay the same.
Stays(cs, ds) == \A w \in Window : \A st \in Passed : At(ds, w, st) = At(cs, w, st)

\* One connection changes that was not passed on, or keeps its stage.
LEMMA OneStays ==
    ASSUME NEW cs \in [Window -> Seq(Conn)], NEW w \in Window, NEW n \in DOMAIN cs[w],
           NEW d, d.stage = cs[w][n].stage \/ (d.stage \notin Passed /\ cs[w][n].stage \notin Passed),
           NEW ds, ds = [cs EXCEPT ![w] = [cs[w] EXCEPT ![n] = d]]
    PROVE  Stays(cs, ds)
<1>1. \A v \in Window : DOMAIN ds[v] = DOMAIN cs[v]  OBVIOUS
<1>2. \A v \in Window : \A k \in DOMAIN cs[v] :
          ds[v][k] = IF v = w /\ k = n THEN d ELSE cs[v][k]
  OBVIOUS
<1> QED  BY <1>1, <1>2 DEF Stays, At

\* Undisturbed, each connection that answers has the only offer of its peer, and
\* is the only one that has.
LEMMA OnePerPeer ==
    ASSUME ConnsInv, Undisturbed, AnswersPaired, NEW w \in Window,
           NEW n \in DOMAIN conns[w], NEW k \in DOMAIN conns[w],
           conns[w][n].stage \in Passed, conns[w][k].stage \in Passed,
           conns[w][n].peer = conns[w][k].peer
    PROVE  n = k
<1> DEFINE v == conns[w][n].peer
<1>1. /\ Fits(w, conns[w][n]) /\ Fits(w, conns[w][k]) /\ v \in Window
      /\ conns[w][n].role \in {"offer", "answer"} /\ conns[w][k].role \in {"offer", "answer"}
  BY ConnTypes DEF Conn
<1>2. CASE v > w
  <2>1. conns[w][n].role = "offer" /\ conns[w][k].role = "offer"  BY <1>1, <1>2 DEF Fits
  <2> QED  BY <2>1 DEF Undisturbed, IntroducedTwice
<1>3. CASE ~(v > w)
  <2>1. conns[w][n].role = "answer" /\ conns[w][k].role = "answer" /\ w > v
    <3>1. w \in Nat /\ v \in Nat /\ v # w  BY <1>1, WindowAssumption DEF Fits
    <3> QED  BY <1>1, <1>3, <3>1 DEF Fits
  <2>2. Paired(w, n) /\ Paired(w, k)  BY <2>1 DEF AnswersPaired
  <2> DEFINE a == conns[w][n].remote[2]
             b == conns[w][k].remote[2]
  <2>3. /\ a \in DOMAIN conns[v] /\ conns[v][a].peer = w /\ conns[v][a].remote = <<openings[w], n>>
        /\ b \in DOMAIN conns[v] /\ conns[v][b].peer = w /\ conns[v][b].remote = <<openings[w], k>>
    BY <2>2 DEF Paired, Id
  <2> HIDE DEF a, b
  <2>4. conns[v][a].role = "offer" /\ conns[v][b].role = "offer"
    BY <1>1, <2>1, <2>3, ConnTypes DEF Fits
  <2>5. a = b  BY <1>1, <2>3, <2>4 DEF Undisturbed, IntroducedTwice
  <2> QED  BY <2>3, <2>5
<1> QED  BY <1>2, <1>3

\* As long as a step keeps the connections, what is undisturbed was.
LEMMA UndisturbedBefore ==
    ASSUME Keeps(conns, conns'), UNCHANGED openings, Undisturbed'
    PROVE  Undisturbed
<1>1. ASSUME IntroducedTwice PROVE IntroducedTwice'
  BY <1>1 DEF IntroducedTwice, Keeps, SameEnds
<1> QED  BY <1>1 DEF Undisturbed

LEMMA PairStays ==
    ASSUME ConnsInv, Keeps(conns, conns'), UNCHANGED openings,
           NEW w \in Window, NEW n \in DOMAIN conns[w], conns[w][n].role = "answer", Paired(w, n)
    PROVE  Paired(w, n)'
<1> DEFINE v == conns[w][n].peer
           r == conns[w][n].remote
<1>1. v \in Window /\ n \in Nat /\ n # 0  
  BY ConnTypes, LenProperties DEF ConnsInv, ConnsFit
<1>2. /\ conns'[w][n].peer = v /\ conns'[w][n].remote = r
  BY DEF Keeps, SameEnds, TakesAnswer
<1>3. /\ r[1] = openings[v] /\ r[2] \in DOMAIN conns[v]
      /\ conns[v][r[2]].peer = w /\ conns[v][r[2]].remote = Id(w, n)
  BY DEF Paired
<1> HIDE DEF v, r
<1>4. ~TakesAnswer(conns[v][r[2]])
  <2>1. Id(w, n) # NoConn  BY <1>1 DEF Id, NoConn
  <2> QED  BY <1>3, <2>1 DEF TakesAnswer
<1>5. r[2] \in DOMAIN conns'[v] /\ conns'[v][r[2]].peer = w /\ conns'[v][r[2]].remote = Id(w, n)
  BY <1>1, <1>3, <1>4 DEF Keeps, SameEnds
<1> QED  BY <1>2, <1>3, <1>5 DEF Paired, Id

\* What was passed on stays paired, and so does what is paired when passed on.
LEMMA PairsStay ==
    ASSUME ConnsInv, Keeps(conns, conns'), UNCHANGED openings, AnswersPaired,
           \A w \in Window : \A n \in DOMAIN conns'[w] :
               conns'[w][n].stage \in Passed =>
                   /\ n \in DOMAIN conns[w]
                   /\ conns[w][n].role = "answer" => conns[w][n].stage \in Passed \/ Paired(w, n)
    PROVE  AnswersPaired'
<1> SUFFICES ASSUME NEW w \in Window, NEW n \in DOMAIN conns'[w],
                    conns'[w][n].role = "answer", conns'[w][n].stage \in Passed
             PROVE  Paired(w, n)'
  BY DEF AnswersPaired
<1>1. n \in DOMAIN conns[w] /\ conns[w][n].role = "answer"
  BY DEF Keeps, SameEnds
<1>2. Paired(w, n)  BY <1>1 DEF AnswersPaired
<1> QED  BY <1>1, <1>2, PairStays

LEMMA HeldIsFinite ==
    ASSUME ConnsInv, NEW w \in Window
    PROVE  IsFiniteSet(DOMAIN conns[w]) /\ IsFiniteSet(Held(w)) /\ Cardinality(Held(w)) \in Nat
<1>1. Len(conns[w]) \in Nat /\ DOMAIN conns[w] = 1 .. Len(conns[w])
  BY LenProperties DEF ConnsInv, ConnsFit
<1>2. IsFiniteSet(DOMAIN conns[w])  BY <1>1, FS_Interval
<1>3. IsFiniteSet(Held(w))  BY <1>2, FS_Subset DEF Held
<1> QED  BY <1>2, <1>3, FS_CardinalityType

LEMMA CountedStays ==
    ASSUME ConnsInv, Counted, Keeps(conns, conns'), NEW w \in Window,
           At(conns', w, "held") = At(conns, w, "held"), raft'[w] = raft[w], clients'[w] = clients[w]
    PROVE  raft'[w] = "bootstrap" =>
               clients'[w] = PeersOf(w, Held(w))' /\ Cardinality(Held(w))' < ClusterSize - 1
<1>1. Held(w)' = Held(w)  BY DEF Held, At
<1>2. \A n \in Held(w) : conns'[w][n].peer = conns[w][n].peer
  BY DEF Held, Keeps, SameEnds
<1>3. PeersOf(w, Held(w))' = PeersOf(w, Held(w))  BY <1>1, <1>2 DEF PeersOf
<1> QED  BY <1>1, <1>3 DEF Counted

\* A step that passes nothing on and starts nothing.
LEMMA QuietStep ==
    ASSUME ConnsInv, ChannelsInv, Keeps(conns, conns'), UNCHANGED <<openings, peer_rx, raft, clients, stored>>,
           Stays(conns, conns')
    PROVE  ChannelsInv'
<1>1. Queued'
  BY DEF ChannelsInv, Queued, Stays, Passed
<1>2. Counted'
  <2>1. \A w \in Window : At(conns', w, "held") = At(conns, w, "held")  BY DEF Stays, Passed
  <2> QED  BY <2>1, CountedStays DEF Counted, ChannelsInv
<1>3. ASSUME Undisturbed' PROVE AnswersPaired' /\ StoredWhole'
  <2>1. AnswersPaired /\ StoredWhole  BY <1>3, UndisturbedBefore DEF ChannelsInv
  <2>2. \A w \in Window : \A n \in DOMAIN conns'[w] : conns'[w][n].stage \in Passed =>
            n \in DOMAIN conns[w] /\ conns[w][n].stage \in Passed
    <3> SUFFICES ASSUME NEW w \in Window, NEW n \in DOMAIN conns'[w], NEW st \in Passed,
                        conns'[w][n].stage = st
                 PROVE  n \in DOMAIN conns[w] /\ conns[w][n].stage \in Passed
      OBVIOUS
    <3>1. n \in At(conns', w, st)  BY DEF At
    <3>2. n \in At(conns, w, st)  BY <3>1 DEF Stays
    <3> QED  BY <3>2 DEF At
  <2>3. AnswersPaired'  BY <2>1, <2>2, PairsStay
  <2> QED  BY <2>1, <2>3 DEF StoredWhole
<1> QED  BY <1>1, <1>2, <1>3 DEF ChannelsInv

\* A sequence that another element is appended to.
LEMMA PassedOnOnce ==
    ASSUME NEW S, NEW q \in Seq(S), IsInjective(q), NEW e, e \notin S
    PROVE  Append(q, e) \in Seq(S \cup {e}) /\ IsInjective(Append(q, e))
<1>1. q \in Seq(S \cup {e})
  BY SeqMonotonic, S \subseteq S \cup {e}
<1>2. /\ Len(q) \in Nat /\ DOMAIN q = 1 .. Len(q) /\ \A x \in DOMAIN q : q[x] \in S
  BY LenProperties, ElementOfSeq
<1>3. /\ Append(q, e) \in Seq(S \cup {e}) /\ DOMAIN Append(q, e) = 1 .. Len(q) + 1
      /\ \A x \in DOMAIN q : Append(q, e)[x] = q[x]
      /\ Append(q, e)[Len(q) + 1] = e
  BY <1>1, <1>2, AppendProperties
<1>4. ASSUME NEW x \in DOMAIN Append(q, e), NEW y \in DOMAIN Append(q, e),
             Append(q, e)[x] = Append(q, e)[y]
      PROVE  x = y
  <2>1. /\ x \in DOMAIN q \/ x = Len(q) + 1
        /\ y \in DOMAIN q \/ y = Len(q) + 1
    BY <1>2, <1>3
  <2>2. CASE x \in DOMAIN q /\ y \in DOMAIN q
    BY <1>3, <1>4, <2>2 DEF IsInjective
  <2> QED  BY <1>2, <1>3, <1>4, <2>1, <2>2
<1> QED  BY <1>3, <1>4 DEF IsInjective

LEMMA StartedOnce ==
    ASSUME NEW S, NEW q \in Seq(S), q # <<>>, IsInjective(q)
    PROVE  /\ Head(q) \in S /\ Tail(q) \in Seq(S \ {Head(q)}) /\ IsInjective(Tail(q))
<1>1. /\ Head(q) \in S /\ Tail(q) \in Seq(S) /\ Len(Tail(q)) = Len(q) - 1 /\ Head(q) = q[1]
      /\ \A i \in 1 .. Len(Tail(q)) : Tail(q)[i] = q[i + 1]
  BY HeadTailProperties
<1>2. /\ Len(q) \in Nat /\ Len(q) > 0 /\ DOMAIN q = 1 .. Len(q)
      /\ DOMAIN Tail(q) = 1 .. Len(Tail(q))
  BY <1>1, LenProperties, EmptySeq
<1>3. \A i, j \in DOMAIN q : q[i] = q[j] => i = j  BY DEF IsInjective
<1>4. \A i \in DOMAIN Tail(q) : i + 1 \in DOMAIN q /\ Tail(q)[i] = q[i + 1] /\ Tail(q)[i] # q[1]
  BY <1>1, <1>2, <1>3
<1>5. Tail(q) \in [1 .. Len(Tail(q)) -> S \ {Head(q)}]
  <2>1. \A i \in DOMAIN Tail(q) : Tail(q)[i] \in S \ {Head(q)}
    BY <1>1, <1>2, <1>4, ElementOfSeq
  <2>2. Tail(q) \in [1 .. Len(Tail(q)) -> S]  BY <1>1, LenProperties
  <2> QED  BY <1>2, <2>1, <2>2
<1>6. Tail(q) \in Seq(S \ {Head(q)})
  <2>1. Len(Tail(q)) \in Nat  BY <1>1, LenProperties
  <2> QED  BY <1>5, <2>1, ListIsSequence
<1>7. IsInjective(Tail(q))
  <2> SUFFICES ASSUME NEW i \in DOMAIN Tail(q), NEW j \in DOMAIN Tail(q), Tail(q)[i] = Tail(q)[j]
               PROVE  i = j
    BY DEF IsInjective
  <2>1. i + 1 = j + 1  BY <1>3, <1>4
  <2> QED  BY <1>2, <2>1
<1> QED  BY <1>1, <1>6, <1>7

\* send_peer passes a connection on that was not passed on before.
LEMMA SendPeerKeepsChannels ==
    ASSUME ConnsInv, WindowInv, ChannelsInv, NEW w \in Window, NEW n \in DOMAIN conns[w],
           conns[w][n].stage \notin Passed, conns[w][n].role = "answer" => Paired(w, n),
           NEW cs, ConnsFit(cs), Changes(conns, cs), Stays(conns, cs),
           SendPeer(w, n, cs), UNCHANGED <<openings, initiating, raftVars>>, Changes(conns, conns')
    PROVE  ChannelsInv'
<1>1. cs \in [Window -> Seq(Conn)] /\ \A v \in Window : DOMAIN cs[v] = DOMAIN conns[v]
  BY DEF ConnsFit, Changes
<1>2. PICK st \in {"queued", "dropped"} :
          /\ conns' = [cs EXCEPT ![w] = [cs[w] EXCEPT ![n] =
                          [cs[w][n] EXCEPT !.stage = st, !.pc = peers[w][cs[w][n].peer]]]]
          /\ \/ st = "dropped" /\ peer_rx' = peer_rx
             \/ st = "queued" /\ peer_rx' = [peer_rx EXCEPT ![w] = Append(peer_rx[w], n)]
  <2>1. CASE panicked[w] \/ peers[w][cs[w][n].peer] = 0
    BY <2>1 DEF SendPeer
  <2>2. CASE ~(panicked[w] \/ peers[w][cs[w][n].peer] = 0)
    <3>1. CASE initiating[w]  BY <2>2, <3>1 DEF SendPeer
    <3>2. CASE ~initiating[w]
      <4>1. peer_rx' = [peer_rx EXCEPT ![w] = peer_rx[w]]
        BY <2>2, <3>2 DEF SendPeer
      <4>2. peer_rx' = peer_rx  BY <4>1 DEF WindowInv
      <4> QED  BY <2>2, <3>2, <4>2 DEF SendPeer
    <3> QED  BY <3>1, <3>2
  <2> QED  BY <2>1, <2>2
<1>3. \A v \in Window : \A k \in DOMAIN conns[v] :
          conns'[v][k].stage = IF v = w /\ k = n THEN st ELSE cs[v][k].stage
  <2>1. cs[w][n] \in Conn  BY <1>1, LenProperties, ElementOfSeq
  <2>2. [cs[w][n] EXCEPT !.stage = st, !.pc = peers[w][cs[w][n].peer]].stage = st
    BY <2>1 DEF Conn
  <2> DEFINE d == [cs[w][n] EXCEPT !.stage = st, !.pc = peers[w][cs[w][n].peer]]
  <2>3. conns' = [cs EXCEPT ![w] = [cs[w] EXCEPT ![n] = d]] /\ d.stage = st  BY <1>2, <2>2
  <2> HIDE DEF d
  <2> QED  BY <1>1, <2>3
<1>4. \A v \in Window : DOMAIN conns'[v] = DOMAIN conns[v]  BY DEF Changes
<1>5. n \notin At(conns, w, "queued") /\ n \notin At(conns, w, "held")  BY DEF At, Passed
<1>6. \A v \in Window : \A s \in Passed : At(cs, v, s) = At(conns, v, s)  BY DEF Stays
<1>7. \A v \in Window : /\ At(conns', v, "held") = At(conns, v, "held")
                        /\ v # w \/ st = "dropped" => At(conns', v, "queued") = At(conns, v, "queued")
                        /\ v = w /\ st = "queued" =>
                              At(conns', v, "queued") = At(conns, v, "queued") \cup {n}
  <2>1. TAKE v \in Window
  <2>2. \A s \in Passed : \A k \in DOMAIN conns[v] : k \in At(cs, v, s) <=> k \in At(conns, v, s)
    BY <1>6
  <2>3. \A s \in Passed : \A k \in DOMAIN conns[v] : cs[v][k].stage = s <=> conns[v][k].stage = s
    BY <1>1, <2>2 DEF At
  <2>4. "held" \in Passed /\ "queued" \in Passed  BY DEF Passed
  <2>5. At(conns', v, "held") = At(conns, v, "held")
    BY <1>2, <1>3, <1>4, <1>5, <2>3, <2>4 DEF At
  <2>6. ASSUME v # w \/ st = "dropped" PROVE At(conns', v, "queued") = At(conns, v, "queued")
    BY <1>3, <1>4, <1>5, <2>3, <2>4, <2>6 DEF At
  <2>7. ASSUME v = w /\ st = "queued" PROVE At(conns', v, "queued") = At(conns, v, "queued") \cup {n}
    BY <1>3, <1>4, <1>5, <2>3, <2>4, <2>7 DEF At
  <2> QED  BY <2>5, <2>6, <2>7
<1>8. Queued'
  <2> SUFFICES ASSUME NEW v \in Window
               PROVE  peer_rx'[v] \in Seq(At(conns', v, "queued")) /\ IsInjective(peer_rx'[v])
    BY DEF Queued
  <2>1. peer_rx[v] \in Seq(At(conns, v, "queued")) /\ IsInjective(peer_rx[v])
    BY DEF ChannelsInv, Queued
  <2>2. CASE st = "dropped"
    BY <1>2, <1>7, <2>1, <2>2
  <2>3. CASE st = "queued" /\ v # w
    <3>1. peer_rx'[v] = peer_rx[v]  BY <1>2, <2>3 DEF WindowInv
    <3> QED  BY <1>7, <2>1, <2>3, <3>1
  <2>4. CASE st = "queued" /\ v = w
    <3>1. peer_rx'[w] = Append(peer_rx[w], n)  BY <1>2, <2>4 DEF WindowInv
    <3>2. At(conns', w, "queued") = At(conns, w, "queued") \cup {n}  BY <1>7, <2>4
    <3> DEFINE S == At(conns, w, "queued")
    <3>3. peer_rx[w] \in Seq(S) /\ IsInjective(peer_rx[w]) /\ n \notin S  BY <1>5, <2>1, <2>4
    <3>4. At(conns', w, "queued") = S \cup {n}  BY <3>2
    <3> HIDE DEF S
    <3>5. Append(peer_rx[w], n) \in Seq(S \cup {n}) /\ IsInjective(Append(peer_rx[w], n))
      BY <3>3, PassedOnOnce
    <3> QED  BY <2>4, <3>1, <3>4, <3>5
  <2> QED  BY <2>2, <2>3, <2>4
<1>9. Counted'
  <2>1. UNCHANGED <<raft, clients>> /\ Keeps(conns, conns')  BY DEF raftVars, Changes
  <2> QED  BY <1>7, <2>1, CountedStays DEF Counted, ChannelsInv
<1>10. ASSUME Undisturbed' PROVE AnswersPaired' /\ StoredWhole'
  <2>1. AnswersPaired /\ StoredWhole  BY <1>10, UndisturbedBefore DEF ChannelsInv, Changes
  <2>2. \A v \in Window : \A k \in DOMAIN conns'[v] : conns'[v][k].stage \in Passed =>
            k \in DOMAIN conns[v] /\ (conns[v][k].stage \in Passed \/ (v = w /\ k = n))
    BY <1>4, <1>7 DEF At, Passed
  <2>3. AnswersPaired'  BY <2>1, <2>2, PairsStay DEF Changes
  <2> QED  BY <2>1, <2>3 DEF StoredWhole, raftVars
<1> QED  BY <1>8, <1>9, <1>10 DEF ChannelsInv

LEMMA DropStage ==
    ASSUME NEW c \in Conn, NEW dropped, NEW shut
    PROVE  Drop(c, dropped, shut).stage = IF dropped THEN "closed" ELSE c.stage
<1> DEFINE st == IF dropped THEN "closed" ELSE c.stage
           b == c.shut \/ shut
<1>1. Drop(c, dropped, shut) = [c EXCEPT !.stage = st, !.shut = b]
  BY Zenon DEF Drop
<1> HIDE DEF st, b
<1>2. [c EXCEPT !.stage = st, !.shut = b].stage = st  BY Zenon DEF Conn
<1> QED  BY <1>1, <1>2, Zenon DEF st

\* The servers that are dropped are closed, and nothing else is.
LEMMA DroppedStages ==
    ASSUME ConnsInv, NEW w \in Window, NEW ns, DropServers(w, ns)
    PROVE  /\ \A v \in Window \ {w} : conns'[v] = conns[v]
           /\ DOMAIN conns'[w] = DOMAIN conns[w]
           /\ \A n \in DOMAIN conns[w] :
                 conns'[w][n].stage = IF n \in ns THEN "closed" ELSE conns[w][n].stage
<1> DEFINE shut(n) == \E k \in ns : conns[w][k].pc = n
           d(n) == Drop(conns[w][n], n \in ns, shut(n))
<1>1. \A n \in DOMAIN conns[w] : d(n).stage = IF n \in ns THEN "closed" ELSE conns[w][n].stage
  <2>1. TAKE n \in DOMAIN conns[w]
  <2>2. conns[w][n] \in Conn  BY ConnTypes
  <2> HIDE DEF shut
  <2>3. Drop(conns[w][n], n \in ns, shut(n)).stage = IF n \in ns THEN "closed" ELSE conns[w][n].stage
    BY <2>2, DropStage, Zenon
  <2> QED  BY <2>3, Zenon
<1>2. conns' = [conns EXCEPT ![w] = [n \in DOMAIN conns[w] |-> d(n)]]  BY DEF DropServers
<1> HIDE DEF d
<1> QED  BY <1>1, <1>2 DEF ConnsInv, ConnsFit

\* A failed bootstrap holds nothing.
LEMMA FailKeepsChannels ==
    ASSUME ConnsInv, WindowInv, ChannelsInv, NEW w \in Window, Fail(w),
           UNCHANGED <<openings, peers, panicked, repeats, clients, stored>>
    PROVE  ChannelsInv'
<1>1. Changes(conns, conns')  BY FailKeeps
<1>2. /\ \A v \in Window \ {w} : conns'[v] = conns[v]
      /\ DOMAIN conns'[w] = DOMAIN conns[w]
      /\ \A n \in DOMAIN conns[w] :
            conns'[w][n].stage = IF n \in Held(w) THEN "closed" ELSE conns[w][n].stage
  BY DroppedStages DEF Fail
<1>3. /\ \A v \in Window \ {w} : peer_rx'[v] = peer_rx[v] /\ raft'[v] = raft[v]
      /\ peer_rx'[w] = <<>> /\ raft'[w] = "ended"
  BY DEF Fail, WindowInv
<1>4. \A v \in Window \ {w} : \A st \in Passed : At(conns', v, st) = At(conns, v, st)
  BY <1>2 DEF At
<1>5. Queued'
  <2>1. \A S : <<>> \in Seq(S) /\ IsInjective(<<>>)  BY EmptySeq DEF IsInjective
  <2> QED  BY <1>3, <1>4, <2>1 DEF ChannelsInv, Queued, Passed
<1>6. Counted'
  <2>1. \A v \in Window \ {w} : At(conns', v, "held") = At(conns, v, "held") /\ clients'[v] = clients[v]
    BY <1>4 DEF Passed
  <2> QED  BY <1>1, <1>3, <2>1, CountedStays DEF Counted, Changes, ChannelsInv
<1>7. ASSUME Undisturbed' PROVE AnswersPaired' /\ StoredWhole'
  <2>1. AnswersPaired /\ StoredWhole  BY <1>1, <1>7, UndisturbedBefore DEF ChannelsInv, Changes
  <2>2. \A v \in Window : \A n \in DOMAIN conns'[v] : conns'[v][n].stage \in Passed =>
            n \in DOMAIN conns[v] /\ conns[v][n].stage \in Passed
    BY <1>2 DEF Passed
  <2>3. AnswersPaired'  BY <1>1, <2>1, <2>2, PairsStay DEF Changes
  <2> QED  BY <2>1, <2>3 DEF StoredWhole
<1> QED  BY <1>5, <1>6, <1>7 DEF ChannelsInv

\* New connections were not passed on.
LEMMA MadeStays ==
    ASSUME NEW cs \in [Window -> Seq(Conn)], NEW w \in Window, NEW new \in Seq(Conn),
           \A n \in DOMAIN new : new[n].stage \notin Passed,
           NEW ds, ds = [cs EXCEPT ![w] = cs[w] \o new]
    PROVE  Stays(cs, ds)
<1>1. \A v \in Window \ {w} : ds[v] = cs[v]  OBVIOUS
<1>2. ds[w] = cs[w] \o new /\ cs[w] \in Seq(Conn)  OBVIOUS
<1>3. /\ Len(cs[w]) \in Nat /\ Len(new) \in Nat /\ DOMAIN cs[w] = 1 .. Len(cs[w])
      /\ DOMAIN new = 1 .. Len(new) /\ DOMAIN ds[w] = 1 .. Len(cs[w]) + Len(new)
  BY <1>2, LenProperties, ConcatProperties
<1>4. /\ \A n \in DOMAIN cs[w] : n \in DOMAIN ds[w] /\ ds[w][n] = cs[w][n]
      /\ \A n \in DOMAIN ds[w] \ DOMAIN cs[w] : ds[w][n].stage \notin Passed
  <2>1. \A n \in DOMAIN cs[w] : n \in DOMAIN ds[w] /\ ds[w][n] = cs[w][n]
    BY <1>2, <1>3, ConcatProperties
  <2>2. \A n \in DOMAIN ds[w] \ DOMAIN cs[w] :
            n - Len(cs[w]) \in DOMAIN new /\ ds[w][n] = new[n - Len(cs[w])]
    BY <1>2, <1>3, ConcatProperties
  <2> QED  BY <2>1, <2>2
<1>5. \A st \in Passed : At(ds, w, st) = At(cs, w, st)
  BY <1>4 DEF At
<1> QED  BY <1>1, <1>5 DEF Stays, At

LEMMA NothingPassed ==
    ASSUME ConnsInv, ChannelsInv, UNCHANGED <<openings, conns, peer_rx, raft, clients, stored>>
    PROVE  ChannelsInv'
<1>1. Keeps(conns, conns') /\ Stays(conns, conns')  BY DEF Keeps, SameEnds, Stays
<1> QED  BY <1>1, QuietStep

LEMMA MessageKeepsChannels ==
    ASSUME IntroductionInv, ChannelsInv, NEW w \in Window, HandleMessage(w)
    PROVE  ChannelsInv'
<1> DEFINE m == Head(down[w])
<1>1. /\ UNCHANGED <<openings, clients, stored>> /\ Keeps(conns, conns')
      /\ ConnsInv /\ WindowInv /\ conns \in [Window -> Seq(Conn)]
  BY HandleMessageKeeps DEF HandleMessage, IntroductionInv, ConnsInv, ConnsFit
<1>2. m \in Heard(w) /\ m \in Command
  BY HeadTailProperties DEF HandleMessage, IntroductionInv, ServerInv, OffersGoUp, OffersArrive
<1>3. CASE m.kind = "SessionStatus" /\ HandleSessionUpdate(w, m)
  <2> DEFINE S == {p \in m.online : p > w /\ p \notin online[w]}
  <2>1. S \subseteq Window /\ IsFiniteSet(S)
    BY <1>2, <1>3, WindowAssumption, FS_Subset DEF Command
  <2>2. Cardinality(S) \in Nat  BY <2>1, FS_CardinalityType
  <2>3. PICK new \in Orders(S) :
            conns' = [conns EXCEPT ![w] = @ \o [k \in DOMAIN new |-> NewConn(new[k], "offer", NoConn)]]
    BY <1>3 DEF HandleSessionUpdate
  <2> DEFINE made == [k \in DOMAIN new |-> NewConn(new[k], "offer", NoConn)]
  <2>4. new \in [1 .. Cardinality(S) -> S]  BY <2>3 DEF Orders
  <2> HIDE DEF S
  <2>5. \A k \in DOMAIN new : made[k] \in Conn /\ made[k].stage \notin Passed
    <3>1. NoConn \in Nat \X Nat  BY DEF NoConn
    <3>2. \A p \in Window : NewConn(p, "offer", NoConn) \in Conn  BY <3>1, NewConnFits
    <3>3. \A k \in DOMAIN new : new[k] \in Window  BY <2>1, <2>4
    <3>4. \A p : NewConn(p, "offer", NoConn).stage = "describing"  BY DEF NewConn
    <3> QED  BY <3>2, <3>3, <3>4 DEF Passed
  <2>6. made \in Seq(Conn) /\ \A k \in DOMAIN made : made[k].stage \notin Passed
    <3>1. made \in [1 .. Cardinality(S) -> Conn] /\ DOMAIN made = DOMAIN new  BY <2>4, <2>5
    <3>2. made \in Seq(Conn)  BY <2>2, <3>1, ListIsSequence
    <3> HIDE DEF made
    <3> QED  BY <2>5, <3>1, <3>2
  <2>7. conns' = [conns EXCEPT ![w] = conns[w] \o made]  BY <2>3
  <2> HIDE DEF made
  <2>8. Stays(conns, conns')  BY <1>1, <2>6, <2>7, MadeStays
  <2> QED  BY <1>1, <1>3, <2>8, QuietStep DEF HandleSessionUpdate
<1>4. CASE UNCHANGED <<stateVars, raft>>
  BY <1>1, <1>4, NothingPassed DEF stateVars
<1>5. CASE m.kind = "Offer" /\ HandleOffer(w, m)
  <2> DEFINE c == NewConn(m.from, "answer", m.sdp)
  <2>1. c \in Conn
    BY <1>2, <1>5, SignalTypes, NewConnFits
  <2>2. c.stage \notin Passed  BY DEF NewConn, Passed
  <2>3. conns' = [conns EXCEPT ![w] = Append(conns[w], c)]  BY <1>5 DEF HandleOffer
  <2> HIDE DEF c
  <2>4. /\ conns' = [conns EXCEPT ![w] = conns[w] \o <<c>>] /\ <<c>> \in Seq(Conn)
        /\ \A k \in DOMAIN <<c>> : <<c>>[k].stage \notin Passed
    <3>1. conns[w] \in Seq(Conn)  BY <1>1
    <3>2. Append(conns[w], c) = conns[w] \o <<c>>  BY <2>1, <3>1
    <3>3. <<c>> \in Seq(Conn) /\ \A k \in DOMAIN <<c>> : <<c>>[k] = c  BY <2>1
    <3> QED  BY <2>2, <2>3, <3>2, <3>3
  <2>5. Stays(conns, conns')  BY <1>1, <2>4, MadeStays
  <2> QED  BY <1>1, <1>5, <2>5, QuietStep DEF HandleOffer
<1>6. CASE Fail(w) /\ UNCHANGED <<peers, panicked, repeats>>
  BY <1>1, <1>6, FailKeepsChannels
<1>7. CASE m.kind = "Answer" /\ HandleAnswer(w, m)
  <2> DEFINE n == peers[w][m.from]
             d == [conns[w][n] EXCEPT !.remote = m.sdp]
  <2>1. CASE n # 0 /\ TakesAnswer(conns[w][n])
    <3>1. m.from \in Window  BY <1>2, <1>7, SignalTypes
    <3>2. n \in DOMAIN conns[w] /\ conns[w][n] \in Conn
      BY <1>1, <2>1, <3>1, ConnTypes DEF ConnsInv, EntriesMade
    <3>3. d.stage = conns[w][n].stage  BY <3>2 DEF Conn
    <3>4. /\ conns' = [conns EXCEPT ![w] = [conns[w] EXCEPT ![n] = d]]
          /\ UNCHANGED <<peer_rx, raft>>
      BY <1>7, <2>1 DEF HandleAnswer
    <3> HIDE DEF d, n
    <3>5. Stays(conns, conns')  BY <1>1, <3>2, <3>3, <3>4, OneStays
    <3> QED  BY <1>1, <3>4, <3>5, QuietStep
  <2>2. CASE ~(n # 0 /\ TakesAnswer(conns[w][n]))
    <3>1. Fail(w) /\ UNCHANGED <<peers, panicked, repeats>>  BY <1>7, <2>2 DEF HandleAnswer
    <3> QED  BY <1>6, <3>1
  <2> QED  BY <2>1, <2>2
<1>8. CASE HandleIceCandidate(w, m)
  BY <1>4, <1>6, <1>8 DEF HandleIceCandidate
<1> QED
  BY <1>3, <1>4, <1>5, <1>7, <1>8 DEF HandleMessage

\* A connection that moves on before or after its channel is passed on.
LEMMA OneConnKeepsChannels ==
    ASSUME ConnsInv, ChannelsInv, NEW w \in Window, NEW n \in DOMAIN conns[w], NEW d,
           d.stage = conns[w][n].stage \/ (d.stage \notin Passed /\ conns[w][n].stage \notin Passed),
           conns' = [conns EXCEPT ![w] = [conns[w] EXCEPT ![n] = d]], Changes(conns, conns'),
           UNCHANGED <<openings, peer_rx, raft, clients, stored>>
    PROVE  ChannelsInv'
<1>1. Stays(conns, conns')  BY OneStays DEF ConnsInv, ConnsFit
<1> QED  BY <1>1, QuietStep DEF Changes

LEMMA SendOfferKeepsCluster ==
    ASSUME IntroductionInv, ClusterInv, NEW w \in Window, NEW n, SendOffer(w, n)
    PROVE  ClusterInv'
<1> DEFINE d == [conns[w][n] EXCEPT !.stage = "offering"]
<1>1. n \in DOMAIN conns[w] /\ conns[w][n].stage = "describing"  BY DEF SendOffer, In
<1>2. ConnsInv /\ conns[w][n] \in Conn /\ Changes(conns, conns')
  BY <1>1, ConnTypes, SendOfferKeeps DEF IntroductionInv
<1>3. d.stage \notin Passed /\ conns[w][n].stage \notin Passed  BY <1>1, <1>2 DEF Conn, Passed
<1>4. conns' = [conns EXCEPT ![w] = [conns[w] EXCEPT ![n] = d]]  BY DEF SendOffer
<1> HIDE DEF d
<1>5. ChannelsInv'
  BY <1>1, <1>2, <1>3, <1>4, OneConnKeepsChannels DEF SendOffer, raftVars, ClusterInv
<1>6. MessagesInv'
  BY <1>1, <1>2, SendKeepsMessages DEF SendOffer, ClusterInv
<1> QED  BY <1>5, <1>6 DEF ClusterInv

LEMMA RetryOfferKeepsCluster ==
    ASSUME IntroductionInv, ClusterInv, NEW w \in Window, NEW n, RetryOffer(w, n)
    PROVE  ClusterInv'
<1>1. n \in DOMAIN conns[w] /\ ConnsInv /\ Changes(conns, conns')
  BY RetryOfferKeeps DEF RetryOffer, In, IntroductionInv
<1>2. MessagesInv'  BY <1>1, SendKeepsMessages DEF RetryOffer, ClusterInv
<1>3. ChannelsInv'  BY <1>1, NothingPassed DEF RetryOffer, raftVars, ClusterInv
<1> QED  BY <1>2, <1>3 DEF ClusterInv

LEMMA SendAnswerKeepsCluster ==
    ASSUME IntroductionInv, ClusterInv, NEW w \in Window, NEW n, SendAnswer(w, n)
    PROVE  ClusterInv'
<1> DEFINE d == [conns[w][n] EXCEPT !.stage = "answered"]
<1>1. n \in DOMAIN conns[w] /\ conns[w][n].stage = "answering"  BY DEF SendAnswer, In
<1>2. ConnsInv /\ conns[w][n] \in Conn /\ Changes(conns, conns')
  BY <1>1, ConnTypes, SendAnswerKeeps DEF IntroductionInv
<1>3. d.stage \notin Passed /\ conns[w][n].stage \notin Passed  BY <1>1, <1>2 DEF Conn, Passed
<1>4. conns' = [conns EXCEPT ![w] = [conns[w] EXCEPT ![n] = d]]  BY DEF SendAnswer
<1> HIDE DEF d
<1>5. ChannelsInv'
  BY <1>1, <1>2, <1>3, <1>4, OneConnKeepsChannels DEF SendAnswer, raftVars, ClusterInv
<1>6. MessagesInv'
  BY <1>1, <1>2, SendKeepsMessages DEF SendAnswer, ClusterInv
<1> QED  BY <1>5, <1>6 DEF ClusterInv

\* The browsers match the connection that answers with the offer it answers.
LEMMA OpenChannelKeepsCluster ==
    ASSUME IntroductionInv, ClusterInv, NEW w \in Window, NEW n, OpenChannel(w, n)
    PROVE  ClusterInv'
<1> DEFINE v == conns[w][n].peer
           k == conns[w][n].remote[2]
           d == [conns[v][k] EXCEPT !.ack = TRUE]
           cs == [conns EXCEPT ![v][k].ack = TRUE]
<1>1. /\ n \in DOMAIN conns[w] /\ conns[w][n].stage = "answered" /\ SendPeer(w, n, cs)
      /\ conns[w][n].remote[1] = openings[v] /\ Matched(w, n, v, k)
  BY DEF OpenChannel, In
<1>2. v \in Window /\ ConnsInv /\ WindowInv /\ Changes(conns, conns') /\ conns \in [Window -> Seq(Conn)]
  BY <1>1, ConnTypes, OpenChannelKeeps DEF IntroductionInv, ConnsInv, ConnsFit
<1>3. conns[w][n].stage \notin Passed  BY <1>1 DEF Passed
<1>4. cs = [conns EXCEPT ![v] = [conns[v] EXCEPT ![k] = d]]  OBVIOUS
<1>5. conns[w][n].role = "answer" => k \in DOMAIN conns[v] /\ Paired(w, n)
  <2>1. conns[w][n].role = "answer" => Refers(v, conns[w][n].remote)
    BY <1>1 DEF ClusterInv, MessagesInv, AnswersDescribed
  <2> QED  BY <1>1, <2>1 DEF Refers, Paired, Matched
<1> HIDE DEF v, k, cs
<1>6. ConnsFit(cs) /\ Changes(conns, cs) /\ Stays(conns, cs)
  <2>1. CASE k \in DOMAIN conns[v]
    <3>1. conns[v][k] \in Conn  BY <1>2, <2>1, ConnTypes
    <3>2. Becomes(conns[v][k], d)  BY <3>1, ConnChanges
    <3>3. d.stage = conns[v][k].stage  BY <3>1 DEF Conn
    <3> HIDE DEF d
    <3>4. ConnsFit(cs) /\ Changes(conns, cs)
      BY <1>2, <1>4, <2>1, <3>2, OneConnChanges DEF ConnsInv
    <3>5. Stays(conns, cs)  BY <1>2, <1>4, <2>1, <3>3, OneStays
    <3> QED  BY <3>4, <3>5
  <2>2. CASE k \notin DOMAIN conns[v]
    <3>1. conns[v] \in [DOMAIN conns[v] -> Conn]
      BY <1>2, LenProperties
    <3>2. [conns[v] EXCEPT ![k] = d] = conns[v]  BY <2>2, <3>1
    <3>3. cs = conns  BY <1>2, <1>4, <3>2
    <3> QED  BY <1>2, <3>3 DEF ConnsInv, Keeps, Changes, SameEnds, Stays
  <2> QED  BY <2>1, <2>2
<1>7. ChannelsInv'
  BY <1>1, <1>2, <1>3, <1>5, <1>6, SendPeerKeepsChannels DEF OpenChannel, ClusterInv
<1>8. MessagesInv'  BY <1>2, OthersKeepMessages DEF OpenChannel, ClusterInv
<1> QED  BY <1>7, <1>8 DEF ClusterInv

LEMMA ReceiveAckKeepsCluster ==
    ASSUME IntroductionInv, ClusterInv, NEW w \in Window, NEW n, ReceiveAck(w, n)
    PROVE  ClusterInv'
<1>1. n \in DOMAIN conns[w] /\ conns[w][n].stage = "offering" /\ SendPeer(w, n, conns)
  BY DEF ReceiveAck, In
<1>2. ConnsInv /\ WindowInv /\ Changes(conns, conns')
  BY ReceiveAckKeeps DEF IntroductionInv
<1>3. conns[w][n].stage \notin Passed /\ conns[w][n].role # "answer"
  <2>1. Fits(w, conns[w][n])  BY <1>1, <1>2, ConnTypes
  <2> QED  BY <1>1, <2>1 DEF Passed, Fits, Offering
<1>4. ConnsFit(conns) /\ Changes(conns, conns) /\ Stays(conns, conns)
  BY <1>2 DEF ConnsInv, Keeps, Changes, SameEnds, Stays
<1>5. ChannelsInv'
  BY <1>1, <1>2, <1>3, <1>4, SendPeerKeepsChannels DEF ReceiveAck, ClusterInv
<1>6. MessagesInv'  BY <1>2, OthersKeepMessages DEF ReceiveAck, ClusterInv
<1> QED  BY <1>5, <1>6 DEF ClusterInv

LEMMA ChannelClosesKeepsCluster ==
    ASSUME IntroductionInv, ClusterInv, NEW w \in Window, NEW n, ChannelCloses(w, n)
    PROVE  ClusterInv'
<1> DEFINE l == IF conns[w][n].stage \in {"held", "served"} THEN "closed" ELSE "missed"
           d == [conns[w][n] EXCEPT !.link = l]
<1>1. n \in DOMAIN conns[w] /\ conns' = [conns EXCEPT ![w] = [conns[w] EXCEPT ![n] = d]]
  BY DEF ChannelCloses
<1>2. ConnsInv /\ conns[w][n] \in Conn /\ Changes(conns, conns')
  BY <1>1, ConnTypes, ChannelClosesKeeps DEF IntroductionInv
<1> HIDE DEF l
<1>3. d.stage = conns[w][n].stage  BY <1>2 DEF Conn
<1> HIDE DEF d
<1>4. ChannelsInv'
  <2>1. UNCHANGED <<openings, peer_rx, raft, clients, stored>> /\ ChannelsInv
    BY DEF ChannelCloses, raftVars, ClusterInv
  <2> QED  BY <1>1, <1>2, <1>3, <2>1, OneConnKeepsChannels
<1>5. MessagesInv'  BY <1>2, OthersKeepMessages DEF ChannelCloses, ClusterInv
<1> QED  BY <1>4, <1>5 DEF ClusterInv

LEMMA ServeEndsKeepsCluster ==
    ASSUME IntroductionInv, ClusterInv, NEW w \in Window, NEW n, ServeEnds(w, n)
    PROVE  ClusterInv'
<1>1. n \in DOMAIN conns[w] /\ conns[w][n].stage = "served" /\ DropServers(w, {n})
  BY DEF ServeEnds, In
<1>2. ConnsInv /\ Changes(conns, conns')
  BY ServeEndsKeeps DEF IntroductionInv
<1>3. /\ \A v \in Window \ {w} : conns'[v] = conns[v]
      /\ DOMAIN conns'[w] = DOMAIN conns[w]
      /\ \A k \in DOMAIN conns[w] :
            conns'[w][k].stage = IF k \in {n} THEN "closed" ELSE conns[w][k].stage
  BY <1>1, <1>2, DroppedStages
<1>4. Stays(conns, conns')
  <2>1. \A v \in Window \ {w} : \A st \in Passed : At(conns', v, st) = At(conns, v, st)
    BY <1>3 DEF At
  <2>2. \A st \in Passed : At(conns', w, st) = At(conns, w, st)
    BY <1>1, <1>3 DEF At, Passed
  <2> QED  BY <2>1, <2>2 DEF Stays
<1>5. ChannelsInv'
  BY <1>2, <1>4, QuietStep DEF ServeEnds, raftVars, Changes, ClusterInv
<1>6. MessagesInv'  BY <1>2, OthersKeepMessages DEF ServeEnds, ClusterInv
<1> QED  BY <1>5, <1>6 DEF ClusterInv

\* Channels to as many peers.
LEMMA OnePeerEach ==
    ASSUME ConnsInv, Undisturbed, AnswersPaired, NEW w \in Window,
           NEW ns, ns \subseteq DOMAIN conns[w], \A n \in ns : conns[w][n].stage \in Passed
    PROVE  Cardinality(PeersOf(w, ns)) = Cardinality(ns)
<1> DEFINE f == [n \in ns |-> conns[w][n].peer]
<1>1. IsFiniteSet(ns)  BY HeldIsFinite, FS_Subset
<1>2. \A n, k \in ns : conns[w][n].peer = conns[w][k].peer => n = k
  BY OnePerPeer
<1>3. f \in Bijection(ns, PeersOf(w, ns))
  <2>1. f \in [ns -> PeersOf(w, ns)]  BY DEF PeersOf
  <2>2. \A n, k \in ns : f[n] = f[k] => n = k  BY <1>2
  <2>3. \A p \in PeersOf(w, ns) : \E n \in ns : f[n] = p  BY DEF PeersOf
  <2> HIDE DEF f
  <2> QED  BY <2>1, <2>2, <2>3 DEF Bijection, Injection, Surjection, IsInjective
<1>4. ExistsBijection(ns, PeersOf(w, ns))  BY <1>3 DEF ExistsBijection
<1> QED  BY <1>1, <1>4, FS_Bijection

\* The transport that starts is the first in line; the bootstrap holds it, or
\* serves all that it holds.
LEMMA StartedStages ==
    ASSUME ConnsInv, WindowInv, NEW w \in Window, NEW n \in At(conns, w, "queued"),
           BootstrapPeer(w, n) \/ HandleNewPeer(w, n)
    PROVE  /\ \A v \in Window \ {w} : conns'[v] = conns[v]
           /\ DOMAIN conns'[w] = DOMAIN conns[w]
           /\ At(conns', w, "queued") = At(conns, w, "queued") \ {n}
           /\ raft'[w] = "bootstrap" =>
                 /\ BootstrapPeer(w, n) /\ raft[w] = "bootstrap"
                 /\ Cardinality(Held(w)) + 1 < ClusterSize - 1
                 /\ At(conns', w, "held") = Held(w) \cup {n}
           /\ \A k \in DOMAIN conns[w] : conns'[w][k].stage \in Passed => conns[w][k].stage \in Passed
<1> DEFINE complete == Cardinality(Held(w)) + 1 >= ClusterSize - 1
<1>1. /\ n \in DOMAIN conns[w] /\ conns[w][n].stage = "queued"
      /\ \A k \in DOMAIN conns[w] : conns[w][k] \in Conn
  BY ConnTypes DEF At
<1>2. ASSUME BootstrapPeer(w, n)
      PROVE  /\ \A v \in Window \ {w} : conns'[v] = conns[v]
             /\ DOMAIN conns'[w] = DOMAIN conns[w]
             /\ \A k \in DOMAIN conns[w] : conns'[w][k].stage =
                   IF k \in Held(w) \cup {n} THEN (IF complete THEN "served" ELSE "held") ELSE conns[w][k].stage
  <2> DEFINE st == IF complete THEN "served" ELSE "held"
  <2>1. conns' = [conns EXCEPT ![w] = [k \in DOMAIN conns[w] |->
                    IF k \in Held(w) \cup {n} THEN [conns[w][k] EXCEPT !.stage = st] ELSE conns[w][k]]]
    BY <1>2 DEF BootstrapPeer
  <2> HIDE DEF st
  <2>2. \A k \in DOMAIN conns[w] : [conns[w][k] EXCEPT !.stage = st].stage = st
    BY <1>1 DEF Conn
  <2>3. \A k \in DOMAIN conns[w] : conns'[w][k].stage =
            IF k \in Held(w) \cup {n} THEN st ELSE conns[w][k].stage
    BY <2>1, <2>2 DEF ConnsInv, ConnsFit
  <2> QED  BY <2>1, <2>3 DEF ConnsInv, ConnsFit, st
<1>3. ASSUME HandleNewPeer(w, n)
      PROVE  /\ \A v \in Window \ {w} : conns'[v] = conns[v]
             /\ DOMAIN conns'[w] = DOMAIN conns[w] /\ raft'[w] = "running"
             /\ \A k \in DOMAIN conns[w] :
                   conns'[w][k].stage = IF k = n THEN "served" ELSE conns[w][k].stage
  <2> DEFINE d == [conns[w][n] EXCEPT !.stage = "served"]
  <2>1. conns' = [conns EXCEPT ![w] = [conns[w] EXCEPT ![n] = d]]  BY <1>3 DEF HandleNewPeer
  <2>2. d.stage = "served"  BY <1>1 DEF Conn
  <2> HIDE DEF d
  <2>3. conns \in [Window -> Seq(Conn)]  BY DEF ConnsInv, ConnsFit
  <2>4. /\ \A v \in Window \ {w} : conns'[v] = conns[v]
        /\ conns'[w] = [conns[w] EXCEPT ![n] = d]
    BY <2>1, <2>3
  <2> QED  BY <1>1, <1>3, <2>2, <2>4 DEF HandleNewPeer
<1>4. /\ \A k \in DOMAIN conns[w] : k \in Held(w) <=> conns[w][k].stage = "held"
      /\ Held(w) \subseteq DOMAIN conns[w]
  BY DEF Held
<1>5. CASE BootstrapPeer(w, n)
  <2>1. raft[w] = "bootstrap" /\ raft' = [raft EXCEPT ![w] = IF complete THEN "running" ELSE raft[w]]
    BY <1>5 DEF BootstrapPeer
  <2>2. CASE complete
    <3>1. \A k \in DOMAIN conns[w] :
              conns'[w][k].stage = IF k \in Held(w) \cup {n} THEN "served" ELSE conns[w][k].stage
      BY <1>2, <1>5, <2>2
    <3>2. raft'[w] # "bootstrap"
      BY <2>1, <2>2 DEF WindowInv
    <3>3. At(conns', w, "queued") = At(conns, w, "queued") \ {n}
      BY <1>1, <1>2, <1>4, <1>5, <3>1 DEF At
    <3> QED  BY <1>2, <1>5, <3>1, <3>2, <3>3 DEF Passed
  <2>3. CASE ~complete
    <3>1. \A k \in DOMAIN conns[w] :
              conns'[w][k].stage = IF k \in Held(w) \cup {n} THEN "held" ELSE conns[w][k].stage
      BY <1>2, <1>5, <2>3
    <3>2. At(conns', w, "queued") = At(conns, w, "queued") \ {n}
      BY <1>1, <1>2, <1>4, <1>5, <3>1 DEF At
    <3>3. At(conns', w, "held") = Held(w) \cup {n}
      BY <1>1, <1>2, <1>4, <1>5, <3>1 DEF At
    <3>4. \A k \in DOMAIN conns[w] : conns'[w][k].stage \in Passed => conns[w][k].stage \in Passed
      BY <1>1, <1>4, <3>1 DEF Passed
    <3>5. Cardinality(Held(w)) + 1 < ClusterSize - 1
      BY <2>3, HeldIsFinite, BoundsAssumption
    <3> QED  BY <1>2, <1>5, <2>1, <3>2, <3>3, <3>4, <3>5
  <2> QED  BY <2>2, <2>3
<1>6. CASE HandleNewPeer(w, n)
  <2>1. At(conns', w, "queued") = At(conns, w, "queued") \ {n}
    BY <1>1, <1>3, <1>6 DEF At
  <2> QED  BY <1>3, <1>6, <2>1 DEF Passed
<1> QED  BY <1>5, <1>6

\* The configuration is stored when the last channel is there, one to each peer.
LEMMA StartPeerKeepsCluster ==
    ASSUME IntroductionInv, ClusterInv, NEW w \in Window, StartPeer(w)
    PROVE  ClusterInv'
<1> DEFINE n == Head(peer_rx[w])
<1>1. /\ ConnsInv /\ WindowInv /\ ChannelsInv /\ Changes(conns, conns')
      /\ UNCHANGED <<openings, up, down>>
  BY StartPeerKeeps DEF IntroductionInv, StartPeer, ClusterInv
<1>2. /\ n \in At(conns, w, "queued")
      /\ Tail(peer_rx[w]) \in Seq(At(conns, w, "queued") \ {n}) /\ IsInjective(Tail(peer_rx[w]))
  <2> DEFINE S == At(conns, w, "queued")
  <2>1. peer_rx[w] \in Seq(S) /\ peer_rx[w] # <<>> /\ IsInjective(peer_rx[w])
    BY <1>1 DEF ChannelsInv, Queued, StartPeer
  <2> HIDE DEF S
  <2>2. n \in S /\ Tail(peer_rx[w]) \in Seq(S \ {n}) /\ IsInjective(Tail(peer_rx[w]))
    BY <2>1, StartedOnce
  <2> QED  BY <2>2 DEF S
<1>3. /\ BootstrapPeer(w, n) \/ HandleNewPeer(w, n)
      /\ peer_rx' = [peer_rx EXCEPT ![w] = Tail(peer_rx[w])]
      /\ clients' = [clients EXCEPT ![w] = clients[w] \cup {conns[w][n].peer}]
  BY DEF StartPeer
<1> HIDE DEF n
<1>4. /\ \A v \in Window \ {w} : conns'[v] = conns[v]
      /\ DOMAIN conns'[w] = DOMAIN conns[w]
      /\ At(conns', w, "queued") = At(conns, w, "queued") \ {n}
      /\ raft'[w] = "bootstrap" =>
            /\ BootstrapPeer(w, n) /\ raft[w] = "bootstrap"
            /\ Cardinality(Held(w)) + 1 < ClusterSize - 1
            /\ At(conns', w, "held") = Held(w) \cup {n}
      /\ \A k \in DOMAIN conns[w] : conns'[w][k].stage \in Passed => conns[w][k].stage \in Passed
  BY <1>1, <1>2, <1>3, StartedStages
<1>5. /\ n \in DOMAIN conns[w] /\ n \notin Held(w) /\ conns[w][n].stage \in Passed
      /\ Held(w) \subseteq DOMAIN conns[w] /\ \A k \in Held(w) : conns[w][k].stage \in Passed
  BY <1>2 DEF At, Held, Passed
<1>6. \A v \in Window \ {w} : \A st : At(conns', v, st) = At(conns, v, st)
  BY <1>4 DEF At
<1>7. Cardinality(Held(w) \cup {n}) = Cardinality(Held(w)) + 1 /\ Cardinality(Held(w)) \in Nat
  BY <1>1, <1>5, HeldIsFinite, FS_AddElement
<1>8. raft[w] = "bootstrap" =>
          clients'[w] = PeersOf(w, Held(w) \cup {n}) /\ Cardinality(Held(w)) < ClusterSize - 1
  <2>1. ASSUME raft[w] = "bootstrap"
        PROVE  clients[w] = PeersOf(w, Held(w)) /\ Cardinality(Held(w)) < ClusterSize - 1
    BY <1>1, <2>1 DEF ChannelsInv, Counted
  <2>2. clients'[w] = clients[w] \cup {conns[w][n].peer}  BY <1>1, <1>3 DEF WindowInv
  <2>3. PeersOf(w, Held(w) \cup {n}) = PeersOf(w, Held(w)) \cup {conns[w][n].peer}
    BY DEF PeersOf
  <2> QED  BY <2>1, <2>2, <2>3
<1>9. Queued'
  <2>1. /\ \A v \in Window \ {w} : peer_rx'[v] = peer_rx[v]
        /\ peer_rx'[w] = Tail(peer_rx[w])
    BY <1>1, <1>3 DEF WindowInv
  <2>2. ASSUME NEW v \in Window \ {w}
        PROVE  peer_rx'[v] \in Seq(At(conns', v, "queued")) /\ IsInjective(peer_rx'[v])
    <3>1. At(conns', v, "queued") = At(conns, v, "queued")  BY <1>6
    <3>2. peer_rx[v] \in Seq(At(conns, v, "queued")) /\ IsInjective(peer_rx[v])
      BY <1>1 DEF ChannelsInv, Queued
    <3> QED  BY <2>1, <3>1, <3>2
  <2>3. peer_rx'[w] \in Seq(At(conns', w, "queued")) /\ IsInjective(peer_rx'[w])
    BY <1>2, <1>4, <2>1
  <2> QED  BY <2>2, <2>3 DEF Queued
<1>10. Counted'
  <2>1. ASSUME NEW v \in Window \ {w}
        PROVE  raft'[v] = "bootstrap" =>
                   clients'[v] = PeersOf(v, Held(v))' /\ Cardinality(Held(v))' < ClusterSize - 1
    <3>1. raft'[v] = raft[v]  BY <1>1, <1>3 DEF BootstrapPeer, HandleNewPeer, WindowInv
    <3>2. clients'[v] = clients[v]  BY <1>1, <1>3 DEF WindowInv
    <3> QED  BY <1>1, <1>6, <3>1, <3>2, CountedStays DEF Changes, ChannelsInv
  <2>2. ASSUME raft'[w] = "bootstrap"
        PROVE  clients'[w] = PeersOf(w, Held(w))' /\ Cardinality(Held(w))' < ClusterSize - 1
    <3>1. Held(w)' = Held(w) \cup {n}
      <4>1. Held(w)' = At(conns', w, "held")  BY DEF Held, At
      <4> QED  BY <1>4, <2>2, <4>1
    <3>2. \A k \in Held(w) \cup {n} : conns'[w][k].peer = conns[w][k].peer
      BY <1>1, <1>5 DEF Changes, Keeps, SameEnds
    <3>3. PeersOf(w, Held(w))' = PeersOf(w, Held(w) \cup {n})
      BY <3>1, <3>2 DEF PeersOf
    <3>4. Cardinality(Held(w))' < ClusterSize - 1
      BY <1>4, <1>7, <2>2, <3>1
    <3> QED  BY <1>4, <1>8, <2>2, <3>3, <3>4
  <2> QED  BY <2>1, <2>2 DEF Counted
<1>11. ASSUME Undisturbed' PROVE AnswersPaired' /\ StoredWhole'
  <2>1. Undisturbed /\ AnswersPaired /\ StoredWhole
    BY <1>1, <1>11, UndisturbedBefore DEF ChannelsInv, Changes
  <2>2. AnswersPaired'
    <3>1. \A v \in Window : \A k \in DOMAIN conns'[v] : conns'[v][k].stage \in Passed =>
              k \in DOMAIN conns[v] /\ conns[v][k].stage \in Passed
      BY <1>4
    <3> QED  BY <1>1, <2>1, <3>1, PairsStay DEF Changes
  <2>3. CASE UNCHANGED stored
    BY <2>1, <2>2, <2>3 DEF StoredWhole
  <2>4. CASE BootstrapPeer(w, n) /\ Cardinality(Held(w)) + 1 >= ClusterSize - 1
    <3>1. raft[w] = "bootstrap" /\ stored' = [stored EXCEPT ![w] = clients'[w]]
      BY <2>4 DEF BootstrapPeer
    <3>2. Cardinality(PeersOf(w, Held(w) \cup {n})) = Cardinality(Held(w) \cup {n})
      BY <1>1, <1>5, <2>1, OnePeerEach
    <3>3. Cardinality(clients'[w]) = ClusterSize - 1
      BY <1>7, <1>8, <2>4, <3>1, <3>2, BoundsAssumption
    <3>4. \A v \in Window : stored'[v] = IF v = w THEN clients'[w] ELSE stored[v]
      BY <1>1, <3>1 DEF WindowInv
    <3> QED  BY <2>1, <2>2, <3>3, <3>4 DEF StoredWhole
  <2>5. UNCHANGED stored \/ (BootstrapPeer(w, n) /\ Cardinality(Held(w)) + 1 >= ClusterSize - 1)
    <3>1. CASE BootstrapPeer(w, n) /\ ~(Cardinality(Held(w)) + 1 >= ClusterSize - 1)
      <4>1. stored' = [stored EXCEPT ![w] = stored[w]]  BY <3>1 DEF BootstrapPeer
      <4> QED  BY <1>1, <4>1 DEF WindowInv
    <3>2. CASE HandleNewPeer(w, n)  BY <3>2 DEF HandleNewPeer
    <3> QED  BY <1>3, <3>1, <3>2
  <2> QED  BY <2>3, <2>4, <2>5
<1>12. ChannelsInv'  BY <1>9, <1>10, <1>11 DEF ChannelsInv
<1>13. MessagesInv'  BY <1>1, OthersKeepMessages DEF ClusterInv
<1> QED  BY <1>12, <1>13 DEF ClusterInv

\* A window that is opened for the first time had no connections.
LEMMA OpenKeepsCluster ==
    ASSUME IntroductionInv, ClusterInv, NEW w \in Window, Open(w)
    PROVE  ClusterInv'
<1>1. /\ \A v \in Window \ {w} : /\ openings'[v] = openings[v] /\ conns'[v] = conns[v]
                                 /\ peer_rx'[v] = peer_rx[v] /\ raft'[v] = raft[v]
                                 /\ clients'[v] = clients[v]
      /\ openings'[w] = openings[w] + 1 /\ openings[w] \in Nat
      /\ conns'[w] = <<>> /\ DOMAIN conns'[w] = {} /\ peer_rx'[w] = <<>> /\ clients'[w] = {}
      /\ UNCHANGED stored
  BY EmptySeq DEF Open, IntroductionInv, ServerInv, WindowInv, ConnsInv, ConnsFit
<1>2. Queued'
  <2>1. \A S : <<>> \in Seq(S) /\ IsInjective(<<>>)  BY EmptySeq DEF IsInjective
  <2>2. \A v \in Window \ {w} : At(conns', v, "queued") = At(conns, v, "queued")
    BY <1>1 DEF At
  <2> QED  BY <1>1, <2>1, <2>2 DEF Queued, ClusterInv, ChannelsInv
<1>3. Counted'
  <2>1. \A v \in Window \ {w} : Held(v)' = Held(v) /\ PeersOf(v, Held(v))' = PeersOf(v, Held(v))
    BY <1>1 DEF Held, PeersOf
  <2>2. Held(w)' = {} /\ PeersOf(w, Held(w))' = {}
    BY <1>1 DEF Held, PeersOf
  <2>3. Cardinality(Held(w))' < ClusterSize - 1
    BY <2>2, FS_EmptySet, BoundsAssumption
  <2> QED  BY <1>1, <2>1, <2>2, <2>3 DEF Counted, ClusterInv, ChannelsInv
<1>4. ASSUME Undisturbed' PROVE AnswersPaired' /\ StoredWhole'
  <2>1. openings[w] = 0 /\ DOMAIN conns[w] = {}
    <3>1. openings'[w] <= 1  BY <1>4 DEF Undisturbed
    <3>2. openings[w] = 0  BY <1>1, <3>1
    <3> QED  BY <3>2 DEF ClusterInv, MessagesInv, Untouched
  <2>2. Undisturbed
    <3>1. \A v \in Window : openings[v] <= 1  BY <1>1, <1>4, <2>1 DEF Undisturbed
    <3>2. ASSUME IntroducedTwice PROVE IntroducedTwice'
      BY <1>1, <2>1, <3>2 DEF IntroducedTwice
    <3> QED  BY <1>4, <3>1, <3>2 DEF Undisturbed
  <2>3. AnswersPaired /\ StoredWhole  BY <2>2 DEF ClusterInv, ChannelsInv
  <2>4. AnswersPaired'
    <3> SUFFICES ASSUME NEW v \in Window, NEW n \in DOMAIN conns'[v],
                        conns'[v][n].role = "answer", conns'[v][n].stage \in Passed
                 PROVE  Paired(v, n)'
      BY DEF AnswersPaired
    <3>1. v # w /\ conns'[v] = conns[v] /\ openings'[v] = openings[v]  BY <1>1
    <3>2. Paired(v, n) /\ conns[v][n].peer \in Window
      BY <2>3, <3>1, ConnTypes DEF AnswersPaired, IntroductionInv
    <3>3. conns[v][n].peer # w  BY <2>1, <3>2 DEF Paired
    <3> QED  BY <1>1, <3>1, <3>2, <3>3 DEF Paired, Id
  <2> QED  BY <1>1, <2>3, <2>4 DEF StoredWhole
<1>5. MessagesInv'  BY OpenKeepsMessages DEF ClusterInv
<1> QED  BY <1>2, <1>3, <1>4, <1>5 DEF ClusterInv, ChannelsInv

LEMMA ClusterInitHolds == Init => ClusterInv
<1> SUFFICES ASSUME Init PROVE ClusterInv
  OBVIOUS
<1>1. MessagesInv
  BY EmptySeq DEF Init, IntroducerInit, MessagesInv, OffersDescribed, AnswersDescribed, Untouched
<1>2. Queued  BY EmptySeq DEF Init, Queued, IsInjective
<1>3. Counted  BY DEF Init, Counted
<1>4. AnswersPaired /\ StoredWhole  BY EmptySeq DEF Init, AnswersPaired, StoredWhole
<1> QED  BY <1>1, <1>2, <1>3, <1>4 DEF ClusterInv, ChannelsInv

LEMMA ClusterKeeps == IntroductionInv /\ ClusterInv /\ [Next]_vars => ClusterInv'
<1> SUFFICES ASSUME IntroductionInv, ClusterInv, [Next]_vars PROVE ClusterInv'
  OBVIOUS
<1>1. ASSUME NEW s \in Socket, IntroducerStep(s) PROVE ClusterInv'
  <2>1. MessagesInv'  BY <1>1, IntroducerKeepsMessages DEF ClusterInv
  <2>2. UNCHANGED <<openings, conns, peer_rx, raft, clients, stored>>
    BY <1>1 DEF IntroducerStep, stateVars, raftVars, ProcessMessage, Leave, LeaveFails, Return
  <2> QED  BY <2>1, <2>2, NothingPassed DEF ClusterInv, IntroductionInv
<1>2. ASSUME NEW w \in Window, HandleMessage(w) PROVE ClusterInv'
  BY <1>2, MessageKeepsMessages, MessageKeepsChannels DEF ClusterInv
<1>3. ASSUME NEW w \in Window, WindowStep(w) PROVE ClusterInv'
  BY <1>2, <1>3, StartPeerKeepsCluster, SendOfferKeepsCluster, SendAnswerKeepsCluster,
     OpenChannelKeepsCluster, ReceiveAckKeepsCluster, ChannelClosesKeepsCluster,
     ServeEndsKeepsCluster DEF WindowStep
<1>4. ASSUME NEW w \in Window, Open(w) PROVE ClusterInv'
  BY <1>4, OpenKeepsCluster
<1>5. ASSUME NEW w \in Window, NEW n \in DOMAIN conns[w], RetryOffer(w, n) PROVE ClusterInv'
  BY <1>5, RetryOfferKeepsCluster
<1>6. CASE UNCHANGED vars
  <2>1. UNCHANGED <<openings, up, down, conns, peer_rx, raft, clients, stored>>
    BY <1>6 DEF vars, stateVars, raftVars
  <2>2. Changes(conns, conns')  BY <2>1 DEF Changes, Keeps, SameEnds
  <2>3. MessagesInv'  BY <2>1, <2>2, OthersKeepMessages DEF ClusterInv
  <2> QED  BY <2>1, <2>3, NothingPassed DEF ClusterInv, IntroductionInv
<1> QED  BY <1>1, <1>3, <1>4, <1>5, <1>6 DEF Next

LEMMA ClusterInvImpliesWhole == IntroductionInv /\ ClusterInv => ClusterIsWhole
<1> SUFFICES ASSUME IntroductionInv, ClusterInv, NEW w \in Window,
                    stored[w] # {}, Cardinality(stored[w]) # ClusterSize - 1, ~IntroducedTwice
             PROVE  \E v \in Window : openings[v] > 1
  BY DEF ClusterIsWhole
<1>1. ~Undisturbed  BY DEF ClusterInv, ChannelsInv, StoredWhole
<1>2. PICK v \in Window : ~(openings[v] <= 1)  BY <1>1 DEF Undisturbed
<1>3. openings[v] \in Nat  BY DEF IntroductionInv, ServerInv
<1> QED  BY <1>2, <1>3

\* Raft::start counts transports, and the peers it stores are as many, for any
\* number of windows and any cluster size, however often offers are sent again:
\* unless a window was opened again or a peer introduced twice.
THEOREM BootstrapStoresAll == Spec => []ClusterIsWhole
<1>1. Init => IntroductionInv /\ ClusterInv  BY InitHolds, ClusterInitHolds
<1>2. IntroductionInv /\ ClusterInv /\ [Next]_vars => (IntroductionInv /\ ClusterInv)'
  BY NextKeeps, ClusterKeeps
<1> QED  BY <1>1, <1>2, ClusterInvImpliesWhole, PTL DEF Spec

-----------------------------------------------------------------------------
(* No window gives up by itself.  What two windows say to each other is        *)
(* followed through the introducer: one offer, its answer, then the candidate. *)

Signals == {"Offer", "Answer", "IceCandidate"}
Answering == {"answering", "answered"}

\* What the introducer has yet to read from a window.
Line(w) == IF Current(w) \in Socket THEN up[Current(w)] ELSE <<>>

FromTo(x, y) == {m \in Command : m.kind \in Signals /\ m.from = x /\ m.target = y}
Sig(kind, x, y) == {m \in FromTo(x, y) : m.kind = kind}

\* Of a set of messages a sequence has none, at most one, or none before another.
Clear(q, S) == \A i \in DOMAIN q : q[i] \notin S
Once(q, S) == \A i, j \in DOMAIN q : q[i] \in S /\ q[j] \in S => i = j
Led(q, S, T) == \A i \in DOMAIN q : q[i] \in S => \E j \in DOMAIN q : j < i /\ q[j] \in T

\* The same of the way from x to y, on which the introducer passes signals on.
OnWay(S, x, y) == ~(Clear(Line(x), S) /\ Clear(down[y], S))
AtMostOne(S, x, y) ==
    /\ Once(Line(x), S) /\ Once(down[y], S)
    /\ Clear(Line(x), S) \/ Clear(down[y], S)
Follows(S, T, x, y) ==
    /\ Led(down[y], S, T)
    /\ Led(Line(x), S, T) \/ ~Clear(down[y], T)

\* How far the introduction of b, which answers, to a has come.
To(w, v) == {n \in DOMAIN conns[w] : conns[w][n].peer = v}
Offered(a, b) == \E k \in To(a, b) : conns[a][k].stage # "describing"
Replied(a, b) == To(b, a) # {}
Answered(a, b) == \E n \in To(b, a) : conns[b][n].stage # "answering"
Taken(a, b) == \E k \in To(a, b) : conns[a][k].remote # NoConn

OfferWay(a, b) ==
    /\ AtMostOne(Sig("Offer", a, b), a, b)
    /\ OnWay(Sig("Offer", a, b), a, b) => Offered(a, b) /\ ~Replied(a, b)
    /\ Replied(a, b) => Offered(a, b)

AnswerWay(a, b) ==
    /\ AtMostOne(Sig("Answer", b, a), b, a)
    /\ OnWay(Sig("Answer", b, a), b, a) => Answered(a, b) /\ ~Taken(a, b)
    /\ Taken(a, b) => Answered(a, b)

CandidateWay(a, b) ==
    /\ OnWay(Sig("IceCandidate", b, a), b, a) => Answered(a, b)
    /\ Taken(a, b) \/ Follows(Sig("IceCandidate", b, a), Sig("Answer", b, a), b, a)

\* peers has the connection that each window has to send_peer.
OfferEntry(a, b) ==
    \A k \in To(a, b) :
        /\ conns[a][k].stage \notin Answering
        /\ conns[a][k].stage = "offering" => peers[a][b] = k
        /\ conns[a][k].remote = NoConn => conns[a][k].stage \in Offering /\ ~conns[a][k].ack
AnswerEntry(a, b) ==
    /\ \A n \in To(b, a) : conns[b][n].stage \in Answering => peers[b][a] = n
    /\ \A n, k \in To(b, a) : n = k

\* The window that offers does not answer.
OneWay(a, b) ==
    ~OnWay(Sig("Answer", a, b), a, b) /\ ~OnWay(Sig("IceCandidate", a, b), a, b)

Handshake(a, b) ==
    /\ OfferWay(a, b) /\ AnswerWay(a, b) /\ CandidateWay(a, b) /\ OneWay(a, b)
    /\ OfferEntry(a, b) /\ AnswerEntry(a, b)

\* Who was told something hears what follows.
Listening == \A w \in Window : DOMAIN conns[w] # {} \/ down[w] # <<>> => Current(w) \in subscribed

\* A window signs what it says to another, and describes what it answers with.
Proper(m) ==
    /\ m.kind \in Signals => m.from # m.target
    /\ m.kind = "Answer" => m.sdp # NoConn
Unsigned(w) == {m \in Command : ~Proper(m) \/ (m.kind \in Signals /\ m.from # w)}
Stray(w) == {m \in Command : ~Proper(m) \/ (m.kind \in Signals /\ m.target # w)}
Signed ==
    /\ \A s \in Socket : Clear(up[s], Unsigned(s[1]))
    /\ \A w \in Window : Clear(down[w], Stray(w))

Calm == repeats = 0 /\ ~IntroducedTwice

OneSocket == \A s \in Socket : up[s] # <<>> => s = Current(s[1])
Handshakes == \A a, b \in Window : a < b => Handshake(a, b)
NoneGaveUp == \A w \in Window : Opened(w) => initiating[w] /\ ~panicked[w]

HandshakeInv ==
    /\ Listening
    /\ Signed
    /\ \A w \in Window : openings[w] > 1 => repeats > 0
    /\ Calm => OneSocket /\ Handshakes /\ NoneGaveUp

LEMMA TailOf ==
    ASSUME NEW U, NEW q \in Seq(U), q # <<>>
    PROVE  /\ \A S : Clear(q, S) => Clear(Tail(q), S)
           /\ \A S : Once(q, S) => Once(Tail(q), S) /\ (Head(q) \in S => Clear(Tail(q), S))
           /\ \A S, T : Led(q, S, T) =>
                 Head(q) \notin S /\ (Head(q) \notin T => Led(Tail(q), S, T))
<1>1. /\ Len(q) \in Nat /\ Len(q) > 0 /\ DOMAIN q = 1 .. Len(q) /\ Head(q) = q[1]
      /\ DOMAIN Tail(q) = 1 .. Len(q) - 1 /\ \A i \in DOMAIN Tail(q) : Tail(q)[i] = q[i + 1]
  BY HeadTailProperties, LenProperties, EmptySeq
<1>2. \A i \in DOMAIN Tail(q) : i \in Nat /\ i + 1 \in DOMAIN q /\ i + 1 # 1 /\ Tail(q)[i] = q[i + 1]
  BY <1>1
<1>3. \A S : Clear(q, S) => Clear(Tail(q), S)
  BY <1>2 DEF Clear
<1>4. ASSUME NEW S, Once(q, S) PROVE Once(Tail(q), S) /\ (Head(q) \in S => Clear(Tail(q), S))
  <2>1. \A i, j \in DOMAIN Tail(q) : Tail(q)[i] \in S /\ Tail(q)[j] \in S => i + 1 = j + 1
    BY <1>2, <1>4 DEF Once
  <2>2. Once(Tail(q), S)  BY <1>2, <2>1 DEF Once
  <2>3. 1 \in DOMAIN q  BY <1>1
  <2>4. Head(q) \in S => Clear(Tail(q), S)  BY <1>1, <1>2, <1>4, <2>3 DEF Once, Clear
  <2> QED  BY <2>2, <2>4
<1>5. ASSUME NEW S, NEW T, Led(q, S, T)
      PROVE  Head(q) \notin S /\ (Head(q) \notin T => Led(Tail(q), S, T))
  <2>1. Head(q) \notin S
    <3>1. 1 \in DOMAIN q /\ \A j \in DOMAIN q : ~(j < 1)  BY <1>1
    <3> QED  BY <1>1, <1>5, <3>1 DEF Led
  <2>2. ASSUME Head(q) \notin T, NEW i \in DOMAIN Tail(q), Tail(q)[i] \in S
        PROVE  \E j \in DOMAIN Tail(q) : j < i /\ Tail(q)[j] \in T
    <3>1. PICK j \in DOMAIN q : j < i + 1 /\ q[j] \in T  BY <1>2, <1>5, <2>2 DEF Led
    <3>2. j # 1  BY <1>1, <2>2, <3>1
    <3>3. j - 1 \in DOMAIN Tail(q) /\ j - 1 < i /\ Tail(q)[j - 1] = q[(j - 1) + 1] /\ (j - 1) + 1 = j
      BY <1>1, <1>2, <3>1, <3>2
    <3> QED  BY <3>1, <3>3
  <2> QED  BY <2>1, <2>2 DEF Led
<1> QED  BY <1>3, <1>4, <1>5

LEMMA AppendOf ==
    ASSUME NEW U, NEW q \in Seq(U), NEW e \in U
    PROVE  /\ \A S : Clear(Append(q, e), S) <=> Clear(q, S) /\ e \notin S
           /\ \A S : Once(q, S) /\ (e \in S => Clear(q, S)) => Once(Append(q, e), S)
           /\ \A S, T : Led(q, S, T) /\ (e \in S => ~Clear(q, T)) => Led(Append(q, e), S, T)
<1>1. /\ Len(q) \in Nat /\ DOMAIN q = 1 .. Len(q)
      /\ DOMAIN Append(q, e) = 1 .. Len(q) + 1
      /\ \A i \in DOMAIN q : Append(q, e)[i] = q[i]
      /\ Append(q, e)[Len(q) + 1] = e
  BY LenProperties, AppendProperties
<1> DEFINE r == Append(q, e)
           n == Len(q) + 1
<1>2. /\ \A i \in DOMAIN q : i \in DOMAIN r /\ i < n /\ r[i] = q[i]
      /\ n \in DOMAIN r /\ r[n] = e /\ \A i \in DOMAIN r : i \in DOMAIN q \/ i = n
  BY <1>1
<1> HIDE DEF r, n
<1>3. \A S : Clear(r, S) <=> Clear(q, S) /\ e \notin S
  BY <1>2 DEF Clear
<1>4. \A S : Once(q, S) /\ (e \in S => Clear(q, S)) => Once(r, S)
  BY <1>2 DEF Once, Clear
<1>5. ASSUME NEW S, NEW T, Led(q, S, T), e \in S => ~Clear(q, T), NEW i \in DOMAIN r, r[i] \in S
      PROVE  \E j \in DOMAIN r : j < i /\ r[j] \in T
  <2>1. CASE i \in DOMAIN q
    <3>1. PICK j \in DOMAIN q : j < i /\ q[j] \in T  BY <1>2, <1>5, <2>1 DEF Led
    <3> QED  BY <1>2, <3>1
  <2>2. CASE i = n
    <3>1. PICK j \in DOMAIN q : q[j] \in T  BY <1>2, <1>5, <2>2 DEF Clear
    <3> QED  BY <1>2, <2>2, <3>1
  <2> QED  BY <1>2, <2>1, <2>2
<1>6. \A S, T : Led(q, S, T) /\ (e \in S => ~Clear(q, T)) => Led(r, S, T)
  BY <1>5 DEF Led
<1> QED  BY <1>3, <1>4, <1>6 DEF r

LEMMA EmptyOf ==
    \A S, T : Clear(<<>>, S) /\ Once(<<>>, S) /\ Led(<<>>, S, T)
BY EmptySeq DEF Clear, Once, Led

\* Nothing follows what is not there.
LEMMA ClearOf ==
    ASSUME NEW q, NEW S, NEW T, Clear(q, S)
    PROVE  Once(q, S) /\ Led(q, S, T)
BY DEF Clear, Once, Led

LEMMA LineType ==
    ASSUME ServerInv, NEW w \in Window
    PROVE  Line(w) \in Seq(Sent) /\ down[w] \in Seq(Command)
BY EmptySeq DEF Line, ServerInv, OffersGoUp

\* On a way one of four things happens: something else arrives, something else
\* leaves, the next message is passed on, or it is lost.
Passes(x, y) ==
    \/ Line(x)' = Line(x) /\ (down'[y] = down[y] \/ \E e \in Command \ FromTo(x, y) : down'[y] = Append(down[y], e))
    \/ /\ Line(x) # <<>> /\ Line(x)' = Tail(Line(x)) /\ Head(Line(x)) \notin FromTo(x, y)
       /\ down'[y] = down[y] \/ \E e \in Command \ FromTo(x, y) : down'[y] = Append(down[y], e)
    \/ /\ Line(x) # <<>> /\ Line(x)' = Tail(Line(x)) /\ Head(Line(x)) \in FromTo(x, y)
       /\ down'[y] = Append(down[y], Head(Line(x))) \/ (down'[y] = down[y] /\ Current(y) \notin subscribed)

LEMMA IntroducerPasses ==
    ASSUME ServerInv, Signed, \A t \in Socket : up[t] # <<>> => t = Current(t[1]),
           NEW s \in Socket, IntroducerStep(s), NEW x \in Window, NEW y \in Window
    PROVE  Passes(x, y)
<1>1. UNCHANGED openings /\ up \in [Socket -> Seq(Sent)] /\ s[1] \in Window
  BY DEF IntroducerStep, ProcessMessage, Leave, LeaveFails, Return, ServerInv, OffersGoUp, Socket
<1>2. \A on \in SUBSET Window : SessionStatus(on) \in Command \ FromTo(x, y)
  BY DEF SessionStatus, Command, FromTo, Signals
<1>3. \A cmd \in Command \ FromTo(x, y) : \A receivers : Broadcast(cmd, receivers) =>
          down'[y] = down[y] \/ \E e \in Command \ FromTo(x, y) : down'[y] = Append(down[y], e)
  BY DEF Broadcast
<1>4. CASE Leave(s) \/ LeaveFails(s)
  <2>1. UNCHANGED up  BY <1>4 DEF Leave, LeaveFails, Return
  <2>2. Line(x)' = Line(x)  BY <1>1, <2>1 DEF Line, Current
  <2>3. down'[y] = down[y] \/ \E e \in Command \ FromTo(x, y) : down'[y] = Append(down[y], e)
    <3>1. CASE UNCHANGED <<session_online, down>>  BY <3>1
    <3>2. CASE session_online' = session_online \ {s[1]} /\ Broadcast(SessionStatus(session_online'), subscribed')
      <4>1. session_online' \in SUBSET Window  BY <3>2 DEF ServerInv
      <4> QED  BY <1>2, <1>3, <3>2, <4>1
    <3> QED  BY <1>4, <3>1, <3>2 DEF Leave, LeaveFails
  <2> QED  BY <2>2, <2>3 DEF Passes
<1>5. CASE ProcessMessage(s)
  <2> DEFINE m == Head(up[s])
  <2>1. up[s] # <<>> /\ up' = [up EXCEPT ![s] = Tail(up[s])]  BY <1>5 DEF ProcessMessage
  <2>2. s = Current(s[1]) /\ m \in Sent /\ m \in Command
    BY <1>1, <2>1, HeadTailProperties DEF Sent
  <2>3. m \in FromTo(x, y) => s[1] = x
    <3>1. 1 \in DOMAIN up[s] /\ m = up[s][1]
      BY <1>1, <2>1, HeadTailProperties, LenProperties, EmptySeq
    <3> QED  BY <2>2, <3>1 DEF Signed, Clear, Unsigned, FromTo
  <2>4. /\ s[1] = x => Line(x) = up[s] /\ Line(x)' = Tail(up[s])
        /\ s[1] # x => Line(x)' = Line(x)
    <3>1. ASSUME s[1] = x PROVE Line(x) = up[s] /\ Line(x)' = Tail(up[s])
      BY <1>1, <2>1, <2>2, <3>1 DEF Line, Current
    <3>2. ASSUME s[1] # x PROVE Line(x)' = Line(x)
      <4>1. Current(x) # s /\ Current(x)' = Current(x)  BY <1>1, <3>2 DEF Current
      <4> QED  BY <1>1, <2>1, <4>1 DEF Line
    <3> QED  BY <3>1, <3>2
  <2>5. CASE m \notin FromTo(x, y)
    <3>1. down'[y] = down[y] \/ \E e \in Command \ FromTo(x, y) : down'[y] = Append(down[y], e)
      <4>1. CASE ProcessJoin(s)
        <5>1. session_online' \in SUBSET Window  BY <1>1, <4>1 DEF ProcessJoin, ServerInv
        <5> QED  BY <1>2, <1>3, <4>1, <5>1 DEF ProcessJoin
      <4>2. CASE ProcessSignal(s, m)
        BY <1>3, <2>2, <2>5, <4>2 DEF ProcessSignal
      <4> QED  BY <1>5, <4>1, <4>2 DEF ProcessMessage
    <3> QED  BY <2>1, <2>4, <2>5, <3>1 DEF Passes
  <2>6. CASE m \in FromTo(x, y)
    <3>1. ProcessSignal(s, m) /\ m.target = y
      BY <1>5, <2>6 DEF ProcessMessage, FromTo, Signals
    <3>2. down'[y] = Append(down[y], m) \/ (down'[y] = down[y] /\ Current(y) \notin subscribed)
      BY <3>1 DEF ProcessSignal, Broadcast, Hears
    <3> QED  BY <2>1, <2>3, <2>4, <2>6, <3>2 DEF Passes
  <2> QED  BY <2>5, <2>6
<1> QED  BY <1>4, <1>5 DEF IntroducerStep

\* So nothing is doubled, and an answer stays ahead of its candidate.
LEMMA WayMoves ==
    ASSUME ServerInv, NEW x \in Window, NEW y \in Window, Passes(x, y),
           NEW S, NEW T, S \subseteq FromTo(x, y), T \subseteq FromTo(x, y)
    PROVE  /\ ~OnWay(S, x, y) => ~OnWay(S, x, y)'
           /\ AtMostOne(S, x, y) => AtMostOne(S, x, y)'
           /\ Follows(S, T, x, y) /\ Current(y) \in subscribed /\ S \cap T = {} => Follows(S, T, x, y)'
<1> DEFINE q == Line(x)
           d == down[y]
           r == Line(x)'
           e == down'[y]
<1>1. q \in Seq(Command) /\ d \in Seq(Command)
  BY LineType, SeqMonotonic DEF Sent
<1> HIDE DEF q, d, r, e
<1>3. \A z \in Command \ FromTo(x, y) : z \notin S /\ z \notin T  OBVIOUS
<1>4. /\ ~OnWay(S, x, y) <=> Clear(q, S) /\ Clear(d, S)
      /\ ~OnWay(S, x, y)' <=> Clear(r, S) /\ Clear(e, S)
  BY DEF OnWay, q, d, r, e
<1>5. /\ AtMostOne(S, x, y) <=> Once(q, S) /\ Once(d, S) /\ (Clear(q, S) \/ Clear(d, S))
      /\ AtMostOne(S, x, y)' <=> Once(r, S) /\ Once(e, S) /\ (Clear(r, S) \/ Clear(e, S))
  BY DEF AtMostOne, q, d, r, e
<1>6. /\ Follows(S, T, x, y) <=> Led(d, S, T) /\ (Led(q, S, T) \/ ~Clear(d, T))
      /\ Follows(S, T, x, y)' <=> Led(e, S, T) /\ (Led(r, S, T) \/ ~Clear(e, T))
  BY DEF Follows, q, d, r, e
<1>7. ASSUME NEW z \in Command, e = Append(d, z)
      PROVE  /\ Clear(e, S) <=> Clear(d, S) /\ z \notin S
             /\ Clear(e, T) <=> Clear(d, T) /\ z \notin T
             /\ Once(d, S) /\ (z \in S => Clear(d, S)) => Once(e, S)
             /\ Led(d, S, T) /\ (z \in S => ~Clear(d, T)) => Led(e, S, T)
  BY <1>1, <1>7, AppendOf
<1>8. e = d \/ (\E z \in Command \ FromTo(x, y) : e = Append(d, z)) =>
          /\ Clear(e, S) <=> Clear(d, S)
          /\ Clear(e, T) <=> Clear(d, T)
          /\ Once(d, S) => Once(e, S)
          /\ Led(d, S, T) => Led(e, S, T)
  BY <1>3, <1>7
<1>9. q # <<>> /\ r = Tail(q) =>
          /\ Head(q) \in Command
          /\ Clear(q, S) => Clear(r, S) /\ Head(q) \notin S
          /\ Clear(q, T) => Clear(r, T) /\ Head(q) \notin T
          /\ Once(q, S) => Once(r, S) /\ (Head(q) \in S => Clear(r, S))
          /\ Led(q, S, T) => Head(q) \notin S /\ (Head(q) \notin T => Led(r, S, T))
  <2> SUFFICES ASSUME q # <<>>, r = Tail(q)
               PROVE  /\ Head(q) \in Command
                      /\ Clear(q, S) => Clear(r, S) /\ Head(q) \notin S
                      /\ Clear(q, T) => Clear(r, T) /\ Head(q) \notin T
                      /\ Once(q, S) => Once(r, S) /\ (Head(q) \in S => Clear(r, S))
                      /\ Led(q, S, T) => Head(q) \notin S /\ (Head(q) \notin T => Led(r, S, T))
    OBVIOUS
  <2>1. Head(q) \in Command /\ Head(q) = q[1] /\ 1 \in DOMAIN q
    BY <1>1, HeadTailProperties, LenProperties, EmptySeq
  <2>2. \A Q : Clear(q, Q) => Head(q) \notin Q  BY <2>1 DEF Clear
  <2> QED  BY <1>1, <2>1, <2>2, TailOf
<1>10. CASE r = q /\ (e = d \/ \E z \in Command \ FromTo(x, y) : e = Append(d, z))
  BY <1>4, <1>5, <1>6, <1>8, <1>10
<1>11. CASE /\ q # <<>> /\ r = Tail(q) /\ Head(q) \notin FromTo(x, y)
            /\ e = d \/ \E z \in Command \ FromTo(x, y) : e = Append(d, z)
  BY <1>4, <1>5, <1>6, <1>8, <1>9, <1>11
<1>12. CASE q # <<>> /\ r = Tail(q) /\ Head(q) \in FromTo(x, y) /\ e = Append(d, Head(q))
  <2>1. ~OnWay(S, x, y) => ~OnWay(S, x, y)'  BY <1>4, <1>7, <1>9, <1>12
  <2>2. ASSUME AtMostOne(S, x, y) PROVE AtMostOne(S, x, y)'
    BY <1>5, <1>7, <1>9, <1>12, <2>2
  <2>3. ASSUME Follows(S, T, x, y), S \cap T = {} PROVE Follows(S, T, x, y)'
    BY <1>6, <1>7, <1>9, <1>12, <2>3
  <2> QED  BY <2>1, <2>2, <2>3
<1>13. CASE /\ q # <<>> /\ r = Tail(q) /\ Head(q) \in FromTo(x, y)
            /\ e = d /\ Current(y) \notin subscribed
  BY <1>4, <1>5, <1>9, <1>13
<1> QED
  <2>1. \/ r = q /\ (e = d \/ \E z \in Command \ FromTo(x, y) : e = Append(d, z))
        \/ /\ q # <<>> /\ r = Tail(q) /\ Head(q) \notin FromTo(x, y)
           /\ e = d \/ \E z \in Command \ FromTo(x, y) : e = Append(d, z)
        \/ /\ q # <<>> /\ r = Tail(q) /\ Head(q) \in FromTo(x, y)
           /\ e = Append(d, Head(q)) \/ (e = d /\ Current(y) \notin subscribed)
    BY DEF Passes, q, d, r, e
  <2> QED  BY <1>10, <1>11, <1>12, <1>13, <2>1

LEMMA SigsDiffer ==
    ASSUME NEW x, NEW y
    PROVE  /\ \A kind : Sig(kind, x, y) \in SUBSET FromTo(x, y)
           /\ Sig("IceCandidate", x, y) \cap Sig("Answer", x, y) = {}
BY DEF Sig

\* A way on which none of these signals is made or doubled.
WayKeeps(G, x, y) ==
    \A S \in SUBSET G :
        /\ ~OnWay(S, x, y) => ~OnWay(S, x, y)'
        /\ AtMostOne(S, x, y) => AtMostOne(S, x, y)'

\* The answer stays ahead of its candidate.
OrderKeeps(x, y) ==
    Follows(Sig("IceCandidate", x, y), Sig("Answer", x, y), x, y)
        => Follows(Sig("IceCandidate", x, y), Sig("Answer", x, y), x, y)'

LEMMA PassingKeeps ==
    ASSUME ServerInv, NEW x \in Window, NEW y \in Window, Passes(x, y),
           Current(y) \in subscribed \/ ~OnWay(Sig("IceCandidate", x, y), x, y)
    PROVE  WayKeeps(FromTo(x, y), x, y) /\ OrderKeeps(x, y)
<1>1. ASSUME NEW S \in SUBSET FromTo(x, y), NEW T \in SUBSET FromTo(x, y)
      PROVE  /\ ~OnWay(S, x, y) => ~OnWay(S, x, y)'
             /\ AtMostOne(S, x, y) => AtMostOne(S, x, y)'
             /\ Follows(S, T, x, y) /\ Current(y) \in subscribed /\ S \cap T = {} => Follows(S, T, x, y)'
  BY WayMoves
<1>2. WayKeeps(FromTo(x, y), x, y)  BY <1>1 DEF WayKeeps
<1> DEFINE I == Sig("IceCandidate", x, y)
           A == Sig("Answer", x, y)
<1>3. I \in SUBSET FromTo(x, y) /\ A \in SUBSET FromTo(x, y) /\ I \cap A = {}
  BY SigsDiffer
<1>4. OrderKeeps(x, y) <=> (Follows(I, A, x, y) => Follows(I, A, x, y)')
  BY DEF OrderKeeps
<1>5. ~OnWay(I, x, y)' => Follows(I, A, x, y)'
  BY ClearOf DEF OnWay, Follows
<1> HIDE DEF I, A
<1>6. Follows(I, A, x, y) /\ Current(y) \in subscribed => Follows(I, A, x, y)'
  BY <1>1, <1>3
<1>7. ~OnWay(I, x, y) => ~OnWay(I, x, y)'
  BY <1>1, <1>3
<1>8. Current(y) \in subscribed \/ ~OnWay(I, x, y)  BY DEF I
<1> QED  BY <1>2, <1>4, <1>5, <1>6, <1>7, <1>8

\* Other messages are sent or received.
Besides(G, x, y) ==
    /\ \/ Line(x)' = Line(x)
       \/ \E e \in Command \ G : Line(x)' = Append(Line(x), e)
       \/ \E e, f \in Command \ G : Line(x)' = Append(Append(Line(x), e), f)
    /\ \/ down'[y] = down[y]
       \/ down[y] # <<>> /\ down'[y] = Tail(down[y]) /\ Head(down[y]) \notin G

LEMMA BesidesKeeps ==
    ASSUME ServerInv, NEW x \in Window, NEW y \in Window, NEW G, Besides(G, x, y)
    PROVE  /\ WayKeeps(G, x, y)
           /\ \A S, T \in SUBSET G : Follows(S, T, x, y) => Follows(S, T, x, y)'
<1> SUFFICES ASSUME NEW S \in SUBSET G, NEW T \in SUBSET G
             PROVE  /\ ~OnWay(S, x, y) => ~OnWay(S, x, y)'
                    /\ AtMostOne(S, x, y) => AtMostOne(S, x, y)'
                    /\ Follows(S, T, x, y) => Follows(S, T, x, y)'
  BY DEF WayKeeps
<1> DEFINE q == Line(x)
           d == down[y]
           r == Line(x)'
           g == down'[y]
<1>1. q \in Seq(Command) /\ d \in Seq(Command)
  BY LineType, SeqMonotonic DEF Sent
<1>2. /\ OnWay(S, x, y) <=> ~(Clear(q, S) /\ Clear(d, S))
      /\ OnWay(S, x, y)' <=> ~(Clear(r, S) /\ Clear(g, S))
  BY DEF OnWay
<1>3. /\ AtMostOne(S, x, y) <=> Once(q, S) /\ Once(d, S) /\ (Clear(q, S) \/ Clear(d, S))
      /\ AtMostOne(S, x, y)' <=> Once(r, S) /\ Once(g, S) /\ (Clear(r, S) \/ Clear(g, S))
  BY DEF AtMostOne
<1>4. /\ Follows(S, T, x, y) <=> Led(d, S, T) /\ (Led(q, S, T) \/ ~Clear(d, T))
      /\ Follows(S, T, x, y)' <=> Led(g, S, T) /\ (Led(r, S, T) \/ ~Clear(g, T))
  BY DEF Follows
<1>5. /\ r = q \/ (\E e \in Command \ G : r = Append(q, e))
            \/ \E e, f \in Command \ G : r = Append(Append(q, e), f)
      /\ g = d \/ (d # <<>> /\ g = Tail(d) /\ Head(d) \notin G)
  BY DEF Besides
<1> HIDE DEF q, d, r, g
<1>6. \A p \in Seq(Command), e \in Command \ G :
          /\ Append(p, e) \in Seq(Command)
          /\ Clear(p, S) => Clear(Append(p, e), S)
          /\ Once(p, S) => Once(Append(p, e), S)
          /\ Led(p, S, T) => Led(Append(p, e), S, T)
  <2>1. TAKE p \in Seq(Command), e \in Command \ G
  <2>2. e \notin S /\ e \in Command  OBVIOUS
  <2>3. Append(p, e) \in Seq(Command)  OBVIOUS
  <2> QED  BY <2>2, <2>3, AppendOf
<1>7. /\ Clear(q, S) => Clear(r, S)
      /\ Once(q, S) => Once(r, S)
      /\ Led(q, S, T) => Led(r, S, T)
  <2>1. CASE r = q  BY <2>1
  <2>2. CASE \E e \in Command \ G : r = Append(q, e)  BY <1>1, <1>6, <2>2
  <2>3. ASSUME NEW e \in Command \ G, NEW f \in Command \ G,
               r = Append(Append(q, e), f)
        PROVE  /\ Clear(q, S) => Clear(r, S)
               /\ Once(q, S) => Once(r, S)
               /\ Led(q, S, T) => Led(r, S, T)
    BY <1>1, <1>6, <2>3
  <2> QED  BY <1>5, <2>1, <2>2, <2>3
<1>8. /\ Clear(d, S) => Clear(g, S)
      /\ Once(d, S) => Once(g, S)
      /\ Led(d, S, T) => Led(g, S, T)
      /\ Clear(d, T) <=> Clear(g, T)
  <2>1. CASE g = d  BY <2>1
  <2>2. CASE d # <<>> /\ g = Tail(d) /\ Head(d) \notin G
    <3>1. Head(d) \notin S /\ Head(d) \notin T  BY <2>2
    <3>2. /\ Clear(d, S) => Clear(g, S)
          /\ Once(d, S) => Once(g, S)
          /\ Led(d, S, T) => Led(g, S, T)
          /\ Clear(d, T) => Clear(g, T)
      BY <1>1, <2>2, <3>1, TailOf
    <3>3. Clear(g, T) => Clear(d, T)
      <4>1. /\ Len(d) \in Nat /\ Len(d) > 0 /\ DOMAIN d = 1 .. Len(d) /\ Head(d) = d[1]
            /\ DOMAIN g = 1 .. Len(d) - 1 /\ \A i \in DOMAIN g : g[i] = d[i + 1]
        BY <1>1, <2>2, HeadTailProperties, LenProperties, EmptySeq
      <4>2. \A i \in DOMAIN d : i = 1 \/ (i - 1 \in DOMAIN g /\ g[i - 1] = d[i])
        <5>1. TAKE i \in DOMAIN d
        <5>2. i # 1 => i - 1 \in DOMAIN g /\ (i - 1) + 1 = i  BY <4>1
        <5> QED  BY <4>1, <5>2
      <4> QED  BY <3>1, <4>1, <4>2 DEF Clear
    <3> QED  BY <3>2, <3>3
  <2> QED  BY <1>5, <2>1, <2>2
<1> QED  BY <1>2, <1>3, <1>4, <1>7, <1>8

\* The connections of w to v move on, if at all, when they are no longer being
\* introduced.
Introducing == Offering \cup Answering
Rests(w, v) ==
    /\ To(w, v)' = To(w, v)
    /\ \A n \in To(w, v) :
          /\ conns'[w][n].remote = conns[w][n].remote /\ conns'[w][n].ack = conns[w][n].ack
          /\ \/ conns'[w][n].stage = conns[w][n].stage
             \/ conns'[w][n].stage \notin Introducing /\ conns[w][n].stage \notin Introducing

LEMMA StatesRest ==
    ASSUME NEW a \in Window, NEW b \in Window, Rests(a, b), Rests(b, a)
    PROVE  /\ Offered(a, b)' <=> Offered(a, b)
           /\ Replied(a, b)' <=> Replied(a, b)
           /\ Answered(a, b)' <=> Answered(a, b)
           /\ Taken(a, b)' <=> Taken(a, b)
<1>1. Offered(a, b)' <=> Offered(a, b)
  BY DEF Rests, Offered, Introducing, Offering
<1>2. Replied(a, b)' <=> Replied(a, b)
  BY DEF Rests, Replied
<1>3. Answered(a, b)' <=> Answered(a, b)
  BY DEF Rests, Answered, Introducing, Answering
<1>4. Taken(a, b)' <=> Taken(a, b)
  BY DEF Rests, Taken
<1> QED  BY <1>1, <1>2, <1>3, <1>4

LEMMA EntriesRest ==
    ASSUME NEW a \in Window, NEW b \in Window, Rests(a, b), Rests(b, a),
           peers'[a][b] = peers[a][b], peers'[b][a] = peers[b][a]
    PROVE  /\ OfferEntry(a, b) => OfferEntry(a, b)'
           /\ AnswerEntry(a, b) => AnswerEntry(a, b)'
<1>1. OfferEntry(a, b) => OfferEntry(a, b)'
  BY DEF Rests, OfferEntry, Introducing, Offering, Answering
<1>2. AnswerEntry(a, b) => AnswerEntry(a, b)'
  BY DEF Rests, AnswerEntry, Introducing
<1> QED  BY <1>1, <1>2

\* The state of an introduction, and what is on its way, belong together.
LEMMA OfferWayRests ==
    ASSUME NEW a \in Window, NEW b \in Window, OfferWay(a, b),
           WayKeeps(Sig("Offer", a, b), a, b),
           Offered(a, b)' <=> Offered(a, b), Replied(a, b)' <=> Replied(a, b)
    PROVE  OfferWay(a, b)'
<1> DEFINE O == Sig("Offer", a, b)
<1>1. /\ AtMostOne(O, a, b)
      /\ OnWay(O, a, b) => Offered(a, b) /\ ~Replied(a, b)
      /\ Replied(a, b) => Offered(a, b)
  BY DEF OfferWay
<1>2. OfferWay(a, b)' <=> /\ AtMostOne(O, a, b)'
                          /\ OnWay(O, a, b)' => Offered(a, b)' /\ ~Replied(a, b)'
                          /\ Replied(a, b)' => Offered(a, b)'
  BY DEF OfferWay
<1>3. WayKeeps(O, a, b)  OBVIOUS
<1> HIDE DEF O
<1>4. /\ ~OnWay(O, a, b) => ~OnWay(O, a, b)'
      /\ AtMostOne(O, a, b) => AtMostOne(O, a, b)'
  BY <1>3 DEF WayKeeps
<1> QED  BY <1>1, <1>2, <1>4

LEMMA AnswerWayRests ==
    ASSUME NEW a \in Window, NEW b \in Window, AnswerWay(a, b),
           WayKeeps(Sig("Answer", b, a), b, a),
           Answered(a, b)' <=> Answered(a, b), Taken(a, b)' <=> Taken(a, b)
    PROVE  AnswerWay(a, b)'
<1> DEFINE A == Sig("Answer", b, a)
<1>1. /\ AtMostOne(A, b, a)
      /\ OnWay(A, b, a) => Answered(a, b) /\ ~Taken(a, b)
      /\ Taken(a, b) => Answered(a, b)
  BY DEF AnswerWay
<1>2. AnswerWay(a, b)' <=> /\ AtMostOne(A, b, a)'
                           /\ OnWay(A, b, a)' => Answered(a, b)' /\ ~Taken(a, b)'
                           /\ Taken(a, b)' => Answered(a, b)'
  BY DEF AnswerWay
<1>3. WayKeeps(A, b, a)  OBVIOUS
<1> HIDE DEF A
<1>4. /\ ~OnWay(A, b, a) => ~OnWay(A, b, a)'
      /\ AtMostOne(A, b, a) => AtMostOne(A, b, a)'
  BY <1>3 DEF WayKeeps
<1> QED  BY <1>1, <1>2, <1>4

LEMMA CandidateWayRests ==
    ASSUME NEW a \in Window, NEW b \in Window, CandidateWay(a, b),
           WayKeeps(Sig("IceCandidate", b, a), b, a), Taken(a, b)' \/ OrderKeeps(b, a),
           Answered(a, b) => Answered(a, b)', Taken(a, b) => Taken(a, b)'
    PROVE  CandidateWay(a, b)'
<1> DEFINE A == Sig("Answer", b, a)
           I == Sig("IceCandidate", b, a)
<1>1. /\ OnWay(I, b, a) => Answered(a, b)
      /\ Taken(a, b) \/ Follows(I, A, b, a)
  BY DEF CandidateWay
<1>2. CandidateWay(a, b)' <=> /\ OnWay(I, b, a)' => Answered(a, b)'
                              /\ Taken(a, b)' \/ Follows(I, A, b, a)'
  BY DEF CandidateWay
<1>3. WayKeeps(I, b, a) /\ (OrderKeeps(b, a) <=> (Follows(I, A, b, a) => Follows(I, A, b, a)'))
  BY DEF OrderKeeps
<1> HIDE DEF A, I
<1>4. ~OnWay(I, b, a) => ~OnWay(I, b, a)'
  BY <1>3 DEF WayKeeps
<1> QED  BY <1>1, <1>2, <1>3, <1>4

LEMMA OneWayRests ==
    ASSUME NEW a \in Window, NEW b \in Window, OneWay(a, b),
           WayKeeps(Sig("Answer", a, b) \cup Sig("IceCandidate", a, b), a, b)
    PROVE  OneWay(a, b)'
<1> DEFINE B == Sig("Answer", a, b)
           J == Sig("IceCandidate", a, b)
<1>1. ~OnWay(B, a, b) /\ ~OnWay(J, a, b) /\ WayKeeps(B \cup J, a, b)  BY DEF OneWay
<1>2. OneWay(a, b)' <=> ~OnWay(B, a, b)' /\ ~OnWay(J, a, b)'  BY DEF OneWay
<1> HIDE DEF B, J
<1>3. ~OnWay(B, a, b)' /\ ~OnWay(J, a, b)'  BY <1>1 DEF WayKeeps
<1> QED  BY <1>2, <1>3

LEMMA HandshakeRests ==
    ASSUME NEW a \in Window, NEW b \in Window, Handshake(a, b),
           WayKeeps(FromTo(a, b), a, b), WayKeeps(FromTo(b, a), b, a), OrderKeeps(b, a),
           Rests(a, b), Rests(b, a), peers'[a][b] = peers[a][b], peers'[b][a] = peers[b][a]
    PROVE  Handshake(a, b)'
<1>1. OfferEntry(a, b)' /\ AnswerEntry(a, b)'  BY EntriesRest DEF Handshake
<1>2. /\ \A S \in SUBSET FromTo(a, b) : WayKeeps(S, a, b)
      /\ \A S \in SUBSET FromTo(b, a) : WayKeeps(S, b, a)
  BY DEF WayKeeps
<1>3. /\ WayKeeps(Sig("Offer", a, b), a, b)
      /\ WayKeeps(Sig("Answer", a, b) \cup Sig("IceCandidate", a, b), a, b)
      /\ WayKeeps(Sig("Answer", b, a), b, a) /\ WayKeeps(Sig("IceCandidate", b, a), b, a)
  BY <1>2, SigsDiffer
<1>4. OfferWay(a, b)' /\ AnswerWay(a, b)' /\ CandidateWay(a, b)' /\ OneWay(a, b)'
  BY <1>3, StatesRest, OfferWayRests, AnswerWayRests, CandidateWayRests, OneWayRests DEF Handshake
<1> QED  BY <1>1, <1>4 DEF Handshake

-----------------------------------------------------------------------------
(* What a step leaves alone *)

\* A step that is about w and p leaves the introductions of the others alone.
Elsewhere(w, p) ==
    \A x, y \in Window : {x, y} # {w, p} =>
        Besides(FromTo(x, y), x, y) /\ Rests(x, y) /\ peers'[x][y] = peers[x][y]

LEMMA BesidesRests ==
    ASSUME ServerInv, NEW x \in Window, NEW y \in Window, Besides(FromTo(x, y), x, y)
    PROVE  WayKeeps(FromTo(x, y), x, y) /\ OrderKeeps(x, y)
<1>1. \A S, T \in SUBSET FromTo(x, y) : Follows(S, T, x, y) => Follows(S, T, x, y)'
  BY BesidesKeeps
<1>2. OrderKeeps(x, y)  BY <1>1, SigsDiffer DEF OrderKeeps
<1> QED  BY <1>2, BesidesKeeps

LEMMA OthersRest ==
    ASSUME ServerInv, NEW w \in Window, NEW p \in Window, Elsewhere(w, p),
           NEW a \in Window, NEW b \in Window, {a, b} # {w, p}, Handshake(a, b)
    PROVE  Handshake(a, b)'
<1>1. /\ Besides(FromTo(a, b), a, b) /\ Rests(a, b) /\ peers'[a][b] = peers[a][b]
      /\ Besides(FromTo(b, a), b, a) /\ Rests(b, a) /\ peers'[b][a] = peers[b][a]
  BY DEF Elsewhere
<1> QED  BY <1>1, BesidesRests, HandshakeRests

\* So what is left to show is the introduction of the two.
LEMMA PairsRest ==
    ASSUME ServerInv, Handshakes, NEW w \in Window, NEW p \in Window, Elsewhere(w, p),
           w < p => Handshake(w, p)', p < w => Handshake(p, w)'
    PROVE  Handshakes'
<1> SUFFICES ASSUME NEW a \in Window, NEW b \in Window, a < b PROVE Handshake(a, b)'
  BY DEF Handshakes
<1>1. CASE {a, b} # {w, p}  BY <1>1, OthersRest DEF Handshakes
<1>2. CASE {a, b} = {w, p}
  <2>1. (a = w /\ b = p) \/ (a = p /\ b = w)
    <3>1. a \in {w, p} /\ b \in {w, p} /\ w \in {a, b} /\ p \in {a, b}  BY <1>2
    <3> QED  BY <3>1
  <2> QED  BY <2>1
<1> QED  BY <1>1, <1>2

\* What a window says is added to its own line.
LEMMA SendOnLine ==
    ASSUME ServerInv, NEW w \in Window, NEW cmds \in Seq(Sent), Send(w, cmds), UNCHANGED openings
    PROVE  /\ \A x \in Window \ {w} : Line(x)' = Line(x)
           /\ Line(w)' = Line(w) \o cmds \/ Line(w)' = Line(w)
<1>1. \A x \in Window : Current(x)' = Current(x)  BY DEF Current
<1>2. \A x \in Window \ {w} : Line(x)' = Line(x)
  <2>1. TAKE x \in Window \ {w}
  <2>2. Current(x) # Current(w)  BY DEF Current
  <2> QED  BY <1>1, <2>2 DEF Line, Send, ServerInv, OffersGoUp
<1>3. Line(w)' = Line(w) \o cmds \/ Line(w)' = Line(w)
  BY <1>1 DEF Line, Send, ServerInv, OffersGoUp
<1> QED  BY <1>2, <1>3

LEMMA TwoAppended ==
    ASSUME NEW U, NEW q \in Seq(U), NEW e \in U, NEW f \in U
    PROVE  q \o <<e>> = Append(q, e) /\ q \o <<e, f>> = Append(Append(q, e), f)
OBVIOUS

LEMMA SendBesides ==
    ASSUME ServerInv, NEW w \in Window, NEW e \in Sent, NEW f \in Sent,
           Send(w, <<e>>) \/ Send(w, <<e, f>>), UNCHANGED <<openings, down>>
    PROVE  /\ \A G : \A x, y \in Window :
                  x # w \/ (e \notin G /\ f \notin G) => Besides(G, x, y)
           /\ Send(w, <<e>>) => Line(w)' \in {Line(w), Append(Line(w), e)}
           /\ Send(w, <<e, f>>) => Line(w)' \in {Line(w), Append(Append(Line(w), e), f)}
<1>1. /\ <<e>> \in Seq(Sent) /\ <<e, f>> \in Seq(Sent) /\ e \in Command /\ f \in Command
      /\ Line(w) \in Seq(Sent)
  BY LineType DEF Sent
<1>2. \A x \in Window \ {w} : Line(x)' = Line(x)  BY <1>1, SendOnLine
<1>3. /\ Send(w, <<e>>) => Line(w)' \in {Line(w), Append(Line(w), e)}
      /\ Send(w, <<e, f>>) => Line(w)' \in {Line(w), Append(Append(Line(w), e), f)}
  <2>1. /\ Line(w) \o <<e>> = Append(Line(w), e)
        /\ Line(w) \o <<e, f>> = Append(Append(Line(w), e), f)
    BY <1>1, TwoAppended
  <2>2. Send(w, <<e>>) => Line(w)' = Line(w) \o <<e>> \/ Line(w)' = Line(w)
    BY <1>1, SendOnLine
  <2>3. Send(w, <<e, f>>) => Line(w)' = Line(w) \o <<e, f>> \/ Line(w)' = Line(w)
    BY <1>1, SendOnLine
  <2> QED  BY <2>1, <2>2, <2>3
<1>4. \A G : \A x, y \in Window : x # w \/ (e \notin G /\ f \notin G) => Besides(G, x, y)
  <2>1. TAKE G
  <2>2. TAKE x, y \in Window
  <2>3. CASE x # w  BY <1>2, <2>3 DEF Besides
  <2>4. CASE x = w
    <3>1. e \notin G /\ f \notin G => e \in Command \ G /\ f \in Command \ G  BY <1>1
    <3> QED  BY <1>3, <2>4, <3>1 DEF Besides
  <2> QED  BY <2>3, <2>4
<1> QED  BY <1>3, <1>4

LEMMA QuietLines ==
    ASSUME UNCHANGED <<openings, up, down>>
    PROVE  \A G : \A x, y \in Window : Besides(G, x, y)
BY DEF Besides, Line, Current

LEMMA ReadBesides ==
    ASSUME ServerInv, NEW w \in Window, HandleMessage(w)
    PROVE  \A G : \A x, y \in Window : y # w \/ Head(down[w]) \notin G => Besides(G, x, y)
<1>1. /\ UNCHANGED <<openings, up>> /\ down[w] # <<>>
      /\ down' = [down EXCEPT ![w] = Tail(down[w])]
  BY DEF HandleMessage
<1>2. \A y \in Window : down'[y] = IF y = w THEN Tail(down[w]) ELSE down[y]
  BY <1>1 DEF ServerInv, OffersGoUp
<1>3. \A x \in Window : Line(x)' = Line(x)  BY <1>1 DEF Line, Current
<1> QED  BY <1>1, <1>2, <1>3 DEF Besides

\* One connection changes.
Turns(w, n, d) ==
    SameEnds(conns[w][n], d) /\ conns' = [conns EXCEPT ![w] = [conns[w] EXCEPT ![n] = d]]

LEMMA OneConnRests ==
    ASSUME ConnsInv, NEW w \in Window, NEW n \in DOMAIN conns[w], NEW d, Turns(w, n, d)
    PROVE  /\ \A x, y \in Window : To(x, y)' = To(x, y)
           /\ conns'[w][n] = d
           /\ \A x \in Window : \A k \in DOMAIN conns[x] :
                  x # w \/ k # n => conns'[x][k] = conns[x][k]
           /\ \A x, y \in Window : x # w \/ y # conns[w][n].peer => Rests(x, y)
<1>1. conns \in [Window -> Seq(Conn)] /\ \A x \in Window : conns[x] = [k \in DOMAIN conns[x] |-> conns[x][k]]
  BY DEF ConnsInv, ConnsFit
<1>2. \A x \in Window : DOMAIN conns'[x] = DOMAIN conns[x]  BY <1>1 DEF Turns
<1>3. conns'[w][n] = d  BY <1>1 DEF Turns
<1>4. \A x \in Window : \A k \in DOMAIN conns[x] : x # w \/ k # n => conns'[x][k] = conns[x][k]
  BY <1>1 DEF Turns
<1>5. \A x, y \in Window : To(x, y)' = To(x, y)
  BY <1>2, <1>3, <1>4 DEF To, SameEnds, Turns
<1>6. \A x, y \in Window : x # w \/ y # conns[w][n].peer => Rests(x, y)
  BY <1>4, <1>5 DEF Rests, To
<1> QED  BY <1>3, <1>4, <1>5, <1>6

LEMMA OneOffer ==
    ASSUME IntroductionInv, ~IntroducedTwice, NEW a \in Window, NEW b \in Window, a < b
    PROVE  /\ \A k, j \in To(a, b) : k = j
           /\ \A k \in To(a, b) : conns[a][k].role = "offer"
<1>1. \A k \in To(a, b) : k \in DOMAIN conns[a] /\ conns[a][k].peer = b  BY DEF To
<1>2. \A k \in To(a, b) : conns[a][k].role = "offer"
  <2>1. TAKE k \in To(a, b)
  <2>2. Fits(a, conns[a][k])  BY <1>1, ConnTypes DEF IntroductionInv
  <2>3. a \in Nat /\ b \in Nat  BY WindowAssumption
  <2> QED  BY <1>1, <2>2, <2>3 DEF Fits
<1> QED  BY <1>1, <1>2 DEF IntroducedTwice

-----------------------------------------------------------------------------
(* Steps of an introduction *)

\* The states of an introduction come one after the other.
LEMMA StatesInOrder ==
    ASSUME NEW a \in Window, NEW b \in Window, Handshake(a, b)
    PROVE  /\ Taken(a, b) => Answered(a, b)
           /\ Answered(a, b) => Replied(a, b)
           /\ Replied(a, b) => Offered(a, b)
BY DEF Handshake, OfferWay, AnswerWay, Answered, Replied

\* The first offer leaves when nothing was said.
LEMMA SendOfferKeepsHandshakes ==
    ASSUME IntroductionInv, ~IntroducedTwice, Handshakes, NEW w \in Window, NEW n, SendOffer(w, n)
    PROVE  Handshakes'
<1>1. n \in DOMAIN conns[w] /\ conns[w][n].stage = "describing"  BY DEF SendOffer, In
<1>2. PICK p \in Window : p = conns[w][n].peer
  BY <1>1, ConnTypes DEF IntroductionInv
<1>3. w < p /\ w # p /\ n \in Nat /\ Id(w, n) \in Nat \X Nat
  <2>1. n \in Nat /\ Fits(w, conns[w][n])  BY <1>1, ConnTypes DEF IntroductionInv
  <2>2. w \in Nat /\ p \in Nat  BY WindowAssumption
  <2> QED  BY <1>1, <1>2, <2>1, <2>2 DEF Fits, Offering, Id, IntroductionInv, ServerInv
<1> DEFINE e == Signal("Offer", w, p, Id(w, n))
           d == [conns[w][n] EXCEPT !.stage = "offering"]
<1>4. e \in Sent /\ e \in Command /\ e.kind = "Offer" /\ e.from = w /\ e.target = p
  BY <1>3, CommandTypes DEF Signal, Sent
<1>5. /\ SameEnds(conns[w][n], d) /\ d.stage = "offering" /\ d.remote = conns[w][n].remote
      /\ d.ack = conns[w][n].ack
  BY <1>1, ConnTypes DEF IntroductionInv, Conn, SameEnds
<1>6. /\ conns' = [conns EXCEPT ![w] = [conns[w] EXCEPT ![n] = d]]
      /\ peers' = [peers EXCEPT ![w][p] = n]
      /\ Send(w, <<e>>) /\ UNCHANGED <<openings, down>>
  BY <1>2 DEF SendOffer, InsertPeer
<1> HIDE DEF e, d
<1>7. /\ \A x, y \in Window : To(x, y)' = To(x, y)
      /\ conns'[w][n] = d
      /\ \A x, y \in Window : x # w \/ y # p => Rests(x, y)
  <2>1. ConnsInv /\ n \in DOMAIN conns[w] /\ Turns(w, n, d)
    BY <1>1, <1>5, <1>6 DEF IntroductionInv, Turns
  <2> QED  BY <1>2, <2>1, OneConnRests
<1>8. \A x, y \in Window : peers'[x][y] = IF x = w /\ y = p THEN n ELSE peers[x][y]
  BY <1>6 DEF IntroductionInv, ConnsInv
<1>9. /\ \A G : \A x, y \in Window : x # w \/ e \notin G => Besides(G, x, y)
      /\ Line(w)' \in {Line(w), Append(Line(w), e)}
  BY <1>4, <1>6, SendBesides DEF IntroductionInv
<1>10. Elsewhere(w, p)
  <2> SUFFICES ASSUME NEW x \in Window, NEW y \in Window, {x, y} # {w, p}
               PROVE  Besides(FromTo(x, y), x, y) /\ Rests(x, y) /\ peers'[x][y] = peers[x][y]
    BY DEF Elsewhere
  <2>1. x # w \/ y # p  OBVIOUS
  <2>2. x # w \/ e \notin FromTo(x, y)  BY <1>4, <2>1 DEF FromTo
  <2> QED  BY <1>7, <1>8, <1>9, <2>1, <2>2
<1>11. Handshake(w, p)'
  <2>1. Handshake(w, p)  BY <1>3 DEF Handshakes
  <2>2. To(w, p) = {n}  BY <1>1, <1>2, <1>3, OneOffer DEF To
  <2>3. ~Offered(w, p) /\ ~Replied(w, p) /\ ~Answered(w, p) /\ ~Taken(w, p)
    <3>1. ~Offered(w, p)  BY <1>1, <2>2 DEF Offered
    <3> QED  BY <2>1, <3>1, StatesInOrder
  <2>4. Offered(w, p)' /\ ~Taken(w, p)'
    <3>1. conns[w][n].remote = NoConn  BY <2>2, <2>3 DEF Taken
    <3> QED  BY <1>5, <1>7, <2>2, <3>1 DEF Offered, Taken
  <2>5. Rests(p, w)  BY <1>3, <1>7
  <2>6. ~Replied(w, p)' /\ ~Answered(w, p)'
    BY <2>3, <2>5 DEF Rests, Replied, Answered
  <2>7. OfferWay(w, p)'
    <3> DEFINE O == Sig("Offer", w, p)
    <3>1. Clear(Line(w), O) /\ Clear(down[p], O)
      BY <2>1, <2>3 DEF Handshake, OfferWay, OnWay
    <3>2. OfferWay(w, p)' <=> /\ AtMostOne(O, w, p)'
                              /\ OnWay(O, w, p)' => Offered(w, p)' /\ ~Replied(w, p)'
                              /\ Replied(w, p)' => Offered(w, p)'
      BY DEF OfferWay
    <3>3. Line(w) \in Seq(Sent)  BY LineType DEF IntroductionInv
    <3> HIDE DEF O
    <3>4. Once(Line(w)', O)
      <4>1. Once(Line(w), O)  BY <3>1, ClearOf
      <4>2. Once(Append(Line(w), e), O)  BY <1>4, <3>1, <3>3, <4>1, AppendOf
      <4> QED  BY <1>9, <4>1, <4>2
    <3>5. Clear(down'[p], O) /\ Once(down'[p], O)  BY <1>6, <3>1, ClearOf
    <3>6. AtMostOne(O, w, p)'  BY <3>4, <3>5 DEF AtMostOne
    <3> QED  BY <2>4, <2>6, <3>2, <3>6
  <2>8. WayKeeps(FromTo(p, w), p, w) /\ OrderKeeps(p, w)
    <3>1. Besides(FromTo(p, w), p, w)  BY <1>3, <1>9
    <3> QED  BY <3>1, BesidesRests DEF IntroductionInv
  <2>9. AnswerWay(w, p)' /\ CandidateWay(w, p)'
    <3>1. WayKeeps(Sig("Answer", p, w), p, w) /\ WayKeeps(Sig("IceCandidate", p, w), p, w)
      BY <2>8 DEF WayKeeps, Sig
    <3> QED
      BY <2>1, <2>3, <2>4, <2>6, <2>8, <3>1, AnswerWayRests, CandidateWayRests DEF Handshake
  <2>10. OneWay(w, p)'
    <3>1. e \notin Sig("Answer", w, p) \cup Sig("IceCandidate", w, p)  BY <1>4 DEF Sig
    <3>2. Besides(Sig("Answer", w, p) \cup Sig("IceCandidate", w, p), w, p)  BY <1>9, <3>1
    <3>3. WayKeeps(Sig("Answer", w, p) \cup Sig("IceCandidate", w, p), w, p)
      BY <3>2, BesidesKeeps DEF IntroductionInv
    <3> QED  BY <2>1, <3>3, OneWayRests DEF Handshake
  <2>11. OfferEntry(w, p)'
    <3>1. conns[w][n].remote = NoConn => ~conns[w][n].ack
      BY <2>1, <2>2 DEF Handshake, OfferEntry
    <3>2. To(w, p)' = {n} /\ conns'[w][n] = d /\ peers'[w][p] = n  BY <1>7, <1>8, <2>2
    <3> QED  BY <1>5, <3>1, <3>2 DEF OfferEntry, Answering, Offering
  <2>12. AnswerEntry(w, p)'
    <3>1. peers'[p][w] = peers[p][w]  BY <1>3, <1>8
    <3> QED  BY <2>1, <2>5, <3>1 DEF Handshake, AnswerEntry, Rests, Introducing
  <2> QED  BY <2>7, <2>9, <2>10, <2>11, <2>12 DEF Handshake
<1> QED
  <2>1. ~(p < w)
    <3>1. w \in Nat /\ p \in Nat  BY WindowAssumption
    <3> QED  BY <1>3, <3>1
  <2> QED  BY <1>10, <1>11, <2>1, PairsRest DEF IntroductionInv

\* The connection that answers is the one that is made for the peer.
LEMMA AnsweringEnd ==
    ASSUME IntroductionInv, Handshakes, NEW w \in Window, NEW n \in DOMAIN conns[w],
           conns[w][n].stage \in Answering, NEW p \in Window, p = conns[w][n].peer
    PROVE  /\ p < w /\ p # w /\ ~(w < p) /\ Handshake(p, w)
           /\ conns[w][n].role = "answer" /\ To(w, p) = {n} /\ peers[w][p] = n
<1>1. Fits(w, conns[w][n]) /\ conns[w][n].role \in {"offer", "answer"}
  BY ConnTypes DEF IntroductionInv, Conn
<1>2. w \in Nat /\ p \in Nat  BY WindowAssumption
<1>3. n \in To(w, p)  BY DEF To
<1>4. ~(w < p)
  BY <1>3 DEF Handshakes, Handshake, OfferEntry
<1>5. p < w /\ p # w /\ conns[w][n].role = "answer"  BY <1>1, <1>2, <1>4 DEF Fits
<1>6. Handshake(p, w)  BY <1>5 DEF Handshakes
<1> QED  BY <1>3, <1>4, <1>5, <1>6 DEF Handshake, AnswerEntry

\* The only answer leaves, and a candidate after it.
LEMMA SendAnswerKeepsHandshakes ==
    ASSUME IntroductionInv, Handshakes, NEW w \in Window, NEW n, SendAnswer(w, n)
    PROVE  Handshakes'
<1>1. n \in DOMAIN conns[w] /\ conns[w][n].stage = "answering"  BY DEF SendAnswer, In
<1>2. PICK p \in Window : p = conns[w][n].peer
  BY <1>1, ConnTypes DEF IntroductionInv
<1>3. /\ p < w /\ p # w /\ ~(w < p) /\ Handshake(p, w)
      /\ To(w, p) = {n} /\ peers[w][p] = n
  BY <1>1, <1>2, AnsweringEnd DEF Answering
<1> DEFINE e == Signal("Answer", w, p, Id(w, n))
           f == Signal("IceCandidate", w, p, Id(w, n))
           d == [conns[w][n] EXCEPT !.stage = "answered"]
<1>4. /\ e \in Sent /\ e \in Command /\ e.kind = "Answer" /\ e.from = w /\ e.target = p
      /\ f \in Sent /\ f \in Command /\ f.kind = "IceCandidate" /\ f.from = w /\ f.target = p
  <2>1. Id(w, n) \in Nat \X Nat
    BY <1>1, ConnTypes DEF Id, IntroductionInv, ServerInv
  <2> QED  BY <2>1, CommandTypes DEF Signal, Sent
<1>5. /\ SameEnds(conns[w][n], d) /\ d.stage = "answered"
  BY <1>1, ConnTypes DEF IntroductionInv, Conn, SameEnds
<1>6. /\ conns' = [conns EXCEPT ![w] = [conns[w] EXCEPT ![n] = d]]
      /\ Send(w, <<e, f>>) /\ UNCHANGED <<openings, down, peers>>
  BY <1>2 DEF SendAnswer
<1> HIDE DEF e, f, d
<1>7. /\ \A x, y \in Window : To(x, y)' = To(x, y)
      /\ conns'[w][n] = d
      /\ \A x, y \in Window : x # w \/ y # p => Rests(x, y)
  <2>1. ConnsInv /\ n \in DOMAIN conns[w] /\ Turns(w, n, d)
    BY <1>1, <1>5, <1>6 DEF IntroductionInv, Turns
  <2> QED  BY <1>2, <2>1, OneConnRests
<1>8. /\ \A G : \A x, y \in Window : x # w \/ (e \notin G /\ f \notin G) => Besides(G, x, y)
      /\ Line(w)' \in {Line(w), Append(Append(Line(w), e), f)}
  BY <1>4, <1>6, SendBesides DEF IntroductionInv
<1>9. Elsewhere(w, p)
  <2> SUFFICES ASSUME NEW x \in Window, NEW y \in Window, {x, y} # {w, p}
               PROVE  Besides(FromTo(x, y), x, y) /\ Rests(x, y) /\ peers'[x][y] = peers[x][y]
    BY DEF Elsewhere
  <2>1. x # w \/ y # p  OBVIOUS
  <2>2. x # w \/ (e \notin FromTo(x, y) /\ f \notin FromTo(x, y))  BY <1>4, <2>1 DEF FromTo
  <2> QED  BY <1>6, <1>7, <1>8, <2>1, <2>2
<1>10. Handshake(p, w)'
  <2>1. Replied(p, w) /\ Offered(p, w) /\ ~Answered(p, w) /\ ~Taken(p, w)
    <3>1. Replied(p, w) /\ ~Answered(p, w)  BY <1>1, <1>3 DEF Replied, Answered
    <3> QED  BY <1>3, <3>1, StatesInOrder
  <2>2. Rests(p, w)  BY <1>3, <1>7
  <2>3. /\ Offered(p, w)' /\ ~Taken(p, w)'
    BY <2>1, <2>2 DEF Rests, Offered, Taken, Introducing, Offering
  <2>4. Replied(p, w)' /\ Answered(p, w)'
    BY <1>3, <1>5, <1>7 DEF Replied, Answered
  <2> DEFINE A == Sig("Answer", w, p)
             I == Sig("IceCandidate", w, p)
             q == Line(w)
  <2>5. Clear(q, A) /\ Clear(down[p], A) /\ Clear(q, I) /\ Clear(down[p], I)
    BY <1>3, <2>1 DEF Handshake, AnswerWay, CandidateWay, OnWay
  <2>6. e \in A /\ f \notin A /\ e \notin I /\ f \in I  BY <1>4 DEF Sig, FromTo, Signals
  <2>7. q \in Seq(Command)  BY LineType, SeqMonotonic DEF IntroductionInv, Sent
  <2>8. /\ AnswerWay(p, w)' <=> /\ AtMostOne(A, w, p)'
                                /\ OnWay(A, w, p)' => Answered(p, w)' /\ ~Taken(p, w)'
                                /\ Taken(p, w)' => Answered(p, w)'
        /\ CandidateWay(p, w)' <=> /\ OnWay(I, w, p)' => Answered(p, w)'
                                   /\ Taken(p, w)' \/ Follows(I, A, w, p)'
    BY DEF AnswerWay, CandidateWay
  <2>9. q = Line(w)  OBVIOUS
  <2> HIDE DEF A, I, q
  <2>10. Once(Line(w)', A) /\ Led(Line(w)', I, A)
    <3>1. Once(q, A) /\ Led(q, I, A)  BY <2>5, ClearOf
    <3>2. Append(q, e) \in Seq(Command)  BY <1>4, <2>7
    <3>3. Once(Append(q, e), A)  BY <1>4, <2>5, <2>7, <3>1, AppendOf
    <3>4. ~Clear(Append(q, e), A)  BY <1>4, <2>6, <2>7, AppendOf
    <3>5. Led(Append(q, e), I, A)  BY <1>4, <2>6, <2>7, <3>1, AppendOf
    <3>6. Once(Append(Append(q, e), f), A)  BY <1>4, <2>6, <3>2, <3>3, AppendOf
    <3>7. Led(Append(Append(q, e), f), I, A)  BY <1>4, <3>2, <3>4, <3>5, AppendOf
    <3> QED  BY <1>8, <2>9, <3>1, <3>6, <3>7
  <2>11. Once(down'[p], A) /\ Led(down'[p], I, A) /\ Clear(down'[p], A)
    BY <1>6, <2>5, ClearOf
  <2>12. AnswerWay(p, w)' /\ CandidateWay(p, w)'
    BY <2>3, <2>4, <2>8, <2>10, <2>11 DEF AtMostOne, Follows
  <2>13. WayKeeps(FromTo(p, w), p, w)
    <3>1. Besides(FromTo(p, w), p, w)  BY <1>3, <1>8
    <3> QED  BY <3>1, BesidesRests DEF IntroductionInv
  <2>14. OfferWay(p, w)' /\ OneWay(p, w)'
    <3>1. /\ WayKeeps(Sig("Offer", p, w), p, w)
          /\ WayKeeps(Sig("Answer", p, w) \cup Sig("IceCandidate", p, w), p, w)
      BY <2>13 DEF WayKeeps, Sig
    <3> QED  BY <1>3, <2>1, <2>3, <2>4, <3>1, OfferWayRests, OneWayRests DEF Handshake
  <2>15. OfferEntry(p, w)'
    <3>1. peers'[p][w] = peers[p][w]  BY <1>6
    <3> QED  BY <1>3, <2>2, <3>1 DEF Handshake, OfferEntry, Rests, Introducing, Offering, Answering
  <2>16. AnswerEntry(p, w)'
    BY <1>3, <1>6, <1>7 DEF AnswerEntry
  <2> QED  BY <2>12, <2>14, <2>15, <2>16 DEF Handshake
<1> QED  BY <1>3, <1>9, <1>10, PairsRest DEF IntroductionInv

\* send_peer finds the entry of the connection, and takes it out.
LEMMA SendPeerPasses ==
    ASSUME ConnsInv, WindowInv, NEW w \in Window, NEW cs \in [Window -> Seq(Conn)],
           NEW n \in DOMAIN cs[w], NEW p \in Window, p = cs[w][n].peer,
           SendPeer(w, n, cs), ~panicked[w], peers[w][p] # 0
    PROVE  /\ UNCHANGED panicked
           /\ \A x, y \in Window : peers'[x][y] = IF x = w /\ y = p THEN 0 ELSE peers[x][y]
           /\ \A x \in Window \ {w} : conns'[x] = cs[x]
           /\ DOMAIN conns'[w] = DOMAIN cs[w]
           /\ \A k \in DOMAIN cs[w] \ {n} : conns'[w][k] = cs[w][k]
           /\ conns'[w][n].peer = p /\ conns'[w][n].remote = cs[w][n].remote
           /\ conns'[w][n].ack = cs[w][n].ack /\ conns'[w][n].stage \in {"queued", "dropped"}
<1> DEFINE d(st) == [cs[w][n] EXCEPT !.stage = st, !.pc = peers[w][p]]
           after(st) == [cs EXCEPT ![w] = [cs[w] EXCEPT ![n] = d(st)]]
<1>1. cs[w] \in Seq(Conn) /\ cs[w][n] \in Conn
  BY LenProperties, ElementOfSeq
<1>2. /\ peers' = [peers EXCEPT ![w][p] = 0] /\ UNCHANGED panicked
      /\ conns' = after(IF initiating[w] THEN "queued" ELSE "dropped")
  BY DEF SendPeer
<1>3. PICK st \in {"queued", "dropped"} : conns' = after(st)
  BY <1>2
<1>4. d(st).peer = p /\ d(st).remote = cs[w][n].remote /\ d(st).ack = cs[w][n].ack /\ d(st).stage = st
  BY <1>1 DEF Conn
<1> HIDE DEF d
<1>5. /\ \A x \in Window \ {w} : conns'[x] = cs[x]
      /\ conns'[w] = [cs[w] EXCEPT ![n] = d(st)]
  BY <1>3
<1>6. /\ DOMAIN conns'[w] = DOMAIN cs[w]
      /\ \A k \in DOMAIN cs[w] \ {n} : conns'[w][k] = cs[w][k]
      /\ conns'[w][n] = d(st)
  BY <1>5
<1>7. \A x, y \in Window : peers'[x][y] = IF x = w /\ y = p THEN 0 ELSE peers[x][y]
  BY <1>2 DEF ConnsInv
<1> QED  BY <1>2, <1>4, <1>5, <1>6, <1>7

\* The channel of the answer opens once, and has its entry.
LEMMA OpenChannelKeepsHandshakes ==
    ASSUME IntroductionInv, MessagesInv, Handshakes, NEW w \in Window, ~panicked[w],
           NEW n, OpenChannel(w, n)
    PROVE  Handshakes' /\ UNCHANGED panicked
<1>1. n \in DOMAIN conns[w] /\ conns[w][n].stage = "answered" /\ n \in Nat /\ n # 0
  <2>1. n \in DOMAIN conns[w] /\ conns[w][n].stage = "answered"  BY DEF OpenChannel, In
  <2>2. conns[w] \in Seq(Conn)  BY DEF IntroductionInv, ConnsInv, ConnsFit
  <2> QED  BY <2>1, <2>2, LenProperties
<1>2. PICK p \in Window : p = conns[w][n].peer
  BY <1>1, ConnTypes DEF IntroductionInv
<1>3. /\ p < w /\ p # w /\ ~(w < p) /\ Handshake(p, w)
      /\ To(w, p) = {n} /\ peers[w][p] = n /\ conns[w][n].role = "answer"
  BY <1>1, <1>2, AnsweringEnd DEF Answering
<1>4. Refers(p, conns[w][n].remote)
  BY <1>1, <1>2, <1>3 DEF MessagesInv, AnswersDescribed
<1>5. PICK k \in DOMAIN conns[p] : k = conns[w][n].remote[2]
  BY <1>2, <1>4 DEF OpenChannel, Refers
<1> DEFINE e == [conns[p][k] EXCEPT !.ack = TRUE]
           cs == [conns EXCEPT ![p] = [conns[p] EXCEPT ![k] = e]]
<1>6. /\ conns[p][k].peer = w /\ conns[p][k].remote = Id(w, n)
      /\ conns[p][k].stage = "offering" /\ SendPeer(w, n, cs)
      /\ UNCHANGED <<openings, up, down>>
  BY <1>2, <1>5 DEF OpenChannel, Matched
<1>7. conns[p][k] \in Conn /\ conns \in [Window -> Seq(Conn)]
  BY ConnTypes DEF IntroductionInv, ConnsInv, ConnsFit
<1>8. Becomes(conns[p][k], e) /\ e.stage = "offering" /\ e.remote = conns[p][k].remote /\ e.peer = w
  <2>1. Becomes(conns[p][k], e)  BY <1>7, ConnChanges
  <2> QED  BY <1>6, <1>7, <2>1 DEF Conn
<1>9. ConnsInv /\ WindowInv  BY DEF IntroductionInv
<1>10. cs = [conns EXCEPT ![p] = [conns[p] EXCEPT ![k] = e]]  OBVIOUS
<1> HIDE DEF e, cs
<1>11. /\ cs \in [Window -> Seq(Conn)]
       /\ \A x \in Window \ {p} : cs[x] = conns[x]
       /\ DOMAIN cs[p] = DOMAIN conns[p] /\ cs[p][k] = e
       /\ \A j \in DOMAIN conns[p] \ {k} : cs[p][j] = conns[p][j]
  <2>1. ConnsFit(cs)  BY <1>8, <1>9, <1>10, OneConnChanges DEF ConnsInv
  <2>2. \A x \in Window \ {p} : cs[x] = conns[x]  BY <1>7, <1>10
  <2>3. cs[p] = [conns[p] EXCEPT ![k] = e]  BY <1>7, <1>10
  <2> QED  BY <2>1, <2>2, <2>3 DEF ConnsFit
<1>12. cs[w] = conns[w]  BY <1>3, <1>11
<1>13. /\ UNCHANGED panicked
       /\ \A x, y \in Window : peers'[x][y] = IF x = w /\ y = p THEN 0 ELSE peers[x][y]
       /\ \A x \in Window \ {w} : conns'[x] = cs[x]
       /\ DOMAIN conns'[w] = DOMAIN conns[w]
       /\ \A j \in DOMAIN conns[w] \ {n} : conns'[w][j] = conns[w][j]
       /\ conns'[w][n].peer = p /\ conns'[w][n].remote = conns[w][n].remote
       /\ conns'[w][n].ack = conns[w][n].ack /\ conns'[w][n].stage \in {"queued", "dropped"}
  <2>1. n \in DOMAIN cs[w] /\ p = cs[w][n].peer  BY <1>1, <1>2, <1>12
  <2>2. peers[w][p] # 0  BY <1>1, <1>3
  <2> QED  BY <1>6, <1>9, <1>11, <1>12, <2>1, <2>2, SendPeerPasses
<1>14. /\ \A x \in Window : DOMAIN conns'[x] = DOMAIN conns[x]
       /\ \A x \in Window : \A j \in DOMAIN conns[x] :
             /\ conns'[x][j].peer = conns[x][j].peer /\ conns'[x][j].remote = conns[x][j].remote
             /\ ~(x = w /\ j = n) => conns'[x][j].stage = conns[x][j].stage
             /\ ~(x = p /\ j = k) => conns'[x][j].ack = conns[x][j].ack
  <2>1. conns'[p] = cs[p]  BY <1>3, <1>13
  <2>2. \A x \in Window \ {w, p} : conns'[x] = conns[x]  BY <1>11, <1>13
  <2>3. \A j \in DOMAIN conns[p] : conns'[p][j] = IF j = k THEN e ELSE conns[p][j]
    BY <1>11, <2>1
  <2>4. e.peer = conns[p][k].peer /\ e.remote = conns[p][k].remote /\ e.stage = conns[p][k].stage
    BY <1>6, <1>8
  <2>5. DOMAIN conns'[p] = DOMAIN conns[p]  BY <1>11, <2>1
  <2> QED  BY <1>2, <1>3, <1>13, <2>2, <2>3, <2>4, <2>5
<1>15. \A x, y \in Window : To(x, y)' = To(x, y)  BY <1>14 DEF To
<1>16. \A G : \A x, y \in Window : Besides(G, x, y)  BY <1>6, QuietLines
<1>17. Elsewhere(w, p)
  <2> SUFFICES ASSUME NEW x \in Window, NEW y \in Window, {x, y} # {w, p}
               PROVE  Rests(x, y) /\ peers'[x][y] = peers[x][y]
    BY <1>16 DEF Elsewhere
  <2>1. \A j \in To(x, y) : j \in DOMAIN conns[x] /\ ~(x = w /\ j = n) /\ ~(x = p /\ j = k)
    BY <1>2, <1>6 DEF To
  <2>2. Rests(x, y)  BY <1>14, <1>15, <2>1 DEF Rests
  <2> QED  BY <1>13, <2>2
<1>18. Handshake(p, w)'
  <2>1. /\ Offered(p, w)' <=> Offered(p, w)
        /\ Taken(p, w)' <=> Taken(p, w)
    <3>1. \A j \in To(p, w) : j \in DOMAIN conns[p] /\ conns'[p][j].stage = conns[p][j].stage
                              /\ conns'[p][j].remote = conns[p][j].remote
      BY <1>3, <1>14 DEF To
    <3> QED  BY <1>15, <3>1 DEF Offered, Taken
  <2>2. Replied(p, w)' <=> Replied(p, w)  BY <1>15 DEF Replied
  <2>3. Answered(p, w)' <=> Answered(p, w)
    BY <1>1, <1>3, <1>13, <1>15 DEF Answered
  <2>4. /\ WayKeeps(FromTo(p, w), p, w)
        /\ WayKeeps(FromTo(w, p), w, p) /\ OrderKeeps(w, p)
    BY <1>9, <1>16, BesidesRests DEF IntroductionInv
  <2>5. /\ WayKeeps(Sig("Offer", p, w), p, w)
        /\ WayKeeps(Sig("Answer", p, w) \cup Sig("IceCandidate", p, w), p, w)
        /\ WayKeeps(Sig("Answer", w, p), w, p) /\ WayKeeps(Sig("IceCandidate", w, p), w, p)
    BY <2>4 DEF WayKeeps, Sig
  <2>6. OfferWay(p, w)' /\ AnswerWay(p, w)' /\ CandidateWay(p, w)' /\ OneWay(p, w)'
    BY <1>3, <2>1, <2>2, <2>3, <2>4, <2>5, OfferWayRests, AnswerWayRests, CandidateWayRests, OneWayRests
       DEF Handshake
  <2>7. OfferEntry(p, w)'
    <3>1. Id(w, n) # NoConn  BY <1>1 DEF Id, NoConn
    <3>2. peers'[p][w] = peers[p][w]  BY <1>3, <1>13
    <3>3. \A j \in To(p, w) :
              /\ conns'[p][j].stage = conns[p][j].stage /\ conns'[p][j].remote = conns[p][j].remote
              /\ conns'[p][j].remote = NoConn => conns'[p][j].ack = conns[p][j].ack
      BY <1>3, <1>6, <1>14, <3>1 DEF To
    <3> QED  BY <1>3, <1>15, <3>2, <3>3 DEF Handshake, OfferEntry
  <2>8. AnswerEntry(p, w)'
    BY <1>3, <1>13, <1>15 DEF AnswerEntry, Answering
  <2> QED  BY <2>6, <2>7, <2>8 DEF Handshake
<1> QED  BY <1>3, <1>13, <1>17, <1>18, PairsRest DEF IntroductionInv

\* The ACK comes once, and its connection has the entry.
LEMMA ReceiveAckKeepsHandshakes ==
    ASSUME IntroductionInv, ~IntroducedTwice, Handshakes, NEW w \in Window, ~panicked[w],
           NEW n, ReceiveAck(w, n)
    PROVE  Handshakes' /\ UNCHANGED panicked
<1>1. n \in DOMAIN conns[w] /\ conns[w][n].stage = "offering" /\ conns[w][n].ack /\ n \in Nat /\ n # 0
  <2>1. n \in DOMAIN conns[w] /\ conns[w][n].stage = "offering" /\ conns[w][n].ack
    BY DEF ReceiveAck, In
  <2>2. conns[w] \in Seq(Conn)  BY DEF IntroductionInv, ConnsInv, ConnsFit
  <2> QED  BY <2>1, <2>2, LenProperties
<1>2. PICK p \in Window : p = conns[w][n].peer
  BY <1>1, ConnTypes DEF IntroductionInv
<1>3. w < p /\ w # p /\ ~(p < w)
  <2>1. Fits(w, conns[w][n])  BY <1>1, ConnTypes DEF IntroductionInv
  <2>2. w \in Nat /\ p \in Nat  BY WindowAssumption
  <2> QED  BY <1>1, <1>2, <2>1, <2>2 DEF Fits, Offering
<1>4. Handshake(w, p) /\ To(w, p) = {n}
  BY <1>1, <1>2, <1>3, OneOffer DEF Handshakes, To
<1>5. peers[w][p] = n /\ conns[w][n].remote # NoConn
  BY <1>1, <1>4 DEF Handshake, OfferEntry
<1>6. SendPeer(w, n, conns) /\ UNCHANGED <<openings, up, down>>  BY DEF ReceiveAck
<1>7. ConnsInv /\ WindowInv /\ conns \in [Window -> Seq(Conn)]
  BY DEF IntroductionInv, ConnsInv, ConnsFit
<1>8. /\ UNCHANGED panicked
      /\ \A x, y \in Window : peers'[x][y] = IF x = w /\ y = p THEN 0 ELSE peers[x][y]
      /\ \A x \in Window \ {w} : conns'[x] = conns[x]
      /\ DOMAIN conns'[w] = DOMAIN conns[w]
      /\ \A k \in DOMAIN conns[w] \ {n} : conns'[w][k] = conns[w][k]
      /\ conns'[w][n].peer = p /\ conns'[w][n].remote = conns[w][n].remote
      /\ conns'[w][n].ack = conns[w][n].ack /\ conns'[w][n].stage \in {"queued", "dropped"}
  <2>1. peers[w][p] # 0  BY <1>1, <1>5
  <2>2. PICK cs \in [Window -> Seq(Conn)] : cs = conns  BY <1>7
  <2>3. n \in DOMAIN cs[w] /\ p = cs[w][n].peer /\ SendPeer(w, n, cs)
    BY <1>1, <1>2, <1>6, <2>2
  <2> QED  BY <1>7, <2>1, <2>2, <2>3, SendPeerPasses
<1>9. \A x, y \in Window : To(x, y)' = To(x, y)  BY <1>2, <1>8 DEF To
<1>10. \A x, y \in Window : x # w \/ y # p => Rests(x, y)
  <2>1. \A x, y \in Window : x # w \/ y # p =>
            \A j \in To(x, y) : conns'[x][j] = conns[x][j]
    BY <1>2, <1>8 DEF To
  <2> QED  BY <1>9, <2>1 DEF Rests
<1>11. \A G : \A x, y \in Window : Besides(G, x, y)  BY <1>6, QuietLines
<1>12. Elsewhere(w, p)
  <2>1. \A x, y \in Window : {x, y} # {w, p} => x # w \/ y # p  OBVIOUS
  <2> QED  BY <1>8, <1>10, <1>11, <2>1 DEF Elsewhere
<1>13. Handshake(w, p)'
  <2>1. /\ Offered(w, p)' <=> Offered(w, p)
        /\ Taken(w, p)' <=> Taken(w, p)
    BY <1>1, <1>4, <1>8, <1>9 DEF Offered, Taken
  <2>2. Rests(p, w)  BY <1>3, <1>10
  <2>3. /\ Replied(w, p)' <=> Replied(w, p)
        /\ Answered(w, p)' <=> Answered(w, p)
    BY <2>2 DEF Rests, Replied, Answered, Introducing, Answering
  <2>4. /\ WayKeeps(FromTo(w, p), w, p)
        /\ WayKeeps(FromTo(p, w), p, w) /\ OrderKeeps(p, w)
    BY <1>11, BesidesRests DEF IntroductionInv
  <2>5. /\ WayKeeps(Sig("Offer", w, p), w, p)
        /\ WayKeeps(Sig("Answer", w, p) \cup Sig("IceCandidate", w, p), w, p)
        /\ WayKeeps(Sig("Answer", p, w), p, w) /\ WayKeeps(Sig("IceCandidate", p, w), p, w)
    BY <2>4 DEF WayKeeps, Sig
  <2>6. OfferWay(w, p)' /\ AnswerWay(w, p)' /\ CandidateWay(w, p)' /\ OneWay(w, p)'
    BY <1>4, <2>1, <2>3, <2>4, <2>5, OfferWayRests, AnswerWayRests, CandidateWayRests, OneWayRests
       DEF Handshake
  <2>7. OfferEntry(w, p)'
    BY <1>4, <1>5, <1>8, <1>9 DEF OfferEntry, Answering
  <2>8. AnswerEntry(w, p)'
    <3>1. peers'[p][w] = peers[p][w]  BY <1>3, <1>8
    <3> QED  BY <1>4, <2>2, <3>1 DEF Handshake, AnswerEntry, Rests, Introducing
  <2> QED  BY <2>6, <2>7, <2>8 DEF Handshake
<1> QED  BY <1>3, <1>8, <1>12, <1>13, PairsRest DEF IntroductionInv

-----------------------------------------------------------------------------
(* Messages of an introduction *)

LEMMA MessageRead ==
    ASSUME ServerInv, Signed, NEW w \in Window, HandleMessage(w), NEW m, m = Head(down[w])
    PROVE  /\ m \in Heard(w) /\ m \in Command /\ Proper(m)
           /\ m.kind \in Signals => /\ m.from \in Window /\ m.from # w /\ m.target = w
                                    /\ m \in Sig(m.kind, m.from, w)
           /\ \A S : m \in S => ~Clear(down[w], S)
           /\ down[w] # <<>> /\ down'[w] = Tail(down[w]) /\ down[w] \in Seq(Command)
           /\ \A x \in Window : Line(x)' = Line(x)
           /\ \A y \in Window \ {w} : down'[y] = down[y]
<1>1. /\ down[w] # <<>> /\ down' = [down EXCEPT ![w] = Tail(down[w])] /\ UNCHANGED <<openings, up>>
      /\ down[w] \in Seq(Command) /\ down[w] \in Seq(Heard(w)) /\ down \in [Window -> Seq(Command)]
  BY DEF HandleMessage, ServerInv, OffersGoUp, OffersArrive
<1>2. m \in Heard(w) /\ m \in Command /\ 1 \in DOMAIN down[w] /\ m = down[w][1]
  BY <1>1, HeadTailProperties, LenProperties, EmptySeq
<1>3. Proper(m) /\ (m.kind \in Signals => m.target = w)  BY <1>2 DEF Signed, Clear, Stray
<1>4. m.kind \in Signals => /\ m.from \in Window /\ m.from # w /\ m.target = w
                            /\ m \in Sig(m.kind, m.from, w)
  BY <1>2, <1>3, SignalTypes DEF Signals, Proper, Sig, FromTo
<1>5. \A S : m \in S => ~Clear(down[w], S)  BY <1>2 DEF Clear
<1>6. \A x \in Window : Line(x)' = Line(x)  BY <1>1 DEF Line, Current
<1> QED  BY <1>1, <1>2, <1>3, <1>4, <1>5, <1>6

\* A message is taken from the way when there was one of its kind at most.
LEMMA LastIsTaken ==
    ASSUME ServerInv, NEW x \in Window, NEW y \in Window, NEW S, AtMostOne(S, x, y),
           down[y] # <<>>, Head(down[y]) \in S, ~Clear(down[y], S),
           Line(x)' = Line(x), down'[y] = Tail(down[y])
    PROVE  AtMostOne(S, x, y)' /\ ~OnWay(S, x, y)'
<1>1. down[y] \in Seq(Command)  BY DEF ServerInv, OffersGoUp
<1>2. Clear(Tail(down[y]), S) /\ Clear(Line(x), S)  BY <1>1, TailOf DEF AtMostOne
<1> QED  BY <1>2, ClearOf DEF AtMostOne, OnWay

LEMMA OfferKeepsHandshakes ==
    ASSUME IntroductionInv, Signed, Handshakes, NEW w \in Window, HandleMessage(w),
           NEW m, m = Head(down[w]), m.kind = "Offer", HandleOffer(w, m)
    PROVE  Handshakes'
<1>1. ServerInv /\ conns \in [Window -> Seq(Conn)] /\ peers \in [Window -> [Window -> Nat]]
  BY DEF IntroductionInv, ConnsInv, ConnsFit
<1>2. PICK p \in Window : p = m.from
  BY <1>1, MessageRead DEF Signals
<1>3. /\ p < w /\ p # w /\ ~(w < p) /\ m \in Sig("Offer", p, w) /\ m \in Command /\ m.kind = "Offer"
      /\ m.sdp \in Nat \X Nat
  <2>1. m \in Heard(w) /\ m \in Sig("Offer", p, w) /\ p # w  BY <1>1, <1>2, MessageRead DEF Signals
  <2>2. p < w /\ m \in Command  BY <1>2, <2>1 DEF Heard
  <2>3. w \in Nat /\ p \in Nat  BY WindowAssumption
  <2> QED  BY <2>1, <2>2, <2>3, SignalTypes
<1>4. /\ \A S : m \in S => ~Clear(down[w], S)
      /\ down[w] # <<>> /\ down'[w] = Tail(down[w])
      /\ \A x \in Window : Line(x)' = Line(x)
      /\ \A y \in Window \ {w} : down'[y] = down[y]
  BY <1>1, MessageRead
<1>5. /\ Handshake(p, w) /\ Offered(p, w) /\ ~Replied(p, w) /\ ~Answered(p, w) /\ ~Taken(p, w)
      /\ To(w, p) = {}
  <2>1. Handshake(p, w)  BY <1>3 DEF Handshakes
  <2>2. OnWay(Sig("Offer", p, w), p, w)  BY <1>3, <1>4 DEF OnWay
  <2>3. Offered(p, w) /\ ~Replied(p, w)  BY <2>1, <2>2 DEF Handshake, OfferWay
  <2> QED  BY <2>1, <2>3, StatesInOrder DEF Replied
<1> DEFINE c == NewConn(m.from, "answer", m.sdp)
           N == Len(conns[w]) + 1
<1>6. c \in Conn /\ c.peer = p /\ c.stage = "answering"
  BY <1>2, <1>3, NewConnFits DEF NewConn
<1>7. conns' = [conns EXCEPT ![w] = Append(conns[w], c)]  BY DEF HandleOffer
<1>8. InsertPeer(w, m.from, Len(conns'[w]))  BY DEF HandleOffer
<1> HIDE DEF c
<1>9. /\ \A x \in Window \ {w} : conns'[x] = conns[x]
      /\ conns'[w][N] = c /\ DOMAIN conns'[w] = DOMAIN conns[w] \cup {N} /\ N \notin DOMAIN conns[w]
      /\ \A k \in DOMAIN conns[w] : conns'[w][k] = conns[w][k]
      /\ Len(conns'[w]) = N
  <2>1. conns'[w] = Append(conns[w], c) /\ \A x \in Window \ {w} : conns'[x] = conns[x]
    BY <1>1, <1>7
  <2>2. Len(conns[w]) \in Nat /\ DOMAIN conns[w] = 1 .. Len(conns[w])  BY <1>1, LenProperties
  <2>3. /\ Len(conns'[w]) = Len(conns[w]) + 1 /\ DOMAIN conns'[w] = 1 .. Len(conns[w]) + 1
        /\ conns'[w][Len(conns[w]) + 1] = c
        /\ \A k \in DOMAIN conns[w] : conns'[w][k] = conns[w][k]
    BY <1>1, <1>6, <2>1, <2>2, AppendProperties
  <2> QED  BY <2>1, <2>2, <2>3
<1> HIDE DEF N
<1>10. \A x, y \in Window : peers'[x][y] = IF x = w /\ y = p THEN N ELSE peers[x][y]
  BY <1>1, <1>2, <1>8, <1>9 DEF InsertPeer
<1>11. To(w, p)' = {N}
  <2>1. \A k \in DOMAIN conns[w] : conns[w][k].peer # p  BY <1>5 DEF To
  <2> QED  BY <1>6, <1>9, <2>1 DEF To
<1>12. \A x, y \in Window : x # w \/ y # p => Rests(x, y)
  <2>1. \A x, y \in Window : x # w \/ y # p => To(x, y)' = To(x, y)
    BY <1>6, <1>9 DEF To
  <2>2. \A x \in Window : \A k \in DOMAIN conns[x] : conns'[x][k] = conns[x][k]
    BY <1>9
  <2> QED  BY <2>1, <2>2 DEF Rests, To
<1>13. \A G : \A x, y \in Window : y # w \/ m \notin G => Besides(G, x, y)
  BY <1>1, ReadBesides
<1>14. Elsewhere(w, p)
  <2> SUFFICES ASSUME NEW x \in Window, NEW y \in Window, {x, y} # {w, p}
               PROVE  Besides(FromTo(x, y), x, y) /\ Rests(x, y) /\ peers'[x][y] = peers[x][y]
    BY DEF Elsewhere
  <2>1. (x # w \/ y # p) /\ (y # w \/ x # p)  OBVIOUS
  <2>2. y # w \/ m \notin FromTo(x, y)  BY <1>2, <2>1 DEF FromTo
  <2> QED  BY <1>10, <1>12, <1>13, <2>1, <2>2
<1>15. Handshake(p, w)'
  <2>1. Rests(p, w)  BY <1>3, <1>12
  <2>2. Offered(p, w)' /\ ~Taken(p, w)'
    BY <1>5, <2>1 DEF Rests, Offered, Taken, Introducing, Offering
  <2>3. Replied(p, w)' /\ ~Answered(p, w)'
    BY <1>6, <1>9, <1>11 DEF Replied, Answered
  <2>4. OfferWay(p, w)'
    <3> DEFINE O == Sig("Offer", p, w)
    <3>1. AtMostOne(O, p, w) /\ m \in O  BY <1>3, <1>5 DEF Handshake, OfferWay
    <3>2. OfferWay(p, w)' <=> /\ AtMostOne(O, p, w)'
                              /\ OnWay(O, p, w)' => Offered(p, w)' /\ ~Replied(p, w)'
                              /\ Replied(p, w)' => Offered(p, w)'
      BY DEF OfferWay
    <3> HIDE DEF O
    <3>3. AtMostOne(O, p, w)' /\ ~OnWay(O, p, w)'  BY <1>1, <1>4, <3>1, LastIsTaken
    <3> QED  BY <2>2, <3>2, <3>3
  <2>5. WayKeeps(FromTo(w, p), w, p) /\ OrderKeeps(w, p)
    <3>1. Besides(FromTo(w, p), w, p)  BY <1>3, <1>13
    <3> QED  BY <1>1, <3>1, BesidesRests
  <2>6. AnswerWay(p, w)' /\ CandidateWay(p, w)'
    <3>1. WayKeeps(Sig("Answer", w, p), w, p) /\ WayKeeps(Sig("IceCandidate", w, p), w, p)
      BY <2>5 DEF WayKeeps, Sig
    <3> QED
      BY <1>5, <2>2, <2>3, <2>5, <3>1, AnswerWayRests, CandidateWayRests DEF Handshake
  <2>7. OneWay(p, w)'
    <3>1. m \notin Sig("Answer", p, w) \cup Sig("IceCandidate", p, w)  BY <1>3 DEF Sig
    <3>2. Besides(Sig("Answer", p, w) \cup Sig("IceCandidate", p, w), p, w)  BY <1>13, <3>1
    <3>3. WayKeeps(Sig("Answer", p, w) \cup Sig("IceCandidate", p, w), p, w)
      BY <1>1, <3>2, BesidesKeeps
    <3> QED  BY <1>5, <3>3, OneWayRests DEF Handshake
  <2>8. OfferEntry(p, w)'
    <3>1. peers'[p][w] = peers[p][w]  BY <1>3, <1>10
    <3> QED  BY <1>5, <2>1, <3>1 DEF Handshake, OfferEntry, Rests, Introducing, Offering, Answering
  <2>9. AnswerEntry(p, w)'  BY <1>10, <1>11 DEF AnswerEntry
  <2> QED  BY <2>4, <2>6, <2>7, <2>8, <2>9 DEF Handshake
<1> QED  BY <1>1, <1>3, <1>14, <1>15, PairsRest

\* What comes back from a window comes from a greater one.
LEMMA AnsweredFromAbove ==
    ASSUME IntroductionInv, Signed, Handshakes, NEW w \in Window, HandleMessage(w),
           NEW m, m = Head(down[w]), m.kind \in {"Answer", "IceCandidate"},
           NEW p \in Window, p = m.from
    PROVE  w < p /\ w # p /\ ~(p < w) /\ Handshake(w, p) /\ m \in Sig(m.kind, p, w)
<1>1. m \in Sig(m.kind, p, w) /\ p # w /\ ~Clear(down[w], Sig(m.kind, p, w))
  BY MessageRead DEF Signals, IntroductionInv
<1>2. ~(p < w)
  BY <1>1 DEF Handshakes, Handshake, OneWay, OnWay
<1>3. w < p
  <2>1. w \in Nat /\ p \in Nat  BY WindowAssumption
  <2> QED  BY <1>1, <1>2, <2>1
<1> QED  BY <1>1, <1>2, <1>3 DEF Handshakes

\* The answer finds the connection that it is for.
LEMMA AnswerKeepsHandshakes ==
    ASSUME IntroductionInv, ~IntroducedTwice, Signed, Handshakes, NEW w \in Window,
           HandleMessage(w), NEW m, m = Head(down[w]), m.kind = "Answer", HandleAnswer(w, m)
    PROVE  Handshakes' /\ UNCHANGED <<initiating, panicked>>
<1>1. /\ ServerInv /\ ConnsInv /\ conns \in [Window -> Seq(Conn)]
      /\ peers \in [Window -> [Window -> Nat]]
  BY DEF IntroductionInv, ConnsInv, ConnsFit
<1>2. PICK p \in Window : p = m.from
  BY <1>1, MessageRead DEF Signals
<1>3. /\ w < p /\ w # p /\ ~(p < w) /\ Handshake(w, p) /\ m \in Sig("Answer", p, w)
  BY <1>2, AnsweredFromAbove
<1>4. /\ \A S : m \in S => ~Clear(down[w], S)
      /\ down[w] # <<>> /\ down'[w] = Tail(down[w])
      /\ \A x \in Window : Line(x)' = Line(x)
      /\ m \in Command /\ m.sdp # NoConn
  BY <1>1, MessageRead DEF Proper
<1>5. Answered(w, p) /\ ~Taken(w, p) /\ Offered(w, p)
  <2>1. OnWay(Sig("Answer", p, w), p, w)  BY <1>3, <1>4 DEF OnWay
  <2> QED  BY <1>3, <2>1, StatesInOrder DEF Handshake, AnswerWay
<1>6. PICK k \in To(w, p) : conns[w][k].stage # "describing"
  BY <1>5 DEF Offered
<1>7. /\ To(w, p) = {k} /\ k \in DOMAIN conns[w] /\ conns[w][k].peer = p
      /\ conns[w][k].role = "offer" /\ conns[w][k] \in Conn /\ k # 0
  <2>1. k \in DOMAIN conns[w] /\ conns[w][k].peer = p  BY DEF To
  <2>2. \A j, i \in To(w, p) : j = i  BY <1>3, OneOffer
  <2>3. conns[w][k].role = "offer"  BY <1>3, OneOffer
  <2>4. k # 0
    <3>1. conns[w] \in Seq(Conn)  BY <1>1
    <3> QED  BY <2>1, <3>1, LenProperties
  <2> QED  BY <1>1, <2>1, <2>2, <2>3, <2>4, ConnTypes
<1>8. conns[w][k].remote = NoConn /\ conns[w][k].stage = "offering" /\ peers[w][p] = k
  <2>1. conns[w][k].remote = NoConn  BY <1>5 DEF Taken
  <2>2. conns[w][k].stage \in Offering  BY <1>3, <2>1 DEF Handshake, OfferEntry
  <2>3. conns[w][k].stage = "offering"  BY <1>6, <2>2 DEF Offering
  <2> QED  BY <1>3, <2>1, <2>3 DEF Handshake, OfferEntry
<1> DEFINE d == [conns[w][k] EXCEPT !.remote = m.sdp]
<1>9. /\ conns' = [conns EXCEPT ![w] = [conns[w] EXCEPT ![k] = d]]
      /\ UNCHANGED <<peers, initiating, panicked>>
  <2>1. peers[w][m.from] = k /\ TakesAnswer(conns[w][k])  BY <1>2, <1>7, <1>8 DEF TakesAnswer
  <2> QED  BY <1>7, <2>1 DEF HandleAnswer
<1>10. SameEnds(conns[w][k], d) /\ d.stage = "offering" /\ d.remote = m.sdp
  BY <1>7, <1>8 DEF Conn, SameEnds, TakesAnswer
<1> HIDE DEF d
<1>11. /\ \A x, y \in Window : To(x, y)' = To(x, y)
       /\ conns'[w][k] = d
       /\ \A x, y \in Window : x # w \/ y # p => Rests(x, y)
  <2>1. Turns(w, k, d)  BY <1>9, <1>10 DEF Turns
  <2> QED  BY <1>1, <1>7, <2>1, OneConnRests
<1>12. \A G : \A x, y \in Window : y # w \/ m \notin G => Besides(G, x, y)
  BY <1>1, ReadBesides
<1>13. Elsewhere(w, p)
  <2> SUFFICES ASSUME NEW x \in Window, NEW y \in Window, {x, y} # {w, p}
               PROVE  Besides(FromTo(x, y), x, y) /\ Rests(x, y) /\ peers'[x][y] = peers[x][y]
    BY DEF Elsewhere
  <2>1. (x # w \/ y # p) /\ (y # w \/ x # p)  OBVIOUS
  <2>2. y # w \/ m \notin FromTo(x, y)  BY <1>2, <2>1 DEF FromTo
  <2> QED  BY <1>9, <1>11, <1>12, <2>1, <2>2
<1>14. Handshake(w, p)'
  <2>1. Rests(p, w)  BY <1>3, <1>11
  <2>2. Offered(w, p)' /\ Taken(w, p)'
    BY <1>4, <1>7, <1>10, <1>11 DEF Offered, Taken
  <2>3. /\ Replied(w, p)' <=> Replied(w, p)
        /\ Answered(w, p)' <=> Answered(w, p)
    BY <2>1 DEF Rests, Replied, Answered, Introducing, Answering
  <2>4. WayKeeps(FromTo(w, p), w, p)
    <3>1. Besides(FromTo(w, p), w, p)  BY <1>3, <1>12
    <3> QED  BY <1>1, <3>1, BesidesRests
  <2>5. OfferWay(w, p)' /\ OneWay(w, p)'
    <3>1. /\ WayKeeps(Sig("Offer", w, p), w, p)
          /\ WayKeeps(Sig("Answer", w, p) \cup Sig("IceCandidate", w, p), w, p)
      BY <2>4 DEF WayKeeps, Sig
    <3> QED  BY <1>3, <1>5, <2>2, <2>3, <3>1, OfferWayRests, OneWayRests DEF Handshake
  <2>6. AnswerWay(w, p)'
    <3> DEFINE A == Sig("Answer", p, w)
    <3>1. AtMostOne(A, p, w) /\ m \in A  BY <1>3 DEF Handshake, AnswerWay
    <3>2. AnswerWay(w, p)' <=> /\ AtMostOne(A, p, w)'
                               /\ OnWay(A, p, w)' => Answered(w, p)' /\ ~Taken(w, p)'
                               /\ Taken(w, p)' => Answered(w, p)'
      BY DEF AnswerWay
    <3> HIDE DEF A
    <3>3. AtMostOne(A, p, w)' /\ ~OnWay(A, p, w)'  BY <1>1, <1>4, <3>1, LastIsTaken
    <3> QED  BY <1>5, <2>3, <3>2, <3>3
  <2>7. CandidateWay(w, p)'
    <3>1. m \notin Sig("IceCandidate", p, w)  BY <1>3 DEF Sig
    <3>2. Besides(Sig("IceCandidate", p, w), p, w)  BY <1>12, <3>1
    <3>3. WayKeeps(Sig("IceCandidate", p, w), p, w)  BY <1>1, <3>2, BesidesKeeps
    <3> QED  BY <1>3, <2>2, <2>3, <3>3, CandidateWayRests DEF Handshake
  <2>8. OfferEntry(w, p)'
    BY <1>4, <1>7, <1>8, <1>9, <1>10, <1>11 DEF OfferEntry, Answering
  <2>9. AnswerEntry(w, p)'
    <3>1. peers'[p][w] = peers[p][w]  BY <1>9
    <3> QED  BY <1>3, <2>1, <3>1 DEF Handshake, AnswerEntry, Rests, Introducing
  <2> QED  BY <2>5, <2>6, <2>7, <2>8, <2>9 DEF Handshake
<1> QED  BY <1>1, <1>3, <1>9, <1>13, <1>14, PairsRest

\* The candidate finds the description that it needs: it came after the answer.
LEMMA CandidateKeepsHandshakes ==
    ASSUME IntroductionInv, ~IntroducedTwice, Signed, Handshakes, NEW w \in Window,
           HandleMessage(w), NEW m, m = Head(down[w]), m.kind = "IceCandidate",
           HandleIceCandidate(w, m)
    PROVE  Handshakes' /\ UNCHANGED <<initiating, panicked>>
<1>1. /\ ServerInv /\ ConnsInv /\ conns \in [Window -> Seq(Conn)]
      /\ peers \in [Window -> [Window -> Nat]]
  BY DEF IntroductionInv, ConnsInv, ConnsFit
<1>2. PICK p \in Window : p = m.from
  BY <1>1, MessageRead DEF Signals
<1>3. /\ w < p /\ w # p /\ ~(p < w) /\ Handshake(w, p) /\ m \in Sig("IceCandidate", p, w)
  BY <1>2, AnsweredFromAbove
<1>4. /\ \A S : m \in S => ~Clear(down[w], S)
      /\ down[w] # <<>> /\ down[w] \in Seq(Command)
  BY <1>1, MessageRead
<1>5. Answered(w, p) /\ Taken(w, p)
  <2> DEFINE I == Sig("IceCandidate", p, w)
             A == Sig("Answer", p, w)
  <2>1. OnWay(I, p, w)  BY <1>3, <1>4 DEF OnWay
  <2>2. Answered(w, p)  BY <1>3, <2>1 DEF Handshake, CandidateWay
  <2>3. Taken(w, p) \/ Led(down[w], I, A)
    BY <1>3 DEF Handshake, CandidateWay, Follows
  <2>4. Head(down[w]) \in I  BY <1>3
  <2> HIDE DEF I, A
  <2>5. ~Led(down[w], I, A)  BY <1>4, <2>4, TailOf
  <2> QED  BY <2>2, <2>3, <2>5
<1>6. UNCHANGED <<conns, peers, initiating, panicked>>
  <2>1. ASSUME peers[w][p] # 0 PROVE conns[w][peers[w][p]].remote # NoConn
    <3>1. peers[w][p] \in To(w, p)  BY <1>1, <2>1 DEF ConnsInv, EntriesMade, To
    <3> QED  BY <1>3, <1>5, <3>1, OneOffer DEF Taken
  <2> QED  BY <1>2, <2>1 DEF HandleIceCandidate, stateVars
<1>7. \A x, y \in Window : Rests(x, y)  BY <1>6 DEF Rests, To
<1>8. \A G : \A x, y \in Window : y # w \/ m \notin G => Besides(G, x, y)
  BY <1>1, ReadBesides
<1>9. Elsewhere(w, p)
  <2> SUFFICES ASSUME NEW x \in Window, NEW y \in Window, {x, y} # {w, p}
               PROVE  Besides(FromTo(x, y), x, y)
    BY <1>6, <1>7 DEF Elsewhere
  <2>1. (x # w \/ y # p) /\ (y # w \/ x # p)  OBVIOUS
  <2>2. y # w \/ m \notin FromTo(x, y)  BY <1>2, <2>1 DEF FromTo
  <2> QED  BY <1>8, <2>2
<1>10. Handshake(w, p)'
  <2>1. /\ Offered(w, p)' <=> Offered(w, p)
        /\ Replied(w, p)' <=> Replied(w, p)
        /\ Answered(w, p)' <=> Answered(w, p)
        /\ Taken(w, p)' <=> Taken(w, p)
    BY <1>7, StatesRest
  <2>2. OfferEntry(w, p)' /\ AnswerEntry(w, p)'
    BY <1>3, <1>6, <1>7, EntriesRest DEF Handshake
  <2>3. WayKeeps(FromTo(w, p), w, p)
    <3>1. Besides(FromTo(w, p), w, p)  BY <1>3, <1>8
    <3> QED  BY <1>1, <3>1, BesidesRests
  <2>4. OfferWay(w, p)' /\ OneWay(w, p)'
    <3>1. /\ WayKeeps(Sig("Offer", w, p), w, p)
          /\ WayKeeps(Sig("Answer", w, p) \cup Sig("IceCandidate", w, p), w, p)
      BY <2>3 DEF WayKeeps, Sig
    <3> QED  BY <1>3, <2>1, <3>1, OfferWayRests, OneWayRests DEF Handshake
  <2>5. AnswerWay(w, p)'
    <3>1. m \notin Sig("Answer", p, w)  BY <1>3 DEF Sig
    <3>2. Besides(Sig("Answer", p, w), p, w)  BY <1>8, <3>1
    <3>3. WayKeeps(Sig("Answer", p, w), p, w)  BY <1>1, <3>2, BesidesKeeps
    <3> QED  BY <1>3, <2>1, <3>3, AnswerWayRests DEF Handshake
  <2>6. CandidateWay(w, p)'  BY <1>5, <2>1 DEF CandidateWay
  <2> QED  BY <2>2, <2>4, <2>5, <2>6 DEF Handshake
<1> QED  BY <1>1, <1>3, <1>6, <1>9, <1>10, PairsRest

\* What handle_session_update makes is new, and nothing was said about it.
LEMMA OffersAreMade ==
    ASSUME IntroductionInv, NEW w \in Window, NEW m \in Command, m.kind = "SessionStatus",
           HandleSessionUpdate(w, m)
    PROVE  /\ \A v \in Window \ {w} : conns'[v] = conns[v]
           /\ \A k \in DOMAIN conns[w] : k \in DOMAIN conns'[w] /\ conns'[w][k] = conns[w][k]
           /\ \A k \in DOMAIN conns'[w] \ DOMAIN conns[w] :
                 /\ conns'[w][k].peer \in Window /\ conns'[w][k].peer > w
                 /\ conns'[w][k].role = "offer" /\ conns'[w][k].stage = "describing"
                 /\ conns'[w][k].remote = NoConn /\ conns'[w][k].ack = FALSE
<1>1. conns \in [Window -> Seq(Conn)] /\ Len(conns[w]) \in Nat /\ DOMAIN conns[w] = 1 .. Len(conns[w])
  BY LenProperties DEF IntroductionInv, ConnsInv, ConnsFit
<1> DEFINE S == {p \in m.online : p > w /\ p \notin online[w]}
<1>2. IsFiniteSet(S) /\ S \subseteq Window /\ \A p \in S : p > w
  BY WindowAssumption, FS_Subset DEF Command
<1>3. Cardinality(S) \in Nat  BY <1>2, FS_CardinalityType
<1>4. PICK new \in Orders(S) :
          conns' = [conns EXCEPT ![w] = @ \o [k \in DOMAIN new |-> NewConn(new[k], "offer", NoConn)]]
  BY DEF HandleSessionUpdate
<1> DEFINE made == [k \in DOMAIN new |-> NewConn(new[k], "offer", NoConn)]
<1>5. new \in [1 .. Cardinality(S) -> S]  BY <1>4 DEF Orders
<1> HIDE DEF S
<1>6. /\ made \in Seq({made[k] : k \in DOMAIN made})
      /\ Len(made) = Cardinality(S) /\ DOMAIN made = 1 .. Cardinality(S)
  <2>1. made \in [1 .. Cardinality(S) -> {made[k] : k \in DOMAIN made}]  BY <1>5
  <2>2. made \in Seq({made[k] : k \in DOMAIN made})  BY <1>3, <2>1, ListIsSequence
  <2> QED  BY <1>3, <2>1, <2>2, LenProperties
<1>7. \A k \in DOMAIN made :
          /\ made[k].peer \in Window /\ made[k].peer > w
          /\ made[k].role = "offer" /\ made[k].stage = "describing"
          /\ made[k].remote = NoConn /\ made[k].ack = FALSE
  <2>1. TAKE k \in DOMAIN made
  <2>2. new[k] \in Window /\ new[k] > w  BY <1>2, <1>5
  <2>3. made[k] = NewConn(new[k], "offer", NoConn)  OBVIOUS
  <2> QED  BY <2>2, <2>3 DEF NewConn
<1>8. conns'[w] = conns[w] \o made /\ \A v \in Window \ {w} : conns'[v] = conns[v]
  BY <1>1, <1>4
<1> HIDE DEF made
<1>9. \A k \in DOMAIN conns'[w] \ DOMAIN conns[w] :
          k - Len(conns[w]) \in DOMAIN made /\ conns'[w][k] = made[k - Len(conns[w])]
  <2>1. TAKE k \in DOMAIN conns'[w] \ DOMAIN conns[w]
  <2>2. k \in 1 .. Len(conns[w]) + Len(made) /\ k \notin 1 .. Len(conns[w])
    BY <1>1, <1>3, <1>6, <1>8
  <2> QED  BY <1>1, <1>3, <1>6, <1>8, <2>2
<1>10. \A k \in DOMAIN conns[w] : k \in DOMAIN conns'[w] /\ conns'[w][k] = conns[w][k]
  BY <1>1, <1>3, <1>6, <1>8
<1> QED  BY <1>7, <1>8, <1>9, <1>10

LEMMA SessionUpdateKeepsHandshakes ==
    ASSUME IntroductionInv, ~IntroducedTwice', Signed, Handshakes, NEW w \in Window,
           HandleMessage(w), NEW m, m = Head(down[w]), m.kind = "SessionStatus",
           HandleSessionUpdate(w, m)
    PROVE  Handshakes' /\ UNCHANGED <<initiating, panicked>>
<1>1. ServerInv /\ ConnsInv /\ m \in Command
  BY MessageRead DEF IntroductionInv
<1>2. /\ \A v \in Window \ {w} : conns'[v] = conns[v]
      /\ \A k \in DOMAIN conns[w] : k \in DOMAIN conns'[w] /\ conns'[w][k] = conns[w][k]
      /\ \A k \in DOMAIN conns'[w] \ DOMAIN conns[w] :
            /\ conns'[w][k].peer \in Window /\ conns'[w][k].peer > w
            /\ conns'[w][k].role = "offer" /\ conns'[w][k].stage = "describing"
            /\ conns'[w][k].remote = NoConn /\ conns'[w][k].ack = FALSE
  BY <1>1, OffersAreMade
<1>3. UNCHANGED <<peers, initiating, panicked>>  BY DEF HandleSessionUpdate
<1>4. \A x, y \in Window : WayKeeps(FromTo(x, y), x, y) /\ OrderKeeps(x, y)
  <2>1. TAKE x, y \in Window
  <2>2. m \notin FromTo(x, y)  BY DEF FromTo, Signals
  <2>3. Besides(FromTo(x, y), x, y)  BY <1>1, <2>2, ReadBesides
  <2> QED  BY <1>1, <2>3, BesidesRests
<1>5. \A x, y \in Window : x # w \/ ~(w < y) \/ To(w, y)' = To(w, y) => Rests(x, y)
  <2> SUFFICES ASSUME NEW x \in Window, NEW y \in Window, x # w \/ ~(w < y) \/ To(w, y)' = To(w, y)
               PROVE  Rests(x, y)
    OBVIOUS
  <2>1. To(x, y)' = To(x, y)
    <3>1. CASE x # w  BY <1>2, <3>1 DEF To
    <3>2. CASE x = w /\ ~(w < y)
      <4>1. \A k \in DOMAIN conns'[w] \ DOMAIN conns[w] : conns'[w][k].peer # y
        <5>1. w \in Nat /\ Window \subseteq Nat  BY WindowAssumption
        <5> QED  BY <1>2, <3>2, <5>1
      <4> QED  BY <1>2, <3>2, <4>1 DEF To
    <3> QED  BY <3>1, <3>2
  <2>2. \A k \in To(x, y) : conns'[x][k] = conns[x][k]  BY <1>2 DEF To
  <2> QED  BY <2>1, <2>2 DEF Rests
<1> SUFFICES ASSUME NEW a \in Window, NEW b \in Window, a < b PROVE Handshake(a, b)'
  BY <1>3 DEF Handshakes
<1>6. Handshake(a, b) /\ ~(b < a) /\ a # b
  <2>1. a \in Nat /\ b \in Nat  BY WindowAssumption
  <2> QED  BY <2>1 DEF Handshakes
<1>7. Rests(b, a)  BY <1>5, <1>6
<1>8. CASE a # w \/ To(w, b)' = To(w, b)
  <2>1. Rests(a, b)  BY <1>5, <1>8
  <2> QED  BY <1>3, <1>4, <1>6, <1>7, <2>1, HandshakeRests
<1>9. CASE a = w /\ To(w, b)' # To(w, b)
  <2>1. PICK k \in DOMAIN conns'[w] \ DOMAIN conns[w] : conns'[w][k].peer = b
    BY <1>2, <1>9 DEF To
  <2>2. To(w, b) = {}
    <3> SUFFICES ASSUME NEW j \in To(w, b) PROVE FALSE
      OBVIOUS
    <3>1. j \in DOMAIN conns[w] /\ conns[w][j].peer = b  BY DEF To
    <3>2. conns[w][j].role = "offer"
      <4>1. Fits(w, conns[w][j])  BY <1>1, <3>1, ConnTypes
      <4>2. w \in Nat /\ b \in Nat  BY WindowAssumption
      <4> QED  BY <1>9, <3>1, <4>1, <4>2 DEF Fits
    <3>3. /\ j \in DOMAIN conns'[w] /\ k \in DOMAIN conns'[w] /\ j # k
          /\ conns'[w][j].peer = conns'[w][k].peer
          /\ conns'[w][j].role = "offer" /\ conns'[w][k].role = "offer"
      BY <1>2, <2>1, <3>1, <3>2
    <3> QED  BY <3>3 DEF IntroducedTwice
  <2>3. \A j \in To(w, b)' : /\ conns'[w][j].stage = "describing"
                             /\ conns'[w][j].remote = NoConn /\ conns'[w][j].ack = FALSE
    BY <1>2, <2>2 DEF To
  <2>4. ~Offered(w, b) /\ ~Taken(w, b)  BY <2>2 DEF Offered, Taken
  <2>5. ~Offered(w, b)' /\ ~Taken(w, b)'  BY <2>3 DEF Offered, Taken
  <2>6. /\ Replied(w, b)' <=> Replied(w, b)
        /\ Answered(w, b)' <=> Answered(w, b)
    BY <1>7, <1>9 DEF Rests, Replied, Answered, Introducing, Answering
  <2>7. /\ WayKeeps(Sig("Offer", w, b), w, b)
        /\ WayKeeps(Sig("Answer", w, b) \cup Sig("IceCandidate", w, b), w, b)
        /\ WayKeeps(Sig("Answer", b, w), b, w) /\ WayKeeps(Sig("IceCandidate", b, w), b, w)
    BY <1>4 DEF WayKeeps, Sig
  <2>8. OfferWay(w, b)' /\ AnswerWay(w, b)' /\ CandidateWay(w, b)' /\ OneWay(w, b)'
    BY <1>4, <1>6, <1>9, <2>4, <2>5, <2>6, <2>7, OfferWayRests, AnswerWayRests, CandidateWayRests,
       OneWayRests DEF Handshake
  <2>9. OfferEntry(w, b)'  BY <2>3 DEF OfferEntry, Answering, Offering
  <2>10. AnswerEntry(w, b)'
    BY <1>3, <1>6, <1>7, <1>9 DEF Handshake, AnswerEntry, Rests, Introducing
  <2> QED  BY <1>9, <2>8, <2>9, <2>10 DEF Handshake
<1> QED  BY <1>8, <1>9

\* A window that has not panicked handles what it gets, and goes on.
LEMMA MessageKeepsHandshakes ==
    ASSUME IntroductionInv, ~IntroducedTwice, ~IntroducedTwice', Signed, Handshakes,
           NEW w \in Window, ~panicked[w], HandleMessage(w)
    PROVE  Handshakes' /\ UNCHANGED <<initiating, panicked>>
<1>1. PICK m : m = Head(down[w])  OBVIOUS
<1>2. \/ m.kind = "SessionStatus" /\ HandleSessionUpdate(w, m)
      \/ m.kind = "Offer" /\ HandleOffer(w, m)
      \/ m.kind = "Answer" /\ HandleAnswer(w, m)
      \/ m.kind = "IceCandidate" /\ HandleIceCandidate(w, m)
  BY <1>1 DEF HandleMessage
<1>3. HandleOffer(w, m) => UNCHANGED <<initiating, panicked>>  BY DEF HandleOffer
<1>4. CASE m.kind = "SessionStatus" /\ HandleSessionUpdate(w, m)
  BY <1>1, <1>4, SessionUpdateKeepsHandshakes
<1>5. CASE m.kind = "Offer" /\ HandleOffer(w, m)
  BY <1>1, <1>3, <1>5, OfferKeepsHandshakes
<1>6. CASE m.kind = "Answer" /\ HandleAnswer(w, m)
  BY <1>1, <1>6, AnswerKeepsHandshakes
<1>7. CASE m.kind = "IceCandidate" /\ HandleIceCandidate(w, m)
  BY <1>1, <1>7, CandidateKeepsHandshakes
<1> QED  BY <1>2, <1>4, <1>5, <1>6, <1>7

-----------------------------------------------------------------------------
(* Steps beside the introductions *)

LEMMA QuietKeepsHandshakes ==
    ASSUME ServerInv, Handshakes, UNCHANGED <<openings, up, down, peers>>,
           \A x, y \in Window : Rests(x, y)
    PROVE  Handshakes'
<1> SUFFICES ASSUME NEW a \in Window, NEW b \in Window, a < b PROVE Handshake(a, b)'
  BY DEF Handshakes
<1>1. \A x, y \in Window : Besides(FromTo(x, y), x, y)  BY QuietLines
<1> QED  BY <1>1, BesidesRests, HandshakeRests DEF Handshakes

\* A connection moves on after its channel is handed over.
MovesOn(c, d) ==
    /\ d.peer = c.peer /\ d.remote = c.remote /\ d.ack = c.ack
    /\ d.stage = c.stage \/ (d.stage \notin Introducing /\ c.stage \notin Introducing)

LEMMA MovingRests ==
    ASSUME NEW w \in Window, \A v \in Window \ {w} : conns'[v] = conns[v],
           DOMAIN conns'[w] = DOMAIN conns[w],
           \A n \in DOMAIN conns[w] : MovesOn(conns[w][n], conns'[w][n])
    PROVE  \A x, y \in Window : Rests(x, y)
<1>1. TAKE x, y \in Window
<1>2. CASE x # w  BY <1>2 DEF Rests, To
<1>3. CASE x = w
  <2>1. To(w, y)' = To(w, y)  BY DEF To, MovesOn
  <2>2. \A n \in To(w, y) : MovesOn(conns[w][n], conns'[w][n])  BY DEF To
  <2> QED  BY <1>3, <2>1, <2>2 DEF Rests, MovesOn
<1> QED  BY <1>2, <1>3

LEMMA StageMoves ==
    ASSUME NEW c \in Conn, NEW st, c.stage \notin Introducing, st \notin Introducing
    PROVE  MovesOn(c, [c EXCEPT !.stage = st])
BY DEF Conn, MovesOn

LEMMA DropMoves ==
    ASSUME NEW c \in Conn, NEW dropped, NEW shut, dropped => c.stage \notin Introducing
    PROVE  MovesOn(c, Drop(c, dropped, shut))
<1> DEFINE st == IF dropped THEN "closed" ELSE c.stage
           b == c.shut \/ shut
<1>1. Drop(c, dropped, shut) = [c EXCEPT !.stage = st, !.shut = b]
  BY Zenon DEF Drop
<1> HIDE DEF b
<1>2. st = c.stage \/ (st \notin Introducing /\ c.stage \notin Introducing)
  <2>1. "closed" \notin Introducing  BY DEF Introducing, Offering, Answering
  <2> QED  BY <2>1, Zenon
<1> HIDE DEF st
<1> DEFINE d == [c EXCEPT !.stage = st, !.shut = b]
<1>3. d.peer = c.peer /\ d.remote = c.remote /\ d.ack = c.ack /\ d.stage = st
  BY Zenon DEF Conn
<1> HIDE DEF d
<1>4. MovesOn(c, d)  BY <1>2, <1>3, Zenon DEF MovesOn
<1> QED  BY <1>1, <1>4, Zenon DEF d

LEMMA StartPeerRests ==
    ASSUME ConnsInv, NEW w \in Window, NEW n \in At(conns, w, "queued"),
           BootstrapPeer(w, n) \/ HandleNewPeer(w, n)
    PROVE  \A x, y \in Window : Rests(x, y)
<1>1. /\ n \in DOMAIN conns[w] /\ conns[w][n].stage = "queued"
      /\ conns \in [Window -> Seq(Conn)] /\ \A k \in DOMAIN conns[w] : conns[w][k] \in Conn
  BY ConnTypes DEF At, ConnsInv, ConnsFit
<1>2. /\ \A st \in {"held", "served", "queued"} : st \notin Introducing
      /\ \A c : MovesOn(c, c)
  BY DEF Introducing, Offering, Answering, MovesOn
<1>3. CASE BootstrapPeer(w, n)
  <2> DEFINE st == IF Cardinality(Held(w)) + 1 >= ClusterSize - 1 THEN "served" ELSE "held"
             N == Held(w) \cup {n}
  <2>1. conns' = [conns EXCEPT ![w] = [k \in DOMAIN conns[w] |->
                    IF k \in N THEN [conns[w][k] EXCEPT !.stage = st] ELSE conns[w][k]]]
    BY <1>3 DEF BootstrapPeer
  <2>2. st \notin Introducing /\ \A k \in DOMAIN conns[w] : k \in N => conns[w][k].stage \notin Introducing
    BY <1>1, <1>2 DEF Held
  <2> HIDE DEF st, N
  <2>3. \A k \in DOMAIN conns[w] : k \in N => MovesOn(conns[w][k], [conns[w][k] EXCEPT !.stage = st])
    BY <1>1, <2>2, StageMoves
  <2>4. /\ \A v \in Window \ {w} : conns'[v] = conns[v]
        /\ DOMAIN conns'[w] = DOMAIN conns[w]
        /\ \A k \in DOMAIN conns[w] :
              conns'[w][k] = IF k \in N THEN [conns[w][k] EXCEPT !.stage = st] ELSE conns[w][k]
    BY <1>1, <2>1
  <2> QED  BY <1>2, <2>3, <2>4, MovingRests
<1>4. CASE HandleNewPeer(w, n)
  <2> DEFINE d == [conns[w][n] EXCEPT !.stage = "served"]
  <2>1. conns' = [conns EXCEPT ![w] = [conns[w] EXCEPT ![n] = d]]  BY <1>4 DEF HandleNewPeer
  <2>2. MovesOn(conns[w][n], d)  BY <1>1, <1>2, StageMoves
  <2> HIDE DEF d
  <2>3. /\ \A v \in Window \ {w} : conns'[v] = conns[v]
        /\ DOMAIN conns'[w] = DOMAIN conns[w]
        /\ \A k \in DOMAIN conns[w] : conns'[w][k] = IF k = n THEN d ELSE conns[w][k]
    BY <1>1, <2>1
  <2> QED  BY <1>2, <2>2, <2>3, MovingRests
<1> QED  BY <1>3, <1>4

LEMMA ChannelClosesRests ==
    ASSUME ConnsInv, NEW w \in Window, NEW n, ChannelCloses(w, n)
    PROVE  \A x, y \in Window : Rests(x, y)
<1> DEFINE l == IF conns[w][n].stage \in {"held", "served"} THEN "closed" ELSE "missed"
           d == [conns[w][n] EXCEPT !.link = l]
<1>1. /\ n \in DOMAIN conns[w] /\ conns' = [conns EXCEPT ![w] = [conns[w] EXCEPT ![n] = d]]
      /\ conns \in [Window -> Seq(Conn)]
  BY DEF ChannelCloses, ConnsInv, ConnsFit
<1>2. conns[w][n] \in Conn  BY <1>1, ConnTypes
<1> HIDE DEF l
<1>3. MovesOn(conns[w][n], d)  BY <1>2 DEF Conn, MovesOn
<1> HIDE DEF d
<1>4. /\ \A v \in Window \ {w} : conns'[v] = conns[v]
      /\ DOMAIN conns'[w] = DOMAIN conns[w]
      /\ \A k \in DOMAIN conns[w] : conns'[w][k] = IF k = n THEN d ELSE conns[w][k]
  BY <1>1
<1>5. \A k \in DOMAIN conns[w] : MovesOn(conns[w][k], conns'[w][k])
  BY <1>3, <1>4 DEF MovesOn
<1> QED  BY <1>4, <1>5, MovingRests

LEMMA ServeEndsRests ==
    ASSUME ConnsInv, NEW w \in Window, NEW n, ServeEnds(w, n)
    PROVE  \A x, y \in Window : Rests(x, y)
<1> DEFINE shut(k) == \E j \in {n} : conns[w][j].pc = k
           d(k) == Drop(conns[w][k], k \in {n}, shut(k))
<1>1. conns[w][n].stage \notin Introducing
  BY DEF ServeEnds, In, Introducing, Offering, Answering
<1>2. \A k \in DOMAIN conns[w] : MovesOn(conns[w][k], d(k))
  <2>1. TAKE k \in DOMAIN conns[w]
  <2>2. conns[w][k] \in Conn  BY ConnTypes
  <2>3. k \in {n} => conns[w][k].stage \notin Introducing  BY <1>1
  <2> HIDE DEF shut
  <2> QED  BY <2>2, <2>3, DropMoves, Zenon
<1>3. conns' = [conns EXCEPT ![w] = [k \in DOMAIN conns[w] |-> d(k)]]
  BY DEF ServeEnds, DropServers
<1> HIDE DEF d
<1>4. /\ \A v \in Window \ {w} : conns'[v] = conns[v]
      /\ DOMAIN conns'[w] = DOMAIN conns[w]
      /\ \A k \in DOMAIN conns[w] : conns'[w][k] = d(k)
  BY <1>3 DEF ConnsInv, ConnsFit
<1> QED  BY <1>2, <1>4, MovingRests

\* The introducer doubles nothing, and keeps the order of what it passes on.
LEMMA IntroducerKeepsHandshakes ==
    ASSUME IntroductionInv, Listening, Signed, OneSocket, Handshakes,
           NEW s \in Socket, IntroducerStep(s)
    PROVE  Handshakes'
<1>1. ServerInv /\ UNCHANGED <<conns, peers>>
  BY DEF IntroductionInv, IntroducerStep, stateVars
<1>2. \A x, y \in Window : Rests(x, y)  BY <1>1 DEF Rests, To
<1>3. \A x, y \in Window : Passes(x, y)
  BY <1>1, IntroducerPasses DEF OneSocket
<1> SUFFICES ASSUME NEW a \in Window, NEW b \in Window, a < b PROVE Handshake(a, b)'
  BY DEF Handshakes
<1>4. Handshake(a, b)  BY DEF Handshakes
<1>5. WayKeeps(FromTo(a, b), a, b)
  <2>1. ~OnWay(Sig("IceCandidate", a, b), a, b)  BY <1>4 DEF Handshake, OneWay
  <2> QED  BY <1>1, <1>3, <2>1, PassingKeeps
<1>6. WayKeeps(FromTo(b, a), b, a) /\ OrderKeeps(b, a)
  <2>1. ASSUME Current(a) \notin subscribed PROVE ~OnWay(Sig("IceCandidate", b, a), b, a)
    <3>1. DOMAIN conns[a] = {}  BY <2>1 DEF Listening
    <3>2. ~Offered(a, b)  BY <3>1 DEF Offered, To
    <3>3. ~Answered(a, b)  BY <1>4, <3>2, StatesInOrder
    <3> QED  BY <1>4, <3>3 DEF Handshake, CandidateWay
  <2> QED  BY <1>1, <1>3, <2>1, PassingKeeps
<1> QED  BY <1>1, <1>2, <1>4, <1>5, <1>6, HandshakeRests

\* Nobody has said anything to a window that is opened for the first time.
LEMMA OpenKeepsHandshakes ==
    ASSUME IntroductionInv, MessagesInv, Handshakes, OneSocket, NEW w \in Window, Open(w),
           openings[w] = 0
    PROVE  Handshakes' /\ OneSocket'
<1>1. /\ ServerInv /\ openings' = [openings EXCEPT ![w] = openings[w] + 1]
      /\ up' = [up EXCEPT ![<<w, openings'[w]>>] = <<Join(w)>>]
      /\ down' = [down EXCEPT ![w] = <<>>] /\ conns' = [conns EXCEPT ![w] = <<>>]
      /\ peers' = [peers EXCEPT ![w] = [p \in Window |-> 0]]
  BY DEF Open, IntroductionInv
<1>2. /\ openings'[w] = 1 /\ \A x \in Window \ {w} : openings'[x] = openings[x]
      /\ DOMAIN conns[w] = {} /\ down[w] = <<>> /\ DOMAIN conns'[w] = {}
      /\ \A x \in Window \ {w} : conns'[x] = conns[x]
      /\ \A x \in Window : down'[x] = down[x]
  BY <1>1, EmptySeq
     DEF ServerInv, OffersGoUp, MessagesInv, Untouched, IntroductionInv, ConnsInv, ConnsFit
<1>3. \A x, y \in Window : peers'[x][y] = peers[x][y]
  <2>1. \A y \in Window : peers[w][y] = 0
    BY <1>2 DEF IntroductionInv, ConnsInv, EntriesMade
  <2> QED  BY <1>1, <2>1 DEF IntroductionInv, ConnsInv
<1>4. \A x, y \in Window : Rests(x, y)  BY <1>2 DEF Rests, To
<1>5. \A t \in Socket : up'[t] = IF t = <<w, 1>> THEN <<Join(w)>> ELSE up[t]
  BY <1>1, <1>2 DEF ServerInv, OffersGoUp
<1>6. /\ \A x \in Window \ {w} : Current(x)' = Current(x) /\ Current(x) # <<w, 1>>
      /\ Current(w) = <<w, 0>> /\ Current(w)' = <<w, 1>> /\ Current(w) \notin Socket
  BY <1>2 DEF Current, Socket
<1>7. \A x \in Window \ {w} : Line(x)' = Line(x)
  <2>1. TAKE x \in Window \ {w}
  <2> QED  BY <1>5, <1>6, <2>1 DEF Line
<1>8. Line(w) = <<>> /\ Line(w)' \in {<<>>, <<Join(w)>>}
  BY <1>5, <1>6 DEF Line
<1>9. \A x, y \in Window : Besides(FromTo(x, y), x, y)
  <2>1. TAKE x, y \in Window
  <2>2. CASE x # w  BY <1>2, <1>7, <2>2 DEF Besides
  <2>3. CASE x = w
    <3>1. Join(w) \in Command \ FromTo(w, y)
      BY DEF Join, Command, FromTo, Signals
    <3>2. <<Join(w)>> = Append(<<>>, Join(w))  OBVIOUS
    <3> QED  BY <1>2, <1>8, <2>3, <3>1, <3>2 DEF Besides
  <2> QED  BY <2>2, <2>3
<1>10. Handshakes'
  <2> SUFFICES ASSUME NEW a \in Window, NEW b \in Window, a < b PROVE Handshake(a, b)'
    BY DEF Handshakes
  <2> QED  BY <1>1, <1>3, <1>4, <1>9, BesidesRests, HandshakeRests DEF Handshakes
<1>11. OneSocket'
  <2> SUFFICES ASSUME NEW t \in Socket, up'[t] # <<>>
               PROVE  \E x \in Window : x = t[1] /\ t = Current(x)'
    BY DEF OneSocket
  <2>1. t[1] \in Window  BY DEF Socket
  <2>2. PICK x \in Window : x = t[1]  BY <2>1
  <2>3. CASE t = <<w, 1>>  BY <1>6, <2>3
  <2>4. CASE t # <<w, 1>>
    <3>1. up[t] # <<>>  BY <1>5, <2>4
    <3>2. t = Current(x)  BY <2>2, <3>1 DEF OneSocket
    <3>3. x # w  BY <1>6, <3>2
    <3> QED  BY <1>6, <2>2, <3>2, <3>3
  <2> QED  BY <2>3, <2>4
<1> QED  BY <1>10, <1>11

-----------------------------------------------------------------------------
(* What each step may do *)

\* What the windows send.
OfferSent(w, n) == <<Signal("Offer", w, conns[w][n].peer, Id(w, n))>>
AnswerSent(w, n) ==
    <<Signal("Answer", w, conns[w][n].peer, Id(w, n)),
      Signal("IceCandidate", w, conns[w][n].peer, Id(w, n))>>
Says(w) ==
    \/ UNCHANGED up
    \/ \E n \in DOMAIN conns[w] : Send(w, OfferSent(w, n)) \/ Send(w, AnswerSent(w, n))

\* A step of a window that sends at most, and makes no connection.
Works(w) ==
    /\ UNCHANGED <<openings, down, introducerVars>>
    /\ Changes(conns, conns') /\ Says(w) /\ repeats' \in {repeats, repeats + 1}

LEMMA ConnStepWorks ==
    ASSUME IntroductionInv, NEW w \in Window, NEW n \in DOMAIN conns[w],
           SendOffer(w, n) \/ SendAnswer(w, n) \/ RetryOffer(w, n) \/ OpenChannel(w, n)
               \/ ReceiveAck(w, n) \/ ChannelCloses(w, n) \/ ServeEnds(w, n)
    PROVE  Works(w)
<1>1. Changes(conns, conns')
  BY SendOfferKeeps, SendAnswerKeeps, RetryOfferKeeps, OpenChannelKeeps, ReceiveAckKeeps,
     ChannelClosesKeeps, ServeEndsKeeps
<1>2. UNCHANGED <<openings, down, introducerVars>>
  BY DEF SendOffer, SendAnswer, RetryOffer, OpenChannel, ReceiveAck, ChannelCloses, ServeEnds
<1>3. repeats' \in {repeats, repeats + 1}
  BY DEF SendOffer, SendAnswer, RetryOffer, OpenChannel, ReceiveAck, ChannelCloses, ServeEnds
<1>4. Says(w)
  <2>1. SendOffer(w, n) \/ RetryOffer(w, n) => Send(w, OfferSent(w, n))
    BY DEF SendOffer, RetryOffer, OfferSent
  <2>2. SendAnswer(w, n) => Send(w, AnswerSent(w, n))
    BY DEF SendAnswer, AnswerSent
  <2>3. OpenChannel(w, n) \/ ReceiveAck(w, n) \/ ChannelCloses(w, n) \/ ServeEnds(w, n) => UNCHANGED up
    BY DEF OpenChannel, ReceiveAck, ChannelCloses, ServeEnds
  <2> QED  BY <2>1, <2>2, <2>3 DEF Says
<1> QED  BY <1>1, <1>2, <1>3, <1>4 DEF Works

LEMMA StartPeerWorks ==
    ASSUME IntroductionInv, NEW w \in Window, StartPeer(w)
    PROVE  Works(w)
BY StartPeerKeeps DEF StartPeer, Works, Says

\* The kinds of steps there are.
LEMMA StepKinds ==
    ASSUME IntroductionInv, [Next]_vars
    PROVE  \/ \E s \in Socket : IntroducerStep(s)
           \/ \E w \in Window : HandleMessage(w)
           \/ \E w \in Window : Works(w)
           \/ \E w \in Window : Open(w)
           \/ UNCHANGED vars
<1>1. \A w \in Window : StartPeer(w) => Works(w)  BY StartPeerWorks
<1>2. \A w \in Window : \A n \in DOMAIN conns[w] :
          SendOffer(w, n) \/ SendAnswer(w, n) \/ RetryOffer(w, n) \/ OpenChannel(w, n)
              \/ ReceiveAck(w, n) \/ ChannelCloses(w, n) \/ ServeEnds(w, n) => Works(w)
  BY ConnStepWorks
<1> QED  BY <1>1, <1>2 DEF Next, WindowStep

-----------------------------------------------------------------------------
(* Who hears, and what is signed *)

LEMMA ListeningStays ==
    ASSUME Listening, UNCHANGED <<openings, down, subscribed>>,
           \A w \in Window : DOMAIN conns'[w] = DOMAIN conns[w]
    PROVE  Listening'
BY DEF Listening, Current

LEMMA ListeningKeeps ==
    ASSUME IntroductionInv, Listening, [Next]_vars
    PROVE  Listening'
<1>1. ASSUME NEW s \in Socket, IntroducerStep(s) PROVE Listening'
  <2>1. UNCHANGED <<openings, conns>>
    BY <1>1 DEF IntroducerStep, stateVars, ProcessMessage, Leave, LeaveFails, Return
  <2>2. \A w \in Window : Current(w) \in subscribed => Current(w) \in subscribed'
    <3>1. CASE ProcessMessage(s)
      BY <3>1 DEF ProcessMessage, ProcessJoin, ProcessSignal
    <3>2. CASE Return(s)
      <4>1. subscribed' = subscribed \ {s} /\ s[2] < openings[s[1]]  BY <3>2 DEF Return, Closed
      <4>2. ASSUME NEW w \in Window, Current(w) = s PROVE FALSE
        <5>1. openings[w] \in Nat /\ openings[w] < openings[w]
          BY <4>1, <4>2 DEF Current, IntroductionInv, ServerInv
        <5> QED  BY <5>1
      <4> QED  BY <4>1, <4>2
    <3> QED  BY <1>1, <3>1, <3>2 DEF IntroducerStep, Leave, LeaveFails
  <2>3. \A w \in Window : down'[w] # <<>> => down[w] # <<>> \/ Current(w) \in subscribed'
    <3>1. \A cmd, receivers : Broadcast(cmd, receivers) =>
              \A w \in Window : down'[w] # down[w] => Current(w) \in receivers
      BY DEF Broadcast
    <3>2. CASE ProcessMessage(s)
      BY <3>1, <3>2 DEF ProcessMessage, ProcessJoin, ProcessSignal
    <3>3. CASE Leave(s) \/ LeaveFails(s)
      BY <3>1, <3>3 DEF Leave, LeaveFails
    <3> QED  BY <1>1, <3>2, <3>3 DEF IntroducerStep
  <2>4. \A w \in Window : Current(w)' = Current(w)  BY <2>1 DEF Current
  <2> QED  BY <2>1, <2>2, <2>3, <2>4 DEF Listening
<1>2. ASSUME NEW w \in Window, HandleMessage(w) PROVE Listening'
  <2>1. /\ UNCHANGED <<openings, subscribed>> /\ down[w] # <<>>
        /\ \A v \in Window \ {w} : down'[v] = down[v] /\ conns'[v] = conns[v]
    BY <1>2, MessageStaysHome DEF HandleMessage, introducerVars, IntroductionInv, ServerInv, OffersGoUp
  <2> QED  BY <2>1 DEF Listening, Current
<1>3. ASSUME NEW w \in Window, Works(w) PROVE Listening'
  BY <1>3, ListeningStays DEF Works, introducerVars, Changes
<1>4. ASSUME NEW w \in Window, Open(w) PROVE Listening'
  <2>1. /\ UNCHANGED subscribed /\ DOMAIN conns'[w] = {} /\ down'[w] = <<>>
        /\ \A v \in Window \ {w} : /\ openings'[v] = openings[v]
                                   /\ down'[v] = down[v] /\ conns'[v] = conns[v]
    BY <1>4, EmptySeq
       DEF Open, introducerVars, IntroductionInv, ServerInv, OffersGoUp, ConnsInv, ConnsFit
  <2> QED  BY <2>1 DEF Listening, Current
<1>5. CASE UNCHANGED vars
  BY <1>5, ListeningStays DEF vars, introducerVars, stateVars
<1> QED  BY <1>1, <1>2, <1>3, <1>4, <1>5, StepKinds

\* What a window sends has its signature, and what is forwarded its target.
LEMMA SentIsSigned ==
    ASSUME IntroductionInv, NEW w \in Window, NEW n \in DOMAIN conns[w]
    PROVE  \E e, f \in Sent \ Unsigned(w) :
               \E o \in Command \ Unsigned(w) : OfferSent(w, n) = <<o>> /\ AnswerSent(w, n) = <<e, f>>
<1>1. PICK p \in Window : p = conns[w][n].peer
  BY ConnTypes DEF IntroductionInv
<1>2. p # w /\ Id(w, n) \in Nat \X Nat /\ Id(w, n) # NoConn
  <2>1. Fits(w, conns[w][n])  BY ConnTypes DEF IntroductionInv
  <2>2. n \in Nat /\ n # 0
    <3>1. conns[w] \in Seq(Conn)  BY DEF IntroductionInv, ConnsInv, ConnsFit
    <3> QED  BY <3>1, LenProperties
  <2> QED  BY <1>1, <2>1, <2>2 DEF Fits, Id, NoConn, IntroductionInv, ServerInv
<1> DEFINE o == Signal("Offer", w, p, Id(w, n))
           e == Signal("Answer", w, p, Id(w, n))
           f == Signal("IceCandidate", w, p, Id(w, n))
<1>3. o \in Command /\ e \in Sent /\ f \in Sent
  BY <1>2, CommandTypes DEF Signal, Command
<1>4. o \notin Unsigned(w) /\ e \notin Unsigned(w) /\ f \notin Unsigned(w)
  BY <1>2 DEF Signal, Unsigned, Proper, Signals
<1>5. OfferSent(w, n) = <<o>> /\ AnswerSent(w, n) = <<e, f>>
  BY <1>1 DEF OfferSent, AnswerSent
<1> HIDE DEF o, e, f
<1> QED  BY <1>3, <1>4, <1>5

LEMMA SaysSigned ==
    ASSUME IntroductionInv, NEW w \in Window, Says(w),
           \A s \in Socket : Clear(up[s], Unsigned(s[1]))
    PROVE  \A s \in Socket : Clear(up'[s], Unsigned(s[1]))
<1> SUFFICES ASSUME NEW s \in Socket PROVE Clear(up'[s], Unsigned(s[1]))
  OBVIOUS
<1>1. up[s] \in Seq(Command) /\ up \in [Socket -> Seq(Sent)]
  <2>1. up \in [Socket -> Seq(Sent)]  BY DEF IntroductionInv, ServerInv, OffersGoUp
  <2>2. Sent \subseteq Command  BY DEF Sent
  <2> QED  BY <2>1, <2>2, SeqMonotonic
<1>2. CASE up'[s] = up[s]  BY <1>2
<1>3. CASE up'[s] # up[s]
  <2>1. PICK n \in DOMAIN conns[w] : Send(w, OfferSent(w, n)) \/ Send(w, AnswerSent(w, n))
    BY <1>3 DEF Says
  <2>2. PICK e \in Sent \ Unsigned(w), f \in Sent \ Unsigned(w), o \in Command \ Unsigned(w) :
            OfferSent(w, n) = <<o>> /\ AnswerSent(w, n) = <<e, f>>
    BY SentIsSigned
  <2>3. s = Current(w) /\ s[1] = w /\ up'[s] \in {up[s] \o <<o>>, up[s] \o <<e, f>>}
    <3>1. \A cmds : Send(w, cmds) => s = Current(w) /\ up'[s] = up[s] \o cmds
      BY <1>1, <1>3 DEF Send
    <3>2. Current(w)[1] = w  BY DEF Current
    <3> QED  BY <2>1, <2>2, <3>1, <3>2
  <2>4. e \in Command /\ f \in Command  BY DEF Sent
  <2>5. up'[s] \in {Append(up[s], o), Append(Append(up[s], e), f)}
    <3>1. up[s] \o <<o>> = Append(up[s], o)  BY <1>1, TwoAppended
    <3>2. up[s] \o <<e, f>> = Append(Append(up[s], e), f)  BY <1>1, <2>4, TwoAppended
    <3> QED  BY <2>3, <3>1, <3>2
  <2>6. Append(up[s], e) \in Seq(Command)  BY <1>1, <2>4
  <2>7. Clear(Append(up[s], o), Unsigned(w))  BY <1>1, <2>2, <2>3, AppendOf
  <2>8. Clear(Append(up[s], e), Unsigned(w))  BY <1>1, <2>2, <2>3, <2>4, AppendOf
  <2>9. Clear(Append(Append(up[s], e), f), Unsigned(w))  BY <2>2, <2>4, <2>6, <2>8, AppendOf
  <2> QED  BY <2>3, <2>5, <2>7, <2>9
<1> QED  BY <1>2, <1>3

LEMMA IntroducerKeepsSigned ==
    ASSUME IntroductionInv, Signed, NEW s \in Socket, IntroducerStep(s)
    PROVE  Signed'
<1>1. up \in [Socket -> Seq(Sent)] /\ down \in [Window -> Seq(Command)]
  BY DEF IntroductionInv, ServerInv, OffersGoUp
<1>2. \A w \in Window : \A on \in SUBSET Window : SessionStatus(on) \in Command \ Stray(w)
  BY DEF SessionStatus, Command, Stray, Proper, Signals
<1>3. \A cmd \in Command : \A receivers :
          /\ Broadcast(cmd, receivers)
          /\ \A w \in Window : Hears(w, cmd) => cmd \notin Stray(w)
          => \A w \in Window : Clear(down'[w], Stray(w))
  <2> SUFFICES ASSUME NEW cmd \in Command, NEW receivers, Broadcast(cmd, receivers),
                      NEW w \in Window, Hears(w, cmd) => cmd \notin Stray(w)
               PROVE  Clear(down'[w], Stray(w))
    OBVIOUS
  <2>1. Clear(down[w], Stray(w)) /\ down[w] \in Seq(Command)  BY <1>1 DEF Signed
  <2>2. down'[w] = down[w] \/ (Hears(w, cmd) /\ down'[w] = Append(down[w], cmd))
    BY DEF Broadcast
  <2>3. cmd \notin Stray(w) => Clear(Append(down[w], cmd), Stray(w))  BY <2>1, AppendOf
  <2> QED  BY <2>1, <2>2, <2>3
<1>4. \A on \in SUBSET Window : \A receivers : Broadcast(SessionStatus(on), receivers) =>
          \A w \in Window : Clear(down'[w], Stray(w))
  BY <1>2, <1>3
<1>5. CASE Leave(s) \/ LeaveFails(s)
  <2>1. UNCHANGED up  BY <1>5 DEF Leave, LeaveFails, Return
  <2>2. \A w \in Window : Clear(down'[w], Stray(w))
    <3>1. CASE UNCHANGED <<session_online, down>>  BY <3>1 DEF Signed
    <3>2. CASE session_online' = session_online \ {s[1]} /\ Broadcast(SessionStatus(session_online'), subscribed')
      <4>1. session_online' \in SUBSET Window  BY <3>2 DEF IntroductionInv, ServerInv
      <4> QED  BY <1>4, <3>2, <4>1
    <3> QED  BY <1>5, <3>1, <3>2 DEF Leave, LeaveFails
  <2> QED  BY <2>1, <2>2 DEF Signed
<1>6. CASE ProcessMessage(s)
  <2> DEFINE m == Head(up[s])
  <2>1. up[s] # <<>> /\ up' = [up EXCEPT ![s] = Tail(up[s])]  BY <1>6 DEF ProcessMessage
  <2>2. m \in Command /\ m \notin Unsigned(s[1])
    <3>1. m \in Sent /\ 1 \in DOMAIN up[s] /\ m = up[s][1]
      BY <1>1, <2>1, HeadTailProperties, LenProperties, EmptySeq
    <3> QED  BY <3>1 DEF Signed, Clear, Sent
  <2>3. \A t \in Socket : Clear(up'[t], Unsigned(t[1]))
    <3>1. Clear(Tail(up[s]), Unsigned(s[1]))  BY <1>1, <2>1, TailOf DEF Signed
    <3> QED  BY <1>1, <2>1, <3>1 DEF Signed
  <2>4. \A w \in Window : Clear(down'[w], Stray(w))
    <3>1. CASE ProcessJoin(s)
      <4>1. session_online' \in SUBSET Window
        BY <3>1 DEF ProcessJoin, IntroductionInv, ServerInv, Socket
      <4> QED  BY <1>4, <3>1, <4>1 DEF ProcessJoin
    <3>2. CASE m.kind # "Join" /\ ProcessSignal(s, m)
      <4>1. \A w \in Window : Hears(w, m) => m \notin Stray(w)
        BY <2>2, <3>2 DEF Hears, Stray, Unsigned, Signals
      <4> HIDE DEF m
      <4> QED  BY <1>3, <2>2, <3>2, <4>1 DEF ProcessSignal
    <3> QED  BY <1>6, <3>1, <3>2 DEF ProcessMessage
  <2> QED  BY <2>3, <2>4 DEF Signed
<1> QED  BY <1>5, <1>6 DEF IntroducerStep

LEMMA SignedKeeps ==
    ASSUME IntroductionInv, Signed, [Next]_vars
    PROVE  Signed'
<1>1. up \in [Socket -> Seq(Sent)] /\ down \in [Window -> Seq(Command)]
  BY DEF IntroductionInv, ServerInv, OffersGoUp
<1>2. ASSUME NEW w \in Window, HandleMessage(w) PROVE Signed'
  <2>1. UNCHANGED up /\ down[w] # <<>> /\ down' = [down EXCEPT ![w] = Tail(down[w])]
    BY <1>2 DEF HandleMessage
  <2>2. Clear(Tail(down[w]), Stray(w))  BY <1>1, <2>1, TailOf DEF Signed
  <2> QED  BY <1>1, <2>1, <2>2 DEF Signed
<1>3. ASSUME NEW w \in Window, Works(w) PROVE Signed'
  <2>1. Says(w) /\ UNCHANGED down  BY <1>3 DEF Works
  <2>2. \A s \in Socket : Clear(up'[s], Unsigned(s[1]))  BY <2>1, SaysSigned DEF Signed
  <2> QED  BY <2>1, <2>2 DEF Signed
<1>4. ASSUME NEW w \in Window, Open(w) PROVE Signed'
  <2>1. /\ \A s \in Socket : up'[s] = up[s] \/ up'[s] = <<Join(w)>>
        /\ \A v \in Window : down'[v] = down[v] \/ down'[v] = <<>>
    BY <1>1, <1>4 DEF Open
  <2>2. \A v : Clear(<<Join(w)>>, Unsigned(v)) /\ Clear(<<>>, Stray(v))
    <3>1. \A v : Join(w) \notin Unsigned(v)  BY DEF Join, Unsigned, Proper, Signals
    <3>2. DOMAIN <<Join(w)>> = {1} /\ <<Join(w)>>[1] = Join(w)  OBVIOUS
    <3> QED  BY <3>1, <3>2, EmptyOf DEF Clear
  <2> QED  BY <2>1, <2>2 DEF Signed
<1>5. CASE UNCHANGED vars  BY <1>5 DEF vars, Signed
<1> QED  BY <1>2, <1>3, <1>4, <1>5, IntroducerKeepsSigned, StepKinds

-----------------------------------------------------------------------------
(* Repeats *)

\* What was repeated stays so, and a connection that was made twice.
LEMMA RepeatsGrow ==
    ASSUME IntroductionInv, [Next]_vars
    PROVE  /\ repeats \in Nat /\ repeats' \in Nat /\ repeats <= repeats'
           /\ (\A w \in Window : openings[w] > 1 => repeats > 0)
                  => \A w \in Window : openings'[w] > 1 => repeats' > 0
<1>1. repeats \in Nat /\ openings \in [Window -> Nat]  BY DEF IntroductionInv, WindowInv, ServerInv
<1>2. CASE UNCHANGED <<openings, repeats>>  BY <1>1, <1>2
<1>3. ASSUME NEW w \in Window, Works(w)
      PROVE  UNCHANGED openings /\ repeats' \in {repeats, repeats + 1}
  BY <1>3 DEF Works
<1>4. ASSUME NEW w \in Window, Open(w)
      PROVE  /\ openings[w] = 0 => repeats' = repeats
             /\ openings[w] # 0 => repeats' = repeats + 1
             /\ openings'[w] = openings[w] + 1
             /\ \A v \in Window \ {w} : openings'[v] = openings[v]
  BY <1>1, <1>4 DEF Open
<1>5. \A s \in Socket : IntroducerStep(s) => UNCHANGED <<openings, repeats>>
  BY DEF IntroducerStep, stateVars, ProcessMessage, Leave, LeaveFails, Return
<1>6. \A w \in Window : HandleMessage(w) => UNCHANGED <<openings, repeats>>
  BY DEF HandleMessage, HandleSessionUpdate, HandleOffer, HandleAnswer, HandleIceCandidate, stateVars
<1>7. UNCHANGED vars => UNCHANGED <<openings, repeats>>  BY DEF vars, stateVars
<1>8. CASE \E w \in Window : Works(w)  BY <1>1, <1>3, <1>8
<1>9. CASE \E w \in Window : Open(w)
  <2>1. PICK w \in Window : Open(w)  BY <1>9
  <2> QED  BY <1>1, <1>4, <2>1
<1> QED  BY <1>2, <1>5, <1>6, <1>7, <1>8, <1>9, StepKinds

LEMMA TwiceStays ==
    ASSUME Keeps(conns, conns'), IntroducedTwice
    PROVE  IntroducedTwice'
BY DEF IntroducedTwice, Keeps, SameEnds

LEMMA CalmBefore ==
    ASSUME IntroductionInv, MessagesInv, [Next]_vars, Calm'
    PROVE  Calm /\ repeats' = repeats
<1>1. repeats = 0 /\ repeats' = 0  BY RepeatsGrow DEF Calm
<1>2. ~IntroducedTwice
  <2>1. CASE Keeps(conns, conns')  BY <2>1, TwiceStays DEF Calm
  <2>2. ASSUME NEW w \in Window, Open(w) PROVE ~IntroducedTwice
    <3>1. openings[w] = 0
      <4>1. openings[w] # 0 => repeats' = 1  BY <1>1, <2>2 DEF Open
      <4> QED  BY <1>1, <4>1
    <3>2. DOMAIN conns[w] = {} /\ \A v \in Window \ {w} : conns'[v] = conns[v]
      BY <2>2, <3>1 DEF Open, MessagesInv, Untouched, IntroductionInv, ConnsInv, ConnsFit
    <3>3. IntroducedTwice => IntroducedTwice'  BY <3>2 DEF IntroducedTwice
    <3> QED  BY <3>3 DEF Calm
  <2>3. \A s \in Socket : IntroducerStep(s) => UNCHANGED conns
    BY DEF IntroducerStep, stateVars
  <2>4. UNCHANGED vars => UNCHANGED conns  BY DEF vars, stateVars
  <2>5. UNCHANGED conns => Keeps(conns, conns')  BY DEF Keeps, SameEnds
  <2>6. \A w \in Window : HandleMessage(w) \/ Works(w) => Keeps(conns, conns')
    BY HandleMessageKeeps DEF Works, Changes
  <2> QED  BY <2>1, <2>2, <2>3, <2>4, <2>5, <2>6, StepKinds
<1> QED  BY <1>1, <1>2 DEF Calm

-----------------------------------------------------------------------------
(* As long as nothing is repeated, no handler fails *)

LEMMA OneSocketStays ==
    ASSUME IntroductionInv, OneSocket, UNCHANGED openings,
           UNCHANGED up \/ (\E w \in Window : Says(w)) \/ \E s \in Socket : IntroducerStep(s)
    PROVE  OneSocket'
<1>1. up \in [Socket -> Seq(Sent)]  BY DEF IntroductionInv, ServerInv, OffersGoUp
<1>2. ASSUME NEW w \in Window, Says(w), NEW t \in Socket, up'[t] # <<>>
      PROVE  up[t] # <<>> \/ t = Current(w)
  BY <1>1, <1>2 DEF Says, Send
<1>3. ASSUME NEW s \in Socket, IntroducerStep(s), NEW t \in Socket, up'[t] # <<>>
      PROVE  up[t] # <<>>
  BY <1>1, <1>3 DEF IntroducerStep, ProcessMessage, Leave, LeaveFails, Return
<1> SUFFICES ASSUME NEW t \in Socket, up'[t] # <<>>
             PROVE  t = Current(t[1])'
  BY DEF OneSocket
<1>4. t[1] \in Window  BY DEF Socket
<1>5. t = Current(t[1])
  <2>1. \A w : t = Current(w) => t[1] = w  BY DEF Current
  <2> QED  BY <1>2, <1>3, <2>1 DEF OneSocket
<1> QED  BY <1>5 DEF Current

LEMMA StartPeerKeepsHandshakes ==
    ASSUME IntroductionInv, ClusterInv, Handshakes, NEW w \in Window, StartPeer(w)
    PROVE  Handshakes'
<1>1. ServerInv /\ ConnsInv /\ UNCHANGED <<openings, up, down, peers>>
  BY DEF IntroductionInv, StartPeer
<1>2. PICK n \in At(conns, w, "queued") : BootstrapPeer(w, n) \/ HandleNewPeer(w, n)
  <2>1. Head(peer_rx[w]) \in At(conns, w, "queued")
    BY HeadTailProperties DEF StartPeer, ClusterInv, ChannelsInv, Queued
  <2> QED  BY <2>1 DEF StartPeer
<1>3. \A x, y \in Window : Rests(x, y)  BY <1>1, <1>2, StartPeerRests
<1> QED  BY <1>1, <1>3, QuietKeepsHandshakes

LEMMA CalmKeeps ==
    ASSUME IntroductionInv, ClusterInv, Listening, Signed, Calm, OneSocket, Handshakes, NoneGaveUp,
           [Next]_vars, Calm'
    PROVE  OneSocket' /\ Handshakes' /\ NoneGaveUp'
<1>1. /\ MessagesInv /\ ServerInv /\ ConnsInv /\ repeats' = repeats /\ repeats = 0
      /\ ~IntroducedTwice /\ ~IntroducedTwice'
  BY CalmBefore DEF Calm, ClusterInv, IntroductionInv
<1>2. \A w \in Window : DOMAIN conns[w] # {} \/ down[w] # <<>> => ~panicked[w]
  <2>1. \A w \in Window : openings[w] = 0 \/ Opened(w)  BY <1>1 DEF ServerInv, Opened
  <2> QED  BY <1>1, <2>1 DEF MessagesInv, Untouched, NoneGaveUp
<1>3. UNCHANGED <<openings, initiating, panicked>> => NoneGaveUp'
  BY DEF NoneGaveUp, Opened
<1>4. ASSUME NEW s \in Socket, IntroducerStep(s)
      PROVE  OneSocket' /\ Handshakes' /\ NoneGaveUp'
  <2>1. UNCHANGED <<openings, initiating, panicked>>
    BY <1>4 DEF IntroducerStep, stateVars, ProcessMessage, Leave, LeaveFails, Return
  <2>2. Handshakes'  BY <1>4, IntroducerKeepsHandshakes
  <2>3. OneSocket'  BY <1>4, <2>1, OneSocketStays
  <2> QED  BY <1>3, <2>1, <2>2, <2>3
<1>5. ASSUME NEW w \in Window, HandleMessage(w)
      PROVE  OneSocket' /\ Handshakes' /\ NoneGaveUp'
  <2>1. UNCHANGED <<openings, up>> /\ ~panicked[w]  BY <1>2, <1>5 DEF HandleMessage
  <2>2. Handshakes' /\ UNCHANGED <<initiating, panicked>>
    BY <1>1, <1>5, <2>1, MessageKeepsHandshakes
  <2>3. OneSocket'  BY <2>1, OneSocketStays
  <2> QED  BY <1>3, <2>1, <2>2, <2>3
<1>6. ASSUME NEW w \in Window, StartPeer(w)
      PROVE  OneSocket' /\ Handshakes' /\ NoneGaveUp'
  <2>1. UNCHANGED <<openings, up, initiating, panicked>>  BY <1>6 DEF StartPeer
  <2>2. Handshakes'  BY <1>6, StartPeerKeepsHandshakes
  <2>3. OneSocket'  BY <2>1, OneSocketStays
  <2> QED  BY <1>3, <2>1, <2>2, <2>3
<1>7. ASSUME NEW w \in Window, NEW n \in DOMAIN conns[w],
             SendOffer(w, n) \/ SendAnswer(w, n) \/ OpenChannel(w, n) \/ ReceiveAck(w, n)
                 \/ ChannelCloses(w, n) \/ ServeEnds(w, n)
      PROVE  OneSocket' /\ Handshakes' /\ NoneGaveUp'
  <2>1. Works(w)  BY <1>7, ConnStepWorks
  <2>2. OneSocket'  BY <2>1, OneSocketStays DEF Works
  <2>3. ~panicked[w]  BY <1>2
  <2>4. ASSUME ChannelCloses(w, n) \/ ServeEnds(w, n) PROVE Handshakes'
    <3>1. UNCHANGED <<openings, up, down, peers>>  BY <2>4 DEF ChannelCloses, ServeEnds
    <3>2. \A x, y \in Window : Rests(x, y)  BY <1>1, <2>4, ChannelClosesRests, ServeEndsRests
    <3> QED  BY <1>1, <3>1, <3>2, QuietKeepsHandshakes
  <2>5. Handshakes' /\ UNCHANGED <<openings, initiating, panicked>>
    <3>1. SendOffer(w, n) \/ SendAnswer(w, n) \/ OpenChannel(w, n) \/ ReceiveAck(w, n)
            \/ ChannelCloses(w, n) \/ ServeEnds(w, n) => UNCHANGED <<openings, initiating>>
      BY DEF SendOffer, SendAnswer, OpenChannel, ReceiveAck, ChannelCloses, ServeEnds
    <3>2. SendOffer(w, n) \/ SendAnswer(w, n) \/ ChannelCloses(w, n) \/ ServeEnds(w, n) => UNCHANGED panicked
      BY DEF SendOffer, SendAnswer, ChannelCloses, ServeEnds
    <3> QED
      BY <1>1, <1>7, <2>3, <2>4, <3>1, <3>2, SendOfferKeepsHandshakes, SendAnswerKeepsHandshakes,
         OpenChannelKeepsHandshakes, ReceiveAckKeepsHandshakes
  <2> QED  BY <1>3, <2>2, <2>5
<1>8. ASSUME NEW w \in Window, NEW n \in DOMAIN conns[w], RetryOffer(w, n) PROVE FALSE
  BY <1>1, <1>8 DEF RetryOffer
<1>9. ASSUME NEW w \in Window, Open(w)
      PROVE  OneSocket' /\ Handshakes' /\ NoneGaveUp'
  <2>1. openings[w] = 0
    <3>1. openings[w] # 0 => repeats' = repeats + 1  BY <1>9 DEF Open
    <3> QED  BY <1>1, <3>1
  <2>2. OneSocket' /\ Handshakes'  BY <1>1, <1>9, <2>1, OpenKeepsHandshakes
  <2>3. /\ initiating'[w] = TRUE /\ panicked'[w] = FALSE
        /\ \A v \in Window \ {w} : /\ initiating'[v] = initiating[v] /\ panicked'[v] = panicked[v]
                                   /\ openings'[v] = openings[v]
    BY <1>9 DEF Open, IntroductionInv, WindowInv, ServerInv
  <2> QED  BY <2>2, <2>3 DEF NoneGaveUp, Opened
<1>10. CASE UNCHANGED vars
  <2>1. UNCHANGED <<openings, up, down, conns, peers, initiating, panicked>>
    BY <1>10 DEF vars, stateVars
  <2>2. \A x, y \in Window : Rests(x, y)  BY <2>1 DEF Rests, To
  <2> QED  BY <1>1, <1>3, <2>1, <2>2, QuietKeepsHandshakes, OneSocketStays
<1> QED  BY <1>4, <1>5, <1>6, <1>7, <1>8, <1>9, <1>10 DEF Next, WindowStep

LEMMA HandshakeInitHolds == Init => HandshakeInv
<1> SUFFICES ASSUME Init PROVE HandshakeInv
  OBVIOUS
<1>1. /\ \A w \in Window : conns[w] = <<>> /\ down[w] = <<>> /\ openings[w] = 0
      /\ \A w, p \in Window : peers[w][p] = 0
      /\ \A s \in Socket : up[s] = <<>>
  BY DEF Init, IntroducerInit
<1>2. Listening  BY <1>1, EmptySeq DEF Listening
<1>3. Signed  BY <1>1, EmptyOf DEF Signed
<1>4. OneSocket /\ NoneGaveUp  BY <1>1 DEF OneSocket, NoneGaveUp, Opened
<1>5. Handshakes
  <2> SUFFICES ASSUME NEW a \in Window, NEW b \in Window PROVE Handshake(a, b)
    BY DEF Handshakes
  <2>1. \A x, y \in Window : To(x, y) = {}  BY <1>1, EmptySeq DEF To
  <2>2. \A w \in Window : Line(w) = <<>>  BY <1>1 DEF Line
  <2>3. \A S : \A x, y \in Window : AtMostOne(S, x, y) /\ ~OnWay(S, x, y)
    BY <1>1, <2>2, EmptyOf DEF AtMostOne, OnWay
  <2>4. \A S, T : \A x, y \in Window : Follows(S, T, x, y)
    BY <1>1, <2>2, EmptyOf DEF Follows
  <2>5. ~Offered(a, b) /\ ~Replied(a, b) /\ ~Taken(a, b)
    BY <2>1 DEF Offered, Replied, Taken
  <2>6. OfferWay(a, b) /\ AnswerWay(a, b) /\ CandidateWay(a, b) /\ OneWay(a, b)
    BY <2>3, <2>4, <2>5 DEF OfferWay, AnswerWay, CandidateWay, OneWay
  <2>7. OfferEntry(a, b) /\ AnswerEntry(a, b)  BY <2>1 DEF OfferEntry, AnswerEntry
  <2> QED  BY <2>6, <2>7 DEF Handshake
<1>6. \A w \in Window : ~(openings[w] > 1)  BY <1>1
<1> QED  BY <1>2, <1>3, <1>4, <1>5, <1>6 DEF HandshakeInv

LEMMA HandshakeKeeps == IntroductionInv /\ ClusterInv /\ HandshakeInv /\ [Next]_vars => HandshakeInv'
<1> SUFFICES ASSUME IntroductionInv, ClusterInv, HandshakeInv, [Next]_vars PROVE HandshakeInv'
  OBVIOUS
<1>1. Listening' /\ Signed'  BY ListeningKeeps, SignedKeeps DEF HandshakeInv
<1>2. \A w \in Window : openings'[w] > 1 => repeats' > 0  BY RepeatsGrow DEF HandshakeInv
<1>3. ASSUME Calm' PROVE OneSocket' /\ Handshakes' /\ NoneGaveUp'
  <2>1. Calm  BY <1>3, CalmBefore DEF ClusterInv
  <2> QED  BY <1>3, <2>1, CalmKeeps DEF HandshakeInv
<1> QED  BY <1>1, <1>2, <1>3 DEF HandshakeInv

LEMMA HandshakeInvImpliesCalm == IntroductionInv /\ HandshakeInv => GivesUpOnlyAfterRepeat
<1> SUFFICES ASSUME IntroductionInv, HandshakeInv, NEW w \in Window, Opened(w), GaveUp(w),
                    ~(repeats > 0), ~IntroducedTwice
             PROVE  FALSE
  BY DEF GivesUpOnlyAfterRepeat
<1>1. repeats = 0  BY DEF IntroductionInv, WindowInv
<1>2. NoneGaveUp  BY <1>1 DEF HandshakeInv, Calm
<1> QED  BY <1>2 DEF NoneGaveUp, GaveUp

\* The handlers of introduction.rs that return an error, and send_peer, which may
\* panic, find what they need for any number of windows and whatever the order in
\* which messages, statuses and tasks come: only an offer sent again, a window
\* opened again or a peer introduced twice makes a window give up.
THEOREM NoneGivesUpByItself == Spec => []GivesUpOnlyAfterRepeat
<1>1. Init => IntroductionInv /\ ClusterInv /\ HandshakeInv
  BY InitHolds, ClusterInitHolds, HandshakeInitHolds
<1>2. IntroductionInv /\ ClusterInv /\ HandshakeInv /\ [Next]_vars
          => (IntroductionInv /\ ClusterInv /\ HandshakeInv)'
  BY NextKeeps, ClusterKeeps, HandshakeKeeps
<1> QED  BY <1>1, <1>2, HandshakeInvImpliesCalm, PTL DEF Spec

=============================================================================
