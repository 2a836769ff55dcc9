---------------------------- MODULE Introduction ----------------------------
(***************************************************************************)
(* wraft/src/webrtc_rpc/introduction.rs in every window, with the start of  *)
(* a cluster in wraft/src/raft/mod.rs that takes the connections it makes,  *)
(* and the introducer in between.                                           *)
(*                                                                         *)
(* An RtcPeerConnection is <<opening, n>>, the n-th that a window made       *)
(* since it was opened; it stands for its session description too.  A        *)
(* handler runs to its next await in one step, as tasks do in a browser.    *)
(* What the browsers do between two connections is in OpenChannel and       *)
(* ChannelCloses.                                                           *)
(***************************************************************************)
EXTENDS Introducer, Functions

CONSTANTS
    ClusterSize,  \* cluster_size of Raft::start
    Reloaded,     \* the windows that may be opened again
    MaxRepeats    \* bound on windows opened and offers sent again

ASSUME BoundsAssumption ==
    ClusterSize \in Nat \ {0, 1} /\ Reloaded \subseteq Window /\ MaxRepeats \in Nat

VARIABLES
    conns,      \* the connections each window made, in order
    peers,      \* State.peers: the connection being introduced, 0 if none
    online,     \* State.online
    peer_rx,    \* connections handed to initiate by send_peer, in order
    initiating, \* has initiate not returned an error?
    panicked,   \* has send_peer panicked, with its lock on peers held?
    repeats,    \* windows opened again and offers sent again
    raft,       \* Raft::start: "bootstrap", "running" or "ended"
    clients,    \* the peers there is an RPC client for
    stored      \* the peer configuration in local storage, {} if none

stateVars == <<conns, peers, online, peer_rx, initiating, panicked, repeats>>
raftVars == <<raft, clients, stored>>
vars == <<openings, up, down, introducerVars, stateVars, raftVars>>

NoConn == <<0, 0>>

\* role: "offer" made the offer, "answer" was made for one.  remote is the
\* remote description, ack says that an ACK is in the channel.  link is what the
\* window knows of its end of the channel: "missed" is one that closed before
\* PeerTransport::start set its onclose.  shut: RtcPeerConnection.close was
\* called.  pc: the connection that its transport holds along with the channel.
NewConn(p, role, remote) ==
    [peer |-> p, role |-> role, remote |-> remote, ack |-> FALSE, link |-> "up",
     shut |-> FALSE, pc |-> 0,
     stage |-> IF role = "offer" THEN "describing" ELSE "answering"]

Init ==
    /\ IntroducerInit
    /\ conns = [w \in Window |-> <<>>]
    /\ peers = [w \in Window |-> [p \in Window |-> 0]]
    /\ online = [w \in Window |-> {}]
    /\ peer_rx = [w \in Window |-> <<>>]
    /\ initiating = [w \in Window |-> FALSE]
    /\ panicked = [w \in Window |-> FALSE]
    /\ repeats = 0
    /\ raft = [w \in Window |-> "ended"]
    /\ clients = [w \in Window |-> {}]
    /\ stored = [w \in Window |-> {}]

-----------------------------------------------------------------------------

Send(w, cmds) == up' = [up EXCEPT ![Current(w)] = @ \o cmds]

\* Broken variant: the entry is for the connection to be made next.
InsertNext(w, p, n) ==
    /\ peers' = [peers EXCEPT ![w][p] = n + 1]
    /\ online' = [online EXCEPT ![w] = @ \cup {p}]

InsertPeer(w, p, n) ==
    /\ peers' = [peers EXCEPT ![w][p] = n]
    /\ online' = [online EXCEPT ![w] = @ \cup {p}]

\* send_peer gives the channel to initiate, with the connection in peers, which
\* a later offer may have replaced; a second channel for one entry is a panic.
SendPeer(w, n, cs) ==
    LET p == cs[w][n].peer
        sent(stage) == [cs EXCEPT ![w][n] = [cs[w][n] EXCEPT !.stage = stage, !.pc = peers[w][p]]]
    IN
    IF panicked[w] \/ peers[w][p] = 0
      THEN /\ panicked' = [panicked EXCEPT ![w] = TRUE]
           /\ conns' = sent("dropped")
           /\ UNCHANGED <<peers, peer_rx>>
      ELSE /\ peers' = [peers EXCEPT ![w][p] = 0]
           /\ peer_rx' = [peer_rx EXCEPT ![w] = IF initiating[w] THEN Append(@, n) ELSE @]
           /\ conns' = sent(IF initiating[w] THEN "queued" ELSE "dropped")
           /\ UNCHANGED panicked

\* The transports that Raft::start holds until the cluster is complete.
Held(w) == {n \in DOMAIN conns[w] : conns[w][n].stage = "held"}

Drop(c, dropped, shut) ==
    [c EXCEPT !.stage = IF dropped THEN "closed" ELSE @, !.shut = @ \/ shut]

\* Drop for Server: the peer is no longer online, the connection is closed.
DropServers(w, ns) ==
    /\ conns' = [conns EXCEPT ![w] = [n \in DOMAIN conns[w] |->
                    Drop(conns[w][n], n \in ns, \E k \in ns : conns[w][k].pc = n)]]
    /\ online' = [online EXCEPT ![w] = @ \ {conns[w][n].peer : n \in ns}]

\* An error of a handler ends initiate, whose channel of peers closes with it:
\* the bootstrap gives up and drops its servers, the worker panics.
Fail(w) ==
    /\ initiating' = [initiating EXCEPT ![w] = FALSE]
    /\ peer_rx' = [peer_rx EXCEPT ![w] = <<>>]
    /\ raft' = [raft EXCEPT ![w] = "ended"]
    /\ DropServers(w, Held(w))

-----------------------------------------------------------------------------
(* Messages of the introducer *)

\* The orders in which a HashSet may be read.
Orders(S) == {order \in [1 .. Cardinality(S) -> S] : IsInjective(order)}

\* Broken variant: every other window is introduced.
IntroduceAll(w, m) ==
    /\ \E new \in Orders({p \in m.online : p # w /\ p \notin online[w]}) :
          conns' = [conns EXCEPT ![w] = @ \o [k \in DOMAIN new |-> NewConn(new[k], "offer", NoConn)]]
    /\ UNCHANGED <<peers, online, peer_rx, initiating, panicked, repeats, raft>>

\* handle_session_update: every window with a greater id that is not online
\* is introduced.
HandleSessionUpdate(w, m) ==
    /\ \E new \in Orders({p \in m.online : p > w /\ p \notin online[w]}) :
          conns' = [conns EXCEPT ![w] = @ \o [k \in DOMAIN new |-> NewConn(new[k], "offer", NoConn)]]
    /\ UNCHANGED <<peers, online, peer_rx, initiating, panicked, repeats, raft>>

\* handle_offer up to its first await: another offer of the peer may be under
\* way, whose entry is replaced.
HandleOffer(w, m) ==
    /\ conns' = [conns EXCEPT ![w] = Append(@, NewConn(m.from, "answer", m.sdp))]
    /\ InsertPeer(w, m.from, Len(conns'[w]))
    /\ UNCHANGED <<peer_rx, initiating, panicked, repeats, raft>>

\* A connection takes one answer, and only for an offer of its own.
TakesAnswer(c) == c.role = "offer" /\ c.remote = NoConn

\* handle_answer: AlreadyInitialized without an entry.
HandleAnswer(w, m) ==
    LET n == peers[w][m.from] IN
    IF n # 0 /\ TakesAnswer(conns[w][n])
      THEN /\ conns' = [conns EXCEPT ![w][n].remote = m.sdp]
           /\ UNCHANGED <<peers, online, peer_rx, initiating, panicked, repeats, raft>>
      ELSE Fail(w) /\ UNCHANGED <<peers, panicked, repeats>>

\* handle_ice_candidate: a browser refuses a candidate before the remote
\* description.  A window without an entry ignores it.
HandleIceCandidate(w, m) ==
    LET n == peers[w][m.from] IN
    IF n # 0 /\ conns[w][n].remote = NoConn
      THEN Fail(w) /\ UNCHANGED <<peers, panicked, repeats>>
      ELSE UNCHANGED <<stateVars, raft>>

\* handle_message; a handler that needs the lock of a panicked one traps.
HandleMessage(w) ==
    /\ down[w] # <<>>
    /\ down' = [down EXCEPT ![w] = Tail(@)]
    /\ LET m == Head(down[w]) IN
       \/ m.kind = "SessionStatus" /\ HandleSessionUpdate(w, m)
       \/ m.kind # "SessionStatus" /\ panicked[w] /\ UNCHANGED <<stateVars, raft>>
       \/ m.kind = "Offer" /\ ~panicked[w] /\ HandleOffer(w, m)
       \/ m.kind = "Answer" /\ ~panicked[w] /\ HandleAnswer(w, m)
       \/ m.kind = "IceCandidate" /\ ~panicked[w] /\ HandleIceCandidate(w, m)
    /\ UNCHANGED <<openings, up, introducerVars, clients, stored>>

-----------------------------------------------------------------------------
(* Introductions *)

Id(w, n) == <<openings[w], n>>
In(w, n, stage) == n \in DOMAIN conns[w] /\ conns[w][n].stage = stage

\* introduce after local_description: the entry, then the first offer.
SendOffer(w, n) ==
    /\ In(w, n, "describing") /\ ~panicked[w]
    /\ LET p == conns[w][n].peer IN
       /\ InsertPeer(w, p, n)
       /\ Send(w, <<Signal("Offer", w, p, Id(w, n))>>)
    /\ conns' = [conns EXCEPT ![w][n].stage = "offering"]
    /\ UNCHANGED <<openings, down, introducerVars, peer_rx, initiating, panicked, repeats, raftVars>>

\* No ACK after five seconds.
RetryOffer(w, n) ==
    /\ In(w, n, "offering") /\ repeats < MaxRepeats
    /\ Send(w, <<Signal("Offer", w, conns[w][n].peer, Id(w, n))>>)
    /\ repeats' = repeats + 1
    /\ UNCHANGED <<openings, down, introducerVars, conns, peers, online, peer_rx, initiating,
                   panicked, raftVars>>

\* handle_offer after remote_description.  Candidates follow the answer; one
\* stands for them.  Those that follow an offer are left out: the connections
\* made for offers have their remote description and never refuse one.
SendAnswer(w, n) ==
    /\ In(w, n, "answering")
    /\ LET p == conns[w][n].peer IN
       Send(w, <<Signal("Answer", w, p, Id(w, n)), Signal("IceCandidate", w, p, Id(w, n))>>)
    /\ conns' = [conns EXCEPT ![w][n].stage = "answered"]
    /\ UNCHANGED <<openings, down, introducerVars, peers, online, peer_rx, initiating, panicked,
                   repeats, raftVars>>

\* Connection n of w and connection k of v hold each other's descriptions.
Matched(w, n, v, k) ==
    /\ conns[w][n].peer = v /\ conns[w][n].remote = Id(v, k)
    /\ conns[v][k].peer = w /\ conns[v][k].remote = Id(w, n)

\* The browsers connect two matched connections: ondatachannel sends the ACK
\* and handle_offer hands the channel over.
OpenChannel(w, n) ==
    /\ In(w, n, "answered")
    /\ LET v == conns[w][n].peer
           k == conns[w][n].remote[2]
       IN /\ conns[w][n].remote[1] = openings[v] /\ Matched(w, n, v, k)
          /\ conns[v][k].stage = "offering"
          /\ SendPeer(w, n, [conns EXCEPT ![v][k].ack = TRUE])
    /\ UNCHANGED <<openings, up, down, introducerVars, online, initiating, repeats, raftVars>>

\* introduce gets the ACK and hands the channel over.
ReceiveAck(w, n) ==
    /\ In(w, n, "offering") /\ conns[w][n].ack /\ conns[w][n].link = "up"
    /\ SendPeer(w, n, conns)
    /\ UNCHANGED <<openings, up, down, introducerVars, online, initiating, repeats, raftVars>>

-----------------------------------------------------------------------------
(* Transports *)

\* Broken variant: the bootstrap waits for one peer less.
BootstrapEarly(w, n) ==
    /\ raft[w] = "bootstrap"
    /\ conns' = [conns EXCEPT ![w][n].stage = "served"]
    /\ raft' = [raft EXCEPT ![w] = "running"]
    /\ stored' = [stored EXCEPT ![w] = clients'[w]]

\* The bootstrap counts transports; the last one starts the worker, all are
\* served then, and their peers are the configuration for good.
BootstrapPeer(w, n) ==
    LET complete == Cardinality(Held(w)) + 1 >= ClusterSize - 1 IN
    /\ raft[w] = "bootstrap"
    /\ conns' = [conns EXCEPT ![w] = [k \in DOMAIN conns[w] |->
                    IF k \in Held(w) \cup {n}
                      THEN [conns[w][k] EXCEPT !.stage = IF complete THEN "served" ELSE "held"]
                      ELSE conns[w][k]]]
    /\ raft' = [raft EXCEPT ![w] = IF complete THEN "running" ELSE @]
    /\ stored' = [stored EXCEPT ![w] = IF complete THEN clients'[w] ELSE @]

\* handle_new_peer of the worker.
HandleNewPeer(w, n) ==
    /\ raft[w] = "running"
    /\ conns' = [conns EXCEPT ![w][n].stage = "served"]
    /\ UNCHANGED <<raft, stored>>

\* initiate makes a transport and its receiver starts it.
StartPeer(w) ==
    /\ initiating[w] /\ peer_rx[w] # <<>>
    /\ peer_rx' = [peer_rx EXCEPT ![w] = Tail(@)]
    /\ LET n == Head(peer_rx[w]) IN
       /\ clients' = [clients EXCEPT ![w] = @ \cup {conns[w][n].peer}]
       /\ BootstrapPeer(w, n) \/ HandleNewPeer(w, n)
    /\ UNCHANGED <<openings, up, down, introducerVars, peers, online, initiating, panicked, repeats>>

\* The other end of the channel is gone: its window was closed, or its server
\* was dropped.
FarEndGone(w, n) ==
    LET v == conns[w][n].peer
        r == conns[w][n].remote
    IN r # NoConn /\ (r[1] = openings[v] => conns[v][r[2]].shut)

\* onclose, which nothing listens to before PeerTransport::start.
ChannelCloses(w, n) ==
    /\ n \in DOMAIN conns[w] /\ conns[w][n].link = "up" /\ FarEndGone(w, n)
    /\ conns[w][n].stage \in {"queued", "held", "served"} \cup (IF conns[w][n].ack THEN {"offering"} ELSE {})
    /\ conns' = [conns EXCEPT ![w][n].link =
                    IF conns[w][n].stage \in {"held", "served"} THEN "closed" ELSE "missed"]
    /\ UNCHANGED <<openings, up, down, introducerVars, peers, online, peer_rx, initiating, panicked,
                   repeats, raftVars>>

\* serve ends when its requests do, and its server is dropped.
ServeEnds(w, n) ==
    /\ In(w, n, "served") /\ conns[w][n].link = "closed"
    /\ DropServers(w, {n})
    /\ UNCHANGED <<openings, up, down, introducerVars, peers, peer_rx, initiating, panicked, repeats,
                   raftVars>>

-----------------------------------------------------------------------------
(* Windows *)

\* A window is opened, perhaps again: only its peer configuration is kept, and
\* initiate says Join on a new socket.
Open(w) ==
    /\ openings[w] = 0 \/ (w \in Reloaded /\ openings[w] < MaxOpenings /\ repeats < MaxRepeats)
    /\ repeats' = repeats + (IF openings[w] = 0 THEN 0 ELSE 1)
    /\ openings' = [openings EXCEPT ![w] = @ + 1]
    /\ up' = [up EXCEPT ![<<w, openings'[w]>>] = <<Join(w)>>]
    /\ down' = [down EXCEPT ![w] = <<>>]
    /\ conns' = [conns EXCEPT ![w] = <<>>]
    /\ peers' = [peers EXCEPT ![w] = [p \in Window |-> 0]]
    /\ online' = [online EXCEPT ![w] = {}]
    /\ peer_rx' = [peer_rx EXCEPT ![w] = <<>>]
    /\ initiating' = [initiating EXCEPT ![w] = TRUE]
    /\ panicked' = [panicked EXCEPT ![w] = FALSE]
    /\ raft' = [raft EXCEPT ![w] = IF stored[w] = {} THEN "bootstrap" ELSE "running"]
    /\ clients' = [clients EXCEPT ![w] = {}]
    /\ UNCHANGED <<introducerVars, stored>>

\* The introducer reads a socket or notices that it is closed.
IntroducerStep(s) ==
    /\ ProcessMessage(s) \/ Leave(s) \/ LeaveFails(s)
    /\ UNCHANGED <<stateVars, raftVars>>

\* A task of the window runs.
WindowStep(w) ==
    \/ HandleMessage(w)
    \/ StartPeer(w)
    \/ \E n \in DOMAIN conns[w] :
          SendOffer(w, n) \/ SendAnswer(w, n) \/ OpenChannel(w, n) \/ ReceiveAck(w, n)
              \/ ChannelCloses(w, n) \/ ServeEnds(w, n)

Next ==
    \/ \E s \in Socket : IntroducerStep(s)
    \/ \E w \in Window : WindowStep(w)
    \/ \E w \in Window : Open(w)
    \/ \E w \in Window : \E n \in DOMAIN conns[w] : RetryOffer(w, n)

\* Servers and browsers run what is ready to run, and connect what matches.
\* Nobody has to open a window, and no offer has to be sent again.
Fairness == WF_vars((\E s \in Socket : IntroducerStep(s)) \/ \E w \in Window : WindowStep(w))

Spec == Init /\ [][Next]_vars
FairSpec == Spec /\ Fairness

-----------------------------------------------------------------------------
(* Properties *)

Conn == [peer: Window, role: {"offer", "answer"}, remote: Nat \X Nat, ack: BOOLEAN,
         link: {"up", "closed", "missed"}, shut: BOOLEAN, pc: Nat,
         stage: {"describing", "offering", "answering", "answered", "queued", "held", "served",
                 "closed", "dropped"}]

\* Every variable has its type, and what the windows refer to was made.
TypeOK ==
    /\ IntroducerTypeOK
    /\ conns \in [Window -> Seq(Conn)]
    /\ peers \in [Window -> [Window -> Nat]]
    /\ \A w, p \in Window : peers[w][p] # 0 =>
          peers[w][p] \in DOMAIN conns[w] /\ conns[w][peers[w][p]].peer = p
    /\ online \in [Window -> SUBSET Window]
    /\ peer_rx \in [Window -> Seq(Nat)]
    /\ initiating \in [Window -> BOOLEAN]
    /\ panicked \in [Window -> BOOLEAN]
    /\ repeats \in Nat
    /\ raft \in [Window -> {"bootstrap", "running", "ended"}]
    /\ clients \in [Window -> SUBSET Window]
    /\ stored \in [Window -> SUBSET Window]

Opened(w) == openings[w] > 0

\* Both ends of one channel have a transport.
Started(w, n) == conns[w][n].stage \in {"held", "served"} /\ conns[w][n].link = "up"
Connected(w, v) ==
    \E n \in DOMAIN conns[w], k \in DOMAIN conns[v] :
        Matched(w, n, v, k) /\ Started(w, n) /\ Started(v, k)

\* The introductions of a window have ended for all to see: with an error of a
\* handler, or with the panic of send_peer.
GaveUp(w) == ~initiating[w] \/ panicked[w]

\* Of two windows the one with the smaller id makes the offers and the other only
\* answers, whatever statuses they get and in whatever order: no two offers meet,
\* and no window is introduced to itself.
OneInitiator ==
    \A w \in Window : \A n \in DOMAIN conns[w] :
        /\ conns[w][n].peer # w
        /\ conns[w][n].role = "offer" <=> conns[w][n].peer > w

\* Two statuses that reach a window while it still prepares an offer make it
\* introduce the same peer twice.
IntroducedTwice ==
    \E w \in Window : \E n, k \in DOMAIN conns[w] :
        n # k /\ conns[w][n].peer = conns[w][k].peer /\ conns[w][n].role = "offer" /\ conns[w][k].role = "offer"

\* An answer or a candidate that finds no connection to take it ends initiate,
\* and with it the worker; a second channel panics.  That takes an offer sent
\* again, a window opened again or a peer introduced twice: otherwise each
\* message finds its connection, however late it comes.
GivesUpOnlyAfterRepeat ==
    \A w \in Window : Opened(w) /\ GaveUp(w) => repeats > 0 \/ IntroducedTwice

\* Raft::start counts connections, not windows.  As long as no window is opened
\* again and no peer introduced twice, the peers it stores are all the others:
\* an offer sent again makes no second channel.
ClusterIsWhole ==
    \A w \in Window : stored[w] # {} /\ Cardinality(stored[w]) # ClusterSize - 1 =>
        IntroducedTwice \/ \E v \in Window : openings[v] > 1

\* Two open windows end up with a transport at both ends of a channel, or the
\* introductions of one have ended: none waits for the other in silence.
IntroducedOrGaveUp ==
    <>[](\A w, v \in Window : w < v /\ Opened(w) /\ Opened(v) =>
            Connected(w, v) \/ GaveUp(w) \/ GaveUp(v))

\* README.md:31-32 and raft/mod.rs:152: a window of a running cluster that is
\* opened again rejoins it.
RejoinsCluster ==
    \A w, v \in Window :
        (w # v /\ stored[w] # {} /\ stored[v] # {}) ~> (Connected(w, v) \/ GaveUp(w) \/ GaveUp(v))

=============================================================================
