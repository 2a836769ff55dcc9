----------------------------- MODULE Introducer -----------------------------
(***************************************************************************)
(* webrtc-introducer/src/main.rs for one session: every window of it holds  *)
(* a WebSocket, says Join on it, and from then on hears who is online and   *)
(* what the other windows address to it.  A window is a number, its         *)
(* node_id; opening it again opens another socket, <<window, opening>>,     *)
(* while the server may still be reading the old one.                       *)
(***************************************************************************)
EXTENDS Naturals, Sequences, FiniteSets

CONSTANTS
    Window,      \* the node_ids of the session
    MaxOpenings  \* bound on how often a window is opened

ASSUME WindowAssumption ==
    Window \subseteq Nat \ {0} /\ IsFiniteSet(Window) /\ MaxOpenings \in Nat

Socket == {<<w, k>> : w \in Window, k \in 1 .. MaxOpenings}

VARIABLES
    openings,        \* how often each window was opened; its socket is the last
    up,              \* what the server has yet to read from each socket
    down,            \* what was forwarded to each window and not received
    session_online,  \* Channels.online of the session
    subscribed,      \* sockets with a receiver of the session's broadcasts
    ids              \* sockets whose process_socket holds the ids of a Join

introducerVars == <<session_online, subscribed, ids>>

IntroducerInit ==
    /\ openings = [w \in Window |-> 0]
    /\ up = [s \in Socket |-> <<>>]
    /\ down = [w \in Window |-> <<>>]
    /\ session_online = {}
    /\ subscribed = {}
    /\ ids = {}

\* The socket of a window that is open.
Current(w) == <<w, openings[w]>>
Closed(s) == s[2] < openings[s[1]]

\* The commands of webrtc-introducer-types.  A description or a candidate is
\* known by the connection that made it.
Join(w) == [kind |-> "Join", from |-> w]
SessionStatus(on) == [kind |-> "SessionStatus", online |-> on]
Signal(kind, w, target, sdp) == [kind |-> kind, from |-> w, target |-> target, sdp |-> sdp]

Command ==
    [kind: {"Join"}, from: Window] \cup [kind: {"SessionStatus"}, online: SUBSET Window]
        \cup [kind: {"Offer", "Answer", "IceCandidate"}, from: Window, target: Window, sdp: Nat \X Nat]

\* Broken variant: the target is not looked at.
HearsAll(w, cmd) == cmd.kind # "Join"

\* The forwarding task of a socket passes every status on, and of the rest
\* what names its window as the target.
Hears(w, cmd) == cmd.kind = "SessionStatus" \/ cmd.target = w

\* Every receiver gets the command; what is forwarded to a closed socket is lost.
Broadcast(cmd, receivers) ==
    down' = [w \in Window |->
                IF Current(w) \in receivers /\ Hears(w, cmd) THEN Append(down[w], cmd) ELSE down[w]]

-----------------------------------------------------------------------------

\* Broken variant: the session is told before the task subscribes.
ProcessJoinThenSubscribe(s) ==
    /\ ids' = ids \cup {s}
    /\ subscribed' = subscribed \cup {s}
    /\ session_online' = session_online \cup {s[1]}
    /\ Broadcast(SessionStatus(session_online'), subscribed)

\* Join: the task subscribes before it tells the session, itself included.
ProcessJoin(s) ==
    /\ ids' = ids \cup {s}
    /\ subscribed' = subscribed \cup {s}
    /\ session_online' = session_online \cup {s[1]}
    /\ Broadcast(SessionStatus(session_online'), subscribed')

\* Any other command is broadcast, and process_message returns no ids for it.
ProcessSignal(s, cmd) ==
    /\ ids' = ids \ {s}
    /\ Broadcast(cmd, subscribed)
    /\ UNCHANGED <<subscribed, session_online>>

ProcessMessage(s) ==
    /\ up[s] # <<>>
    /\ up' = [up EXCEPT ![s] = Tail(@)]
    /\ \/ Head(up[s]).kind = "Join" /\ ProcessJoin(s)
       \/ Head(up[s]).kind # "Join" /\ ProcessSignal(s, Head(up[s]))
    /\ UNCHANGED openings

\* process_socket returns once the socket of a closed window is read to its end.
Return(s) ==
    /\ Closed(s) /\ up[s] = <<>> /\ s \in subscribed
    /\ subscribed' = subscribed \ {s}
    /\ ids' = ids \ {s}
    /\ UNCHANGED <<openings, up>>

\* With ids, the window leaves the session, which is told.
Leave(s) ==
    /\ Return(s)
    /\ IF s \in ids
         THEN /\ session_online' = session_online \ {s[1]}
              /\ Broadcast(SessionStatus(session_online'), subscribed')
         ELSE UNCHANGED <<session_online, down>>

\* The forwarding task has failed on the closed socket: left_tx.send or the
\* result of the task is an error, and the window does not leave.
LeaveFails(s) == Return(s) /\ UNCHANGED <<session_online, down>>

-----------------------------------------------------------------------------

IntroducerTypeOK ==
    /\ openings \in [Window -> Nat]
    /\ up \in [Socket -> Seq(Command)]
    /\ down \in [Window -> Seq(Command)]
    /\ session_online \subseteq Window
    /\ subscribed \subseteq Socket
    /\ ids \subseteq Socket

=============================================================================
