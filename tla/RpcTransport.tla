---------------------------- MODULE RpcTransport ----------------------------
(***************************************************************************)
(* One direction of a peer connection: wraft/src/webrtc_rpc/transport.rs    *)
(* with the handler of wraft/src/raft/rpc_server.rs.  The calling window    *)
(* has a Client and a RequestManager, a task that selects among requests,   *)
(* responses and timeouts; the serving window has a Server that handles     *)
(* one request at a time.  The data channel between them is ordered and     *)
(* reliable until it closes, which each side learns in its own time.  The   *)
(* other direction is the same and shares nothing but the channel.          *)
(***************************************************************************)
EXTENDS RingBuf, Sequences

\* Value is the set of calls: what the table keeps is the sender of the
\* oneshot channel that one call awaits.
Call == Value

VARIABLES
    status,         \* what the caller of each call knows
    answer,         \* the call that the answer it got was made for
    connected,      \* Client::connected, shared by the clones of the client
    manager,        \* is the RequestManager running?
    in_flight, req_rx, resp_rx, timeout_rx,
    timers,         \* the indices whose timer sleeps
    channel_open,   \* the state of the data channel
    caller_closed, server_closed,  \* has onclose run on this side?
    to_server, to_caller,          \* messages on their way
    server_req_rx,  \* requests received and not served
    serving,        \* the request that the handler has sent to the worker
    handled         \* history: the calls whose request was sent to the worker

callerVars == <<status, answer, connected, manager, in_flight, req_rx, resp_rx, timeout_rx, timers>>
serverVars == <<server_req_rx, serving, handled>>
channelVars == <<channel_open, caller_closed, server_closed, to_server, to_caller>>
vars == <<callerVars, serverVars, channelVars>>

Waiting == {"queued", "in_flight"}
Failures == {"timeout", "too_many", "disconnected", "unavailable", "js"}
Ended == Failures \cup {"ok"}

Init ==
    /\ status = [c \in Call |-> "new"]
    /\ answer = [c \in Call |-> None]
    /\ connected = TRUE
    /\ manager = TRUE
    /\ in_flight = WithCapacity
    /\ req_rx = <<>> /\ resp_rx = <<>> /\ timeout_rx = <<>>
    /\ timers = {}
    /\ channel_open = TRUE
    /\ caller_closed = FALSE /\ server_closed = FALSE
    /\ to_server = <<>> /\ to_caller = <<>>
    /\ server_req_rx = <<>>
    /\ serving = None
    /\ handled = <<>>

-----------------------------------------------------------------------------
(* The calling side *)

\* Client::call.  The flag is lowered by the first call that fails, not by
\* the closing of the channel.
ClientCall(c) ==
    /\ status[c] = "new"
    /\ IF connected /\ ~caller_closed
       THEN /\ status' = [status EXCEPT ![c] = "queued"]
            /\ req_rx' = Append(req_rx, c)
            /\ UNCHANGED connected
       ELSE /\ status' = [status EXCEPT ![c] = "disconnected"]
            /\ connected' = FALSE
            /\ UNCHANGED req_rx
    /\ UNCHANGED <<answer, manager, in_flight, resp_rx, timeout_rx, timers, serverVars, channelVars>>

\* Broken variant: the timer is forgotten.
TimersForgotten(idx) == timers

\* The timer of a request that was sent.
TimersWith(idx) == timers \cup {idx}

HandleRequest ==
    LET c == Head(req_rx)
        idx == in_flight.next_idx
    IN  /\ manager /\ req_rx # <<>>
        /\ req_rx' = Tail(req_rx)
        /\ \/ /\ Overflows(in_flight)
              /\ status' = [status EXCEPT ![c] = "too_many"]
              /\ UNCHANGED <<in_flight, timers, to_server>>
           \/ /\ ~Overflows(in_flight) /\ channel_open
              /\ status' = [status EXCEPT ![c] = "in_flight"]
              /\ in_flight' = Add(in_flight, c)
              /\ to_server' = Append(to_server, [idx |-> idx, req |-> c])
              /\ timers' = TimersWith(idx)
           \/ /\ ~Overflows(in_flight)  \* the channel is closed, or its buffer full
              /\ status' = [status EXCEPT ![c] = "js"]
              /\ in_flight' = Remove(Add(in_flight, c), idx)
              /\ UNCHANGED <<timers, to_server>>
        /\ UNCHANGED <<answer, connected, manager, resp_rx, timeout_rx, serverVars,
                       channel_open, caller_closed, server_closed, to_caller>>

\* What a response or a timeout does to the table and to the caller, if there
\* is one: the first of the two takes the sender.
Finish(idx, outcome, for) ==
    IF Holds(in_flight, idx)
    THEN LET c == ValueAt(in_flight, idx) IN
         /\ in_flight' = Remove(in_flight, idx)
         /\ status' = [status EXCEPT ![c] = outcome]
         /\ answer' = [answer EXCEPT ![c] = for]
    ELSE UNCHANGED <<in_flight, status, answer>>

HandleResponse ==
    LET resp == Head(resp_rx) IN
    /\ manager /\ resp_rx # <<>>
    /\ resp_rx' = Tail(resp_rx)
    /\ IF resp.ok THEN Finish(resp.idx, "ok", resp.req) ELSE Finish(resp.idx, "unavailable", None)
    /\ UNCHANGED <<connected, manager, req_rx, timeout_rx, timers, serverVars, channelVars>>

HandleTimeout ==
    /\ manager /\ timeout_rx # <<>>
    /\ timeout_rx' = Tail(timeout_rx)
    /\ Finish(Head(timeout_rx), "timeout", None)
    /\ UNCHANGED <<connected, manager, req_rx, resp_rx, timers, serverVars, channelVars>>

\* The sleep of a request ends, whether or not it was answered meanwhile.
TimerFires(idx) ==
    /\ idx \in timers
    /\ timers' = timers \ {idx}
    /\ timeout_rx' = IF manager THEN Append(timeout_rx, idx) ELSE timeout_rx
    /\ UNCHANGED <<status, answer, connected, manager, in_flight, req_rx, resp_rx, serverVars, channelVars>>

\* The callers whose senders go with the RequestManager: those in the table
\* and those in its queue.
Dropped == {c \in Call : status[c] \in Waiting}

\* select! sees a closed channel once what was in it has been taken: the
\* RequestManager returns, whatever the other channel still holds.
StopManager ==
    /\ manager /\ caller_closed
    /\ req_rx = <<>> \/ resp_rx = <<>>
    /\ manager' = FALSE
    /\ status' = [c \in Call |-> IF c \in Dropped THEN "disconnected" ELSE status[c]]
    /\ in_flight' = WithCapacity
    /\ req_rx' = <<>> /\ resp_rx' = <<>> /\ timeout_rx' = <<>>
    /\ UNCHANGED <<answer, connected, timers, serverVars, channelVars>>

\* The calling side's onmessage: a Response.
ReceiveResponse ==
    /\ to_caller # <<>> /\ ~caller_closed
    /\ to_caller' = Tail(to_caller)
    /\ resp_rx' = IF manager THEN Append(resp_rx, Head(to_caller)) ELSE resp_rx
    /\ UNCHANGED <<status, answer, connected, manager, in_flight, req_rx, timeout_rx, timers, serverVars,
                   channel_open, caller_closed, server_closed, to_server>>

-----------------------------------------------------------------------------
(* The serving side *)

\* The serving side's onmessage: a Request.
ReceiveRequest ==
    /\ to_server # <<>> /\ ~server_closed
    /\ to_server' = Tail(to_server)
    /\ server_req_rx' = Append(server_req_rx, Head(to_server))
    /\ UNCHANGED <<callerVars, serving, handled, channel_open, caller_closed, server_closed, to_caller>>

\* Server::serve takes the next request when the last one is answered, and
\* RpcServer::handle sends it to the worker.
Serve ==
    /\ serving = None /\ server_req_rx # <<>>
    /\ serving' = Head(server_req_rx)
    /\ server_req_rx' = Tail(server_req_rx)
    /\ handled' = Append(handled, Head(server_req_rx).req)
    /\ UNCHANGED <<callerVars, channelVars>>

\* The worker answers, or drops the sender because it changed roles.  The
\* response is lost if the channel is closed, or its buffer full.
Respond(ok) ==
    /\ serving # None
    /\ serving' = None
    /\ \/ /\ channel_open
          /\ to_caller' = Append(to_caller, [idx |-> serving.idx, req |-> serving.req, ok |-> ok])
       \/ UNCHANGED to_caller
    /\ UNCHANGED <<callerVars, server_req_rx, handled, channel_open, caller_closed, server_closed, to_server>>

-----------------------------------------------------------------------------
(* The data channel *)

\* A window is closed, or the connection is lost.
ChannelCloses ==
    /\ channel_open
    /\ channel_open' = FALSE
    /\ UNCHANGED <<callerVars, serverVars, caller_closed, server_closed, to_server, to_caller>>

\* onclose on one side; what has not arrived by then never does.
CallerOnClose ==
    /\ ~channel_open /\ ~caller_closed
    /\ caller_closed' = TRUE
    /\ to_caller' = <<>>
    /\ UNCHANGED <<callerVars, serverVars, channel_open, server_closed, to_server>>

ServerOnClose ==
    /\ ~channel_open /\ ~server_closed
    /\ server_closed' = TRUE
    /\ to_server' = <<>>
    /\ UNCHANGED <<callerVars, serverVars, channel_open, caller_closed, to_caller>>

-----------------------------------------------------------------------------
Next ==
    \/ \E c \in Call : ClientCall(c)
    \/ HandleRequest
    \/ HandleResponse
    \/ HandleTimeout
    \/ \E idx \in timers : TimerFires(idx)
    \/ StopManager
    \/ ReceiveResponse
    \/ ReceiveRequest
    \/ Serve
    \/ \E ok \in BOOLEAN : Respond(ok)
    \/ ChannelCloses
    \/ CallerOnClose
    \/ ServerOnClose

Spec == Init /\ [][Next]_vars

\* What the browser grants the calling window: its task runs when one of its
\* channels is ready, a sleep ends, and a closed channel is reported.  Nothing
\* is assumed of the other window.
FairSpec ==
    /\ Spec
    /\ WF_vars(HandleRequest \/ HandleResponse \/ HandleTimeout \/ StopManager)
    /\ \A idx \in Usize : WF_vars(TimerFires(idx))
    /\ WF_vars(CallerOnClose)

-----------------------------------------------------------------------------
Request == [idx : Usize, req : Call]
Response == [idx : Usize, req : Call, ok : BOOLEAN]
TypeOK ==
    /\ status \in [Call -> {"new"} \cup Waiting \cup Ended]
    /\ answer \in [Call -> Call \cup {None}]
    /\ connected \in BOOLEAN /\ manager \in BOOLEAN
    /\ in_flight.data \in [Slots -> SlotEntry \cup {None}]
    /\ in_flight.min_idx \in Usize /\ in_flight.next_idx \in Usize
    /\ req_rx \in Seq(Call) /\ resp_rx \in Seq(Response) /\ timeout_rx \in Seq(Usize)
    /\ timers \subseteq Usize
    /\ channel_open \in BOOLEAN /\ caller_closed \in BOOLEAN /\ server_closed \in BOOLEAN
    /\ to_server \in Seq(Request) /\ to_caller \in Seq(Response)
    /\ server_req_rx \in Seq(Request) /\ serving \in Request \cup {None}
    /\ handled \in Seq(Call)

\* No entry of the table waits without a timer of its own, asleep or fired, so
\* the table never stays full behind a request that is not answered.
TimedEntries ==
    manager => \A s \in Slots : in_flight.data[s] # None =>
        in_flight.data[s].idx \in timers \cup {timeout_rx[k] : k \in DOMAIN timeout_rx}

\* Every call comes to an end, whether the other window answers, is busy with
\* another request, or is gone.
CallEnds == \A c \in Call : status[c] \in Waiting ~> status[c] \in Ended

\* What the Raft worker assumes of its calls.
Calls == INSTANCE PeerCalls WITH
    made <- {c \in Call : status[c] # "new"},
    arrived <- handled,
    returned <- {c \in Call : status[c] = "ok"},
    failed <- {c \in Call : status[c] \in Failures}
ImplementsPeerCalls == Calls!Spec

\* The answer that a call returns is the one to its own request, also when its
\* index shares a slot with the index of an earlier request.
AnswerIsOwn == \A c \in Call : status[c] = "ok" => answer[c] = c

=============================================================================
