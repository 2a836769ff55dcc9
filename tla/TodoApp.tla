------------------------------ MODULE TodoApp ------------------------------
(***************************************************************************)
(* The application of a running cluster, in every window: the page of       *)
(* wraft/src/todo.rs, the client of wraft/src/raft/client.rs that sends its *)
(* commands, and the task of wraft/src/raft/mod.rs (handle_state_machine)   *)
(* that applies what the worker delivers and tells the page.  Of the        *)
(* workers this module takes what ReplicatedLog says of them: one log, of   *)
(* which each state machine receives a prefix; requests that fail may still *)
(* be chosen later.                                                         *)
(***************************************************************************)
EXTENDS TodoState, FiniteSets

CONSTANTS
    Window,
    User,         \* the windows whose users issue commands
    Reloaded,     \* the windows that may be closed and opened again
    MaxCommands,  \* bound on the commands that users issue
    MaxFaults     \* bound on failed requests and windows opened again

ASSUME TodoAssumption ==
    /\ User \subseteq Window /\ Reloaded \subseteq Window
    /\ MaxCommands \in Nat /\ MaxFaults \in Nat

VARIABLES
    log,        \* the requests that were chosen, in order
    requests,   \* the requests that the workers have and may still choose
    applied,    \* how many commands handle_state_machine has applied
    state,      \* its state
    trapped,    \* has a command panicked in it?
    updates,    \* notifications in the channel to the page
    page,       \* the state that the page shows, and how many commands it has seen
    tasks,      \* the callbacks that send commands
    faults

clusterVars == <<log, requests>>
machineVars == <<applied, state, trapped, updates>>
vars == <<clusterVars, machineVars, page, tasks, faults>>

\* A request holds its command, the callback and attempt that sent it, and how
\* many commands the page had seen that offered it.
Request(t, tk) == [task |-> t, attempt |-> tk.attempt, cmd |-> tk.cmd, seen |-> tk.seen]

FirstPage == [state |-> DefaultState, version |-> 0]

Init ==
    /\ log = <<>> /\ requests = {}
    /\ applied = [w \in Window |-> 0]
    /\ state = [w \in Window |-> DefaultState]
    /\ trapped = [w \in Window |-> FALSE]
    /\ updates = [w \in Window |-> 0]
    /\ page = [w \in Window |-> FirstPage]
    /\ tasks = <<>> /\ faults = 0

-----------------------------------------------------------------------------
(* handle_state_machine, fed by the worker of its window *)

\* The channel of updates holds one notification besides the one that its
\* sender may always place; a third is dropped.
UpdatesCapacity == 2

\* The task applies a command and notifies, or panics with it for good.
Receive(w, cmd) ==
    IF Panics(state[w], cmd)
      THEN /\ trapped' = [trapped EXCEPT ![w] = TRUE]
           /\ UNCHANGED <<applied, state, updates>>
      ELSE /\ state' = [state EXCEPT ![w] = Apply(@, cmd)]
           /\ applied' = [applied EXCEPT ![w] = @ + 1]
           /\ updates' = [updates EXCEPT ![w] = IF @ < UpdatesCapacity THEN @ + 1 ELSE @]
           /\ UNCHANGED trapped

\* A worker that has delivered everything delivers a new command.
Choose(w, r) ==
    /\ r \in requests /\ ~trapped[w] /\ applied[w] = Len(log)
    /\ log' = Append(log, r)
    /\ requests' = requests \ {r}
    /\ Receive(w, r.cmd)
    /\ UNCHANGED <<page, tasks, faults>>

\* Broken variant: only a worker that chooses a command has its page notified.
DeliverQuietly(w) ==
    /\ ~trapped[w] /\ applied[w] < Len(log) /\ ~Panics(state[w], log[applied[w] + 1].cmd)
    /\ state' = [state EXCEPT ![w] = Apply(@, log[applied[w] + 1].cmd)]
    /\ applied' = [applied EXCEPT ![w] = @ + 1]
    /\ UNCHANGED <<clusterVars, trapped, updates, page, tasks, faults>>

Deliver(w) ==
    /\ ~trapped[w] /\ applied[w] < Len(log)
    /\ Receive(w, log[applied[w] + 1].cmd)
    /\ UNCHANGED <<clusterVars, page, tasks, faults>>

-----------------------------------------------------------------------------
(* The page *)

\* run_raft turns a notification into StateUpdate, which gets the state, and the
\* task answers with its present one; GotState makes it the page's.  To take
\* the notification at once and get an answer late is to take it late.
StateUpdate(w) ==
    /\ updates[w] > 0 /\ ~trapped[w]
    /\ updates' = [updates EXCEPT ![w] = @ - 1]
    /\ page' = [page EXCEPT ![w] = [state |-> state[w], version |-> applied[w]]]
    /\ UNCHANGED <<clusterVars, applied, state, trapped, tasks, faults>>

\* raft_callback: what the user does to the page becomes a task that sends a
\* command, at once and independently of the others.
Issue(w) ==
    /\ w \in User /\ Len(tasks) < MaxCommands
    /\ \E cmd \in Offered(page[w].state) :
          LET tk == [window |-> w, cmd |-> cmd, seen |-> page[w].version, attempt |-> 1,
                     stage |-> "waiting"]
          IN /\ tasks' = Append(tasks, tk)
             /\ requests' = requests \cup {Request(Len(tasks'), tk)}
    /\ UNCHANGED <<log, machineVars, page, faults>>

Current(t) == Request(t, tasks[t])
Waiting == {t \in DOMAIN tasks : tasks[t].stage = "waiting"}
Acked == {Current(t) : t \in {u \in DOMAIN tasks : tasks[u].stage = "done"}}

\* Broken variant: the worker answers when it has the request.
SucceedEarly(t) ==
    /\ t \in Waiting
    /\ tasks' = [tasks EXCEPT ![t].stage = "done"]
    /\ UNCHANGED <<clusterVars, machineVars, page, faults>>

\* do_client_request returns what the worker answered: Ack for a command that
\* was delivered.
Succeed(t) ==
    /\ t \in Waiting /\ \E k \in DOMAIN log : log[k] = Current(t)
    /\ tasks' = [tasks EXCEPT ![t].stage = "done"]
    /\ UNCHANGED <<clusterVars, machineVars, page, faults>>

\* Broken variant: the callback takes an error for an answer.
FailForGood(t) ==
    /\ t \in Waiting /\ faults < MaxFaults /\ faults' = faults + 1
    /\ tasks' = [tasks EXCEPT ![t].stage = "done"]
    /\ requests' \in {requests, requests \ {Current(t)}}
    /\ UNCHANGED <<log, machineVars, page>>

\* It returns Unavailable, or Timeout after two seconds: the request may have
\* been lost, may be chosen already, or later.
Fail(t) ==
    /\ t \in Waiting /\ faults < MaxFaults /\ faults' = faults + 1
    /\ tasks' = [tasks EXCEPT ![t].stage = "sleeping"]
    /\ requests' \in {requests, requests \ {Current(t)}}
    /\ UNCHANGED <<log, machineVars, page>>

\* After half a second the callback sends the command again.
Retry(t) ==
    /\ tasks[t].stage = "sleeping"
    /\ tasks' = [tasks EXCEPT ![t].stage = "waiting", ![t].attempt = @ + 1]
    /\ requests' = requests \cup {Request(t, tasks'[t])}
    /\ UNCHANGED <<log, machineVars, page, faults>>

-----------------------------------------------------------------------------
(* Windows *)

\* Its callbacks end with a window; workers may have their requests.
EndTasks(w) ==
    tasks' = [t \in DOMAIN tasks |->
                IF tasks[t].window = w /\ tasks[t].stage # "done"
                  THEN [tasks[t] EXCEPT !.stage = "gone"] ELSE tasks[t]]

\* Broken variant: the state outlives the reload, the count does not.
ReopenWithState(w) ==
    /\ w \in Reloaded /\ faults < MaxFaults /\ faults' = faults + 1
    /\ EndTasks(w)
    /\ applied' = [applied EXCEPT ![w] = 0]
    /\ trapped' = [trapped EXCEPT ![w] = FALSE]
    /\ updates' = [updates EXCEPT ![w] = 0]
    /\ page' = [page EXCEPT ![w] = FirstPage]
    /\ UNCHANGED <<clusterVars, state>>

\* A window is closed and opened again: the log is delivered from its start.
Reopen(w) ==
    /\ w \in Reloaded /\ faults < MaxFaults /\ faults' = faults + 1
    /\ EndTasks(w)
    /\ applied' = [applied EXCEPT ![w] = 0]
    /\ state' = [state EXCEPT ![w] = DefaultState]
    /\ trapped' = [trapped EXCEPT ![w] = FALSE]
    /\ updates' = [updates EXCEPT ![w] = 0]
    /\ page' = [page EXCEPT ![w] = FirstPage]
    /\ UNCHANGED clusterVars

WindowStep(w) == Deliver(w) \/ StateUpdate(w)
TaskStep(t) == Succeed(t) \/ Retry(t)

Next ==
    \/ \E w \in Window : WindowStep(w) \/ Issue(w) \/ Reopen(w)
    \/ \E w \in Window : \E r \in requests : Choose(w, r)
    \/ \E t \in DOMAIN tasks : TaskStep(t) \/ Fail(t)

\* A window runs what is ready in it, unless a panic has stopped its tasks; a
\* worker delivers what there is (the run "progress" shows it of RaftWorker);
\* and a request somebody waits for is chosen, or fails.
Progress ==
    \/ \E w \in Window : ~trapped[w] /\ WindowStep(w)
    \/ \E w \in Window : \E t \in Waiting : Choose(w, Current(t))
    \/ \E t \in DOMAIN tasks : ~trapped[tasks[t].window] /\ TaskStep(t)

Fairness == WF_vars(Progress)

Spec == Init /\ [][Next]_vars
FairSpec == Spec /\ Fairness

-----------------------------------------------------------------------------
(* Properties *)

\* Every variable has its type, and no entry is ever without a description.
TypeOK ==
    /\ state \in [Window -> State]
    /\ applied \in [Window -> 0 .. Len(log)]
    /\ trapped \in [Window -> BOOLEAN]
    /\ updates \in [Window -> 0 .. UpdatesCapacity]
    /\ \A w \in Window : page[w].state \in State /\ page[w].version \in 0 .. applied[w]

\* State machines that have applied as many commands have the same state, also
\* one that started anew, and a page shows a state that every machine has had.
SameCommandsSameState ==
    \A w, v \in Window :
        /\ applied[w] = applied[v] => state[w] = state[v]
        /\ page[w].version = applied[v] => page[w].state = state[v]

\* The index of a command panics only in a state that its user did not see:
\* the page counts the entries as the state machine does.
PanicsOnlyIfStale ==
    \A w \in Window : trapped[w] => log[applied[w] + 1].seen # applied[w]

\* Every page ends up with the state that all commands lead to, though
\* notifications are dropped, as long as no command has trapped its machine.
PageCatchesUp ==
    <>[](\A w \in Window : trapped[w] \/ page[w].version = Len(log))

\* A command that was issued ends up chosen, after failures and timeouts too,
\* unless its window is closed or a panic stops the cluster.
ChosenFor(t) == \E k \in DOMAIN log : log[k].task = t
IssuedIsChosen ==
    <>[](\A t \in DOMAIN tasks :
            ChosenFor(t) \/ tasks[t].stage = "gone" \/ \E w \in Window : trapped[w])

Cluster == INSTANCE ReplicatedLog WITH
    Server <- Window, Cmd <- {}, chosen <- log, acked <- Acked,
    delivered <- [w \in Window |-> applied[w] + (IF trapped[w] THEN 1 ELSE 0)]

\* What the state machines and callers get is what ReplicatedLog promises, and
\* the workers keep: a prefix each, and Ack for what is chosen.
UsesReplicatedLog == [][Cluster!Next]_<<log, applied, trapped, Acked>>

=============================================================================
