------------------------------ MODULE MCTodoApp ------------------------------
(***************************************************************************)
(* An instance of TodoApp for TLC.  It starts later in a run, in a state    *)
(* that TodoApp reaches from Init: every window shows one entry.            *)
(***************************************************************************)
EXTENDS TodoApp

Seed ==
    <<[kind |-> "Update", text |-> "a"], [kind |-> "Add"]>>

SeedState[k \in 0 .. Len(Seed)] ==
    IF k = 0 THEN DefaultState ELSE Apply(SeedState[k - 1], Seed[k])

\* Every window has seen the commands of an earlier user.
SeededInit ==
    /\ log = [k \in DOMAIN Seed |-> [task |-> 0, attempt |-> k, cmd |-> Seed[k], seen |-> k - 1]]
    /\ requests = {}
    /\ applied = [w \in Window |-> Len(Seed)]
    /\ state = [w \in Window |-> SeedState[Len(Seed)]]
    /\ trapped = [w \in Window |-> FALSE]
    /\ updates = [w \in Window |-> 0]
    /\ page = [w \in Window |-> [state |-> SeedState[Len(Seed)], version |-> Len(Seed)]]
    /\ tasks = <<>> /\ faults = 0

SeededSpec == SeededInit /\ [][Next]_vars /\ Fairness

=============================================================================
