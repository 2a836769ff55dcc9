-------------------------- MODULE MCRaftLiveness --------------------------
(***************************************************************************)
(* Instances of RaftWorker for the liveness runs of TLC.  They need every   *)
(* behaviour, so no view and no symmetry: they start later in a run         *)
(* instead, in a state that RaftWorker reaches from Init.                   *)
(***************************************************************************)
EXTENDS RaftProperties

CONSTANTS First,   \* the leader of term 1
          Second,  \* the peer that voted for it
          Issuers  \* the windows where commands are issued

\* A quiet cluster: nothing is under way, nothing is committed.
Quiet(term, lg, leader, out) ==
    /\ current_term = term
    /\ voted_for = [i \in Server |-> IF i \in {First, Second} THEN First ELSE None]
    /\ log = lg
    /\ role = [i \in Server |-> IF i = leader THEN "Leader" ELSE "Follower"]
    /\ leader_id = [i \in Server |-> IF i = leader THEN i ELSE None]
    /\ commit_index = [i \in Server |-> 0]
    /\ last_applied = [i \in Server |-> 0]
    /\ votes = [i \in Server |-> {}]
    /\ next_indices = [i \in Server |-> [p \in Server |-> 1]]
    /\ match_indices = [i \in Server |-> [p \in Server |-> 0]]
    /\ in_flight_client_requests = [i \in Server |-> {}]
    /\ in_flight_peers = [i \in Server |-> {}]
    /\ links = {{i, j} : i \in Server, j \in Server} \ {{i} : i \in Server}
    /\ rpcs = {}
    /\ origin \in [Cmd -> Issuers]
    /\ outcome = out
    /\ faults = 0
    /\ ballots = {[term |-> 1, voter |-> i, candidate |-> First] : i \in {First, Second}}
    /\ elected = {[term |-> 1, leader |-> First]}
    /\ applied = {}

\* First has just won term 1; the third window has not heard of it.
ElectedInit ==
    Quiet([i \in Server |-> IF i \in {First, Second} THEN 1 ELSE 0], [i \in Server |-> <<>>], First,
          [c \in Cmd |-> "new"])
ElectedSpec == ElectedInit /\ [][Next]_vars /\ Fairness

=============================================================================
