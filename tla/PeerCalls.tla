------------------------------ MODULE PeerCalls ------------------------------
(***************************************************************************)
(* Calls to a peer as the Raft worker uses them: a request arrives at most  *)
(* once, perhaps after its caller has given up; a call returns once, with   *)
(* an answer only after its request arrived, or fails, which says nothing   *)
(* about the request.  RaftWorker keeps such calls in its set rpcs.         *)
(***************************************************************************)
EXTENDS Sequences

CONSTANT Call

VARIABLES
    made,      \* the calls made
    arrived,   \* those whose request the peer's worker received, in order
    returned,  \* those that returned an answer
    failed     \* those that returned an error

HasArrived(c) == \E k \in DOMAIN arrived : arrived[k] = c

Init ==
    /\ made = {}
    /\ arrived = <<>>
    /\ returned = {}
    /\ failed = {}

Make(c) ==
    /\ c \notin made
    /\ made' = made \cup {c}
    /\ failed' \in {failed, failed \cup {c}}
    /\ UNCHANGED <<arrived, returned>>

Arrive(c) ==
    /\ c \in made /\ ~HasArrived(c)
    /\ arrived' = Append(arrived, c)
    /\ UNCHANGED <<made, returned, failed>>

Return(c) ==
    /\ HasArrived(c) /\ c \notin failed \cup returned
    /\ returned' = returned \cup {c}
    /\ UNCHANGED <<made, arrived, failed>>

\* A lost connection fails every call that is made on it.
Fail(lost) ==
    /\ lost \subseteq made \ (returned \cup failed)
    /\ failed' = failed \cup lost
    /\ UNCHANGED <<made, arrived, returned>>

Next ==
    \/ \E c \in Call : Make(c) \/ Arrive(c) \/ Return(c)
    \/ \E lost \in SUBSET Call : Fail(lost)

Spec == Init /\ [][Next]_<<made, arrived, returned, failed>>

=============================================================================
