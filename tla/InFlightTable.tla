---------------------------- MODULE InFlightTable ----------------------------
(***************************************************************************)
(* What the transport expects of the table of requests in flight: every     *)
(* entry gets an index of its own, is handed out once, to that index only,  *)
(* and an entry is refused only while one that is capacity older waits.     *)
(***************************************************************************)
EXTENDS Integers

CONSTANTS Value, None, capacity

VARIABLES
    pending,  \* the entries that wait, by index
    next,     \* the index of the next entry
    last      \* the last call: what was asked, and what it returned

NoCall == [call |-> "none", arg |-> None, result |-> None]

Init ==
    /\ pending = [i \in {} |-> None]
    /\ next = 0
    /\ last = NoCall

AddEntry(v) ==
    /\ pending' = [i \in DOMAIN pending \cup {next} |-> IF i = next THEN v ELSE pending[i]]
    /\ next' = next + 1
    /\ last' = [call |-> "add", arg |-> v, result |-> next]

Refuse(v) ==
    /\ \E i \in DOMAIN pending : next - i >= capacity
    /\ last' = [call |-> "add", arg |-> v, result |-> None]
    /\ UNCHANGED <<pending, next>>

TakeEntry(idx) ==
    /\ idx \in DOMAIN pending
    /\ pending' = [i \in DOMAIN pending \ {idx} |-> pending[i]]
    /\ last' = [call |-> "remove", arg |-> idx, result |-> pending[idx]]
    /\ UNCHANGED next

Miss(idx) ==
    /\ idx \notin DOMAIN pending
    /\ last' = [call |-> "remove", arg |-> idx, result |-> None]
    /\ UNCHANGED <<pending, next>>

Next ==
    \/ \E v \in Value : AddEntry(v) \/ Refuse(v)
    \/ \E idx \in 0 .. next - 1 : TakeEntry(idx) \/ Miss(idx)

Spec == Init /\ [][Next]_<<pending, next, last>>

=============================================================================
