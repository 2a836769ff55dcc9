---------------------------- MODULE RingBufCalls ----------------------------
(***************************************************************************)
(* A RingBuf under every order of its two calls.  The transport adds a      *)
(* sender per request and removes by the index of an answer or a timeout,   *)
(* so an index may be removed twice, late, or in any order.                 *)
(***************************************************************************)
EXTENDS RingBuf

CONSTANT MaxAdds  \* bound: entries ever added

ASSUME AddsAssumption == MaxAdds \in Nat

VARIABLES
    buf,    \* the RingBuf
    last,   \* the last call: what was asked, and what it returned
    added   \* entries added so far

vars == <<buf, last, added>>

NoCall == [call |-> "none", arg |-> None, result |-> None]

Init ==
    /\ buf = WithCapacity
    /\ last = NoCall
    /\ added = 0

AddOk(v) ==
    /\ added < MaxAdds
    /\ ~Overflows(buf)
    /\ buf' = Add(buf, v)
    /\ last' = [call |-> "add", arg |-> v, result |-> buf.next_idx]
    /\ added' = added + 1

AddOverflow(v) ==
    /\ Overflows(buf)
    /\ last' = [call |-> "add", arg |-> v, result |-> None]
    /\ UNCHANGED <<buf, added>>

RemoveHeld(idx) ==
    /\ Holds(buf, idx)
    /\ buf' = Remove(buf, idx)
    /\ last' = [call |-> "remove", arg |-> idx, result |-> ValueAt(buf, idx)]
    /\ UNCHANGED added

RemoveMissing(idx) ==
    /\ ~Holds(buf, idx)
    /\ last' = [call |-> "remove", arg |-> idx, result |-> None]
    /\ UNCHANGED <<buf, added>>

\* Answers and timeouts carry indices that add has returned.
Issued == {idx \in Usize : idx < added}

Next ==
    \/ \E v \in Value : AddOk(v) \/ AddOverflow(v)
    \/ \E idx \in Issued : RemoveHeld(idx) \/ RemoveMissing(idx)

Spec == Init /\ [][Next]_vars

-----------------------------------------------------------------------------
\* An entry lies in its slot and in the window, and the window begins with one.
WindowOK(d, lo, hi) ==
    /\ d \in [Slots -> SlotEntry \cup {None}]
    /\ lo \in Nat /\ hi \in Nat /\ lo <= hi /\ hi <= lo + capacity
    /\ \A s \in Slots : d[s] # None => /\ d[s].idx \in lo .. hi - 1 /\ DataIdx(d[s].idx) = s
    /\ lo < hi => d[DataIdx(lo)] # None

\* Types, and the window: min_idx is the index of the oldest entry, so the one
\* comparison of add tells a free slot (ringbuf/mod.rs:25, 48-50).
BufInv ==
    /\ buf = [data |-> buf.data, min_idx |-> buf.min_idx, next_idx |-> buf.next_idx]
    /\ WindowOK(buf.data, buf.min_idx, buf.next_idx)
    /\ buf.next_idx = added
    /\ added \in Nat /\ added <= MaxAdds
    /\ last.call \in {"none", "add", "remove"}

\* The table as its callers see it.
Occupied(b) == {s \in Slots : b.data[s] # None}
Entries(b) == [i \in {b.data[s].idx : s \in Occupied(b)} |-> ValueAt(b, i)]

Table == INSTANCE InFlightTable WITH pending <- Entries(buf), next <- buf.next_idx

\* Before the index wraps, the ring buffer is a table of requests in flight: a
\* slot is never given away while its entry waits, and a late or repeated
\* removal takes no other entry (ringbuf/mod.rs:23-57).
ImplementsInFlightTable == Table!Spec

=============================================================================
