------------------------------ MODULE RingBuf ------------------------------
(***************************************************************************)
(* wraft/src/ringbuf/mod.rs: the table in which a connection keeps the      *)
(* callers of the requests in flight.  An entry is found by an index that   *)
(* grows with every entry; it sits in the slot idx % capacity.              *)
(***************************************************************************)
EXTENDS Integers

CONSTANTS
    Value,     \* what is stored (a oneshot::Sender in the transport)
    None,      \* Rust's Option::None
    capacity,  \* slots (1024 in the transport)
    UsizeMod   \* usize is 32 bits wide in wasm32, a release build wraps

ASSUME CapacityAssumption == capacity \in Nat \ {0}
ASSUME UsizeAssumption == UsizeMod \in Nat /\ UsizeMod > capacity

Usize == 0 .. UsizeMod - 1
Slots == 0 .. capacity - 1
SlotEntry == [idx : Usize, value : Value]

ASSUME NoneAssumption == None \notin SlotEntry

WithCapacity == [data |-> [s \in Slots |-> None], min_idx |-> 0, next_idx |-> 0]

DataIdx(idx) == idx % capacity

\* Broken variant: one entry too many.
OverflowsLate(b) == (b.next_idx - b.min_idx) % UsizeMod > capacity

\* The window of indices is full: the oldest entry is capacity indices behind.
Overflows(b) == (b.next_idx - b.min_idx) % UsizeMod >= capacity

\* add, when it does not return Error::Overflow; it returns b.next_idx.
Add(b, v) ==
    [data |-> [b.data EXCEPT ![DataIdx(b.next_idx)] = [idx |-> b.next_idx, value |-> v]],
     min_idx |-> b.min_idx,
     next_idx |-> (b.next_idx + 1) % UsizeMod]

\* Broken variant: an entry is taken for the one of any index of its slot.
HoldsSlot(b, idx) == b.data[DataIdx(idx)] # None

Holds(b, idx) == b.data[DataIdx(idx)] # None /\ b.data[DataIdx(idx)].idx = idx

\* The entry of an index that the table holds.
ValueAt(b, idx) == b.data[DataIdx(idx)].value

\* Broken variant: the window moves by one index only.
FirstHeldByOne(d, lo, hi) == IF lo < hi /\ d[DataIdx(lo)] = None THEN lo + 1 ELSE lo

\* Where the loop that skips empty slots stops.
FirstHeld(d, lo, hi) ==
    IF lo >= hi THEN lo
    ELSE CHOOSE k \in lo .. hi : /\ k = hi \/ d[DataIdx(k)] # None
                                 /\ \A j \in lo .. k - 1 : d[DataIdx(j)] = None

\* Broken variant: the entry is handed out and kept.
RemoveKeeping(b, idx) == b

\* remove, when the table holds idx; it returns ValueAt(b, idx).
Remove(b, idx) ==
    LET d == [b.data EXCEPT ![DataIdx(idx)] = None] IN
    [data |-> d, min_idx |-> FirstHeld(d, b.min_idx, b.next_idx), next_idx |-> b.next_idx]

=============================================================================
