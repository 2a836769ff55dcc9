---------------------------- MODULE RingBufProofs ----------------------------
(***************************************************************************)
(* The ring buffer implements the table of requests in flight, whatever its *)
(* capacity, as long as fewer entries are added than usize can number.      *)
(***************************************************************************)
EXTENDS RingBufCalls, WellFoundedInduction, TLAPS

-----------------------------------------------------------------------------
(* Slots *)

LEMMA Division ==
    ASSUME NEW x \in Int, NEW y \in Nat \ {0}
    PROVE  x = y * (x \div y) + (x % y) /\ x \div y \in Int /\ x % y \in 0 .. y - 1
OBVIOUS

LEMMA SmallModulo ==
    ASSUME NEW x \in Nat, NEW y \in Nat, x < y
    PROVE  x % y = x
OBVIOUS

\* Indices less than capacity apart have different slots.
LEMMA WindowSlots ==
    ASSUME NEW a \in Nat, NEW b \in Nat, a < b, b < a + capacity
    PROVE  DataIdx(a) # DataIdx(b)
<1> SUFFICES ASSUME a % capacity = b % capacity PROVE FALSE
    BY DEF DataIdx
<1> DEFINE q == (b \div capacity) - (a \div capacity)
<1>1. /\ a = capacity * (a \div capacity) + (a % capacity) /\ a \div capacity \in Int
      /\ b = capacity * (b \div capacity) + (b % capacity) /\ b \div capacity \in Int
    BY Division, CapacityAssumption
<1>2. q \in Int /\ b - a = capacity * q
    BY <1>1, CapacityAssumption
<1> HIDE DEF q
<1>3. CASE q <= 0
    <2>1. capacity * q <= 0
        BY <1>2, <1>3, CapacityAssumption
    <2> QED BY <1>2, <2>1
<1>4. CASE q >= 1
    <2>1. capacity * q >= capacity
        BY <1>2, <1>4, CapacityAssumption
    <2> QED BY <1>2, <2>1, CapacityAssumption
<1> QED BY <1>2, <1>3, <1>4

LEMMA SlotOfIndex ==
    ASSUME NEW i \in Nat
    PROVE  DataIdx(i) \in Slots
BY Division, CapacityAssumption DEF DataIdx, Slots

-----------------------------------------------------------------------------
(* The window: what holds between calls *)

LEMMA LeastIndex ==
    ASSUME NEW T \in SUBSET Nat, T # {}
    PROVE  \E k \in T : \A j \in T : k <= j
<1> DEFINE R == {ss \in Nat \X Nat : ss[1] < ss[2]}
<1>1. IsWellFoundedOn(R, Nat)
    BY NatLessThanWellFounded DEF OpToRel
<1>2. \A x, y \in Nat : <<y, x>> \in R <=> y < x
    OBVIOUS
<1> HIDE DEF R
<1>3. PICK k \in T : \A j \in T : ~(<<j, k>> \in R)
    BY <1>1, WFMin
<1>4. ASSUME NEW j \in T PROVE k <= j
    <2>1. j \in Nat /\ k \in Nat
        OBVIOUS
    <2>2. ~(j < k)
        BY <1>2, <1>3, <2>1
    <2> QED BY <2>1, <2>2
<1> QED BY <1>3, <1>4

\* The loop over empty slots stops at the first entry, or where the window ends.
LEMMA FirstHeldFacts ==
    ASSUME NEW d, NEW lo \in Nat, NEW hi \in Nat, lo <= hi
    PROVE  LET k == FirstHeld(d, lo, hi) IN
           /\ k \in lo .. hi
           /\ k < hi => d[DataIdx(k)] # None
           /\ \A j \in lo .. k - 1 : d[DataIdx(j)] = None
<1> DEFINE stops(k) == /\ k = hi \/ d[DataIdx(k)] # None
                       /\ \A j \in lo .. k - 1 : d[DataIdx(j)] = None
<1>1. \E k \in lo .. hi : stops(k)
    <2>1. CASE \A j \in lo .. hi - 1 : d[DataIdx(j)] = None
        BY <2>1
    <2>2. CASE \E j \in lo .. hi - 1 : d[DataIdx(j)] # None
        <3> DEFINE held == {j \in Nat : j \in lo .. hi - 1 /\ d[DataIdx(j)] # None}
        <3>1. held \in SUBSET Nat /\ held # {}
            BY <2>2
        <3> HIDE DEF held
        <3>2. PICK k \in held : \A j \in held : k <= j
            BY <3>1, LeastIndex
        <3> QED BY <3>2 DEF held
    <2> QED BY <2>1, <2>2
<1>2. CASE lo < hi
    <2>1. FirstHeld(d, lo, hi) = CHOOSE k \in lo .. hi : stops(k)
        BY <1>2 DEF FirstHeld
    <2>2. FirstHeld(d, lo, hi) \in lo .. hi /\ stops(FirstHeld(d, lo, hi))
        BY <1>1, <2>1
    <2> QED BY <2>2
<1>3. CASE lo = hi
    BY <1>3 DEF FirstHeld
<1> QED BY <1>2, <1>3

-----------------------------------------------------------------------------
(* Calls *)

LEMMA AddFacts ==
    ASSUME BufInv, MaxAdds < UsizeMod, NEW v \in Value, AddOk(v)
    PROVE  /\ buf'.data = [buf.data EXCEPT ![DataIdx(added)] = [idx |-> added, value |-> v]]
           /\ buf.data[DataIdx(added)] = None
           /\ buf'.min_idx = buf.min_idx /\ buf'.next_idx = added + 1 /\ added' = added + 1
           /\ added < buf.min_idx + capacity /\ buf.next_idx = added
           /\ last' = [call |-> "add", arg |-> v, result |-> added]
           /\ BufInv'
<1> DEFINE d == buf.data
           entry == [idx |-> added, value |-> v]
<1>1. /\ d \in [Slots -> SlotEntry \cup {None}] /\ buf.min_idx \in Nat /\ buf.min_idx <= added
      /\ buf.next_idx = added /\ added \in Nat
      /\ added <= buf.min_idx + capacity
      /\ \A s \in Slots : d[s] # None => d[s].idx \in buf.min_idx .. added - 1 /\ DataIdx(d[s].idx) = s
      /\ buf.min_idx < added => d[DataIdx(buf.min_idx)] # None
    BY DEF BufInv, WindowOK
<1>2. added + 1 <= MaxAdds /\ MaxAdds \in Nat /\ added' = added + 1
    BY <1>1, AddsAssumption DEF AddOk
<1>3. (added + 1) % UsizeMod = added + 1
    <2>1. added + 1 \in Nat /\ UsizeMod \in Nat /\ added + 1 < UsizeMod
        BY <1>1, <1>2, UsizeAssumption
    <2> QED BY ONLY <2>1, SmallModulo
<1>4. added < buf.min_idx + capacity
    <2>1. (added - buf.min_idx) % UsizeMod = added - buf.min_idx
        BY <1>1, <1>2, SmallModulo, UsizeAssumption
    <2> QED BY <1>1, <2>1, CapacityAssumption DEF AddOk, Overflows
<1>5. /\ buf'.data = [d EXCEPT ![DataIdx(added)] = entry]
      /\ buf'.min_idx = buf.min_idx /\ buf'.next_idx = added + 1
      /\ buf' = [data |-> buf'.data, min_idx |-> buf'.min_idx, next_idx |-> buf'.next_idx]
    BY <1>1, <1>3 DEF AddOk, Add
<1>6. DataIdx(added) \in Slots
    BY <1>1, SlotOfIndex
<1>7. d[DataIdx(added)] = None
    <2> SUFFICES ASSUME d[DataIdx(added)] # None PROVE FALSE
        OBVIOUS
    <2>1. /\ d[DataIdx(added)].idx \in buf.min_idx .. added - 1
          /\ DataIdx(d[DataIdx(added)].idx) = DataIdx(added)
        BY <1>1, <1>6
    <2> DEFINE i == d[DataIdx(added)].idx
    <2>2. i \in Nat /\ i < added /\ added < i + capacity
        BY <1>1, <1>4, <2>1, CapacityAssumption
    <2> QED BY <1>1, <2>1, <2>2, WindowSlots
<1>8. entry \in SlotEntry /\ entry # None
    <2>1. entry \in SlotEntry
        BY <1>1, <1>2, UsizeAssumption DEF SlotEntry, Usize
    <2> QED BY <2>1, NoneAssumption
<1> HIDE DEF entry
<1>9. WindowOK(buf'.data, buf'.min_idx, buf'.next_idx)
    <2>1. buf'.data \in [Slots -> SlotEntry \cup {None}]
        BY <1>1, <1>5, <1>8
    <2>2. buf'.min_idx \in Nat /\ buf'.next_idx \in Nat /\ buf'.min_idx <= buf'.next_idx
          /\ buf'.next_idx <= buf'.min_idx + capacity
        BY <1>1, <1>4, <1>5, CapacityAssumption
    <2>3. ASSUME NEW s \in Slots, buf'.data[s] # None
          PROVE  buf'.data[s].idx \in buf'.min_idx .. buf'.next_idx - 1 /\ DataIdx(buf'.data[s].idx) = s
        <3>1. CASE s = DataIdx(added)
            <4>1. buf'.data[s] = entry /\ entry.idx = added
                BY <1>1, <1>5, <3>1 DEF entry
            <4> QED BY <1>1, <1>5, <3>1, <4>1
        <3>2. CASE s # DataIdx(added)
            <4>1. buf'.data[s] = d[s]
                BY <1>1, <1>5, <3>2
            <4> QED BY <1>1, <1>5, <2>3, <4>1
        <3> QED BY <3>1, <3>2
    <2>4. buf'.data[DataIdx(buf.min_idx)] # None
        <3>1. CASE buf.min_idx = added
            BY <1>1, <1>5, <1>6, <1>8, <3>1
        <3>2. CASE buf.min_idx < added
            <4>1. DataIdx(buf.min_idx) \in Slots
                BY <1>1, SlotOfIndex
            <4> QED BY <1>1, <1>5, <1>8, <3>2, <4>1
        <3> QED BY <1>1, <3>1, <3>2
    <2> QED BY <1>5, <2>1, <2>2, <2>3, <2>4 DEF WindowOK
<1>10. last' = [call |-> "add", arg |-> v, result |-> added]
    BY <1>1 DEF AddOk
<1>11. BufInv'
    BY <1>1, <1>2, <1>5, <1>9, <1>10 DEF BufInv
<1> QED BY <1>1, <1>2, <1>4, <1>5, <1>7, <1>10, <1>11 DEF entry

LEMMA RemoveFacts ==
    ASSUME BufInv, NEW i \in Nat, RemoveHeld(i)
    PROVE  /\ buf'.data = [buf.data EXCEPT ![DataIdx(i)] = None]
           /\ buf'.next_idx = buf.next_idx /\ added' = added
           /\ last' = [call |-> "remove", arg |-> i, result |-> ValueAt(buf, i)]
           /\ BufInv'
<1> DEFINE d == [buf.data EXCEPT ![DataIdx(i)] = None]
           lo == FirstHeld(d, buf.min_idx, buf.next_idx)
<1>1. /\ buf.data \in [Slots -> SlotEntry \cup {None}] /\ buf.min_idx \in Nat /\ buf.next_idx \in Nat
      /\ buf.min_idx <= buf.next_idx /\ buf.next_idx <= buf.min_idx + capacity
      /\ \A s \in Slots : buf.data[s] # None =>
             /\ buf.data[s].idx \in buf.min_idx .. buf.next_idx - 1
             /\ DataIdx(buf.data[s].idx) = s
      /\ buf.next_idx = added /\ added \in Nat /\ added <= MaxAdds
    BY DEF BufInv, WindowOK
<1>2. /\ buf' = [data |-> d, min_idx |-> lo, next_idx |-> buf.next_idx]
      /\ added' = added
      /\ last' = [call |-> "remove", arg |-> i, result |-> ValueAt(buf, i)]
    BY DEF RemoveHeld, Remove
<1> HIDE DEF d, lo
<1>3. buf'.data = d /\ buf'.min_idx = lo /\ buf'.next_idx = buf.next_idx
      /\ buf' = [data |-> buf'.data, min_idx |-> buf'.min_idx, next_idx |-> buf'.next_idx]
    BY <1>2
<1>4. d \in [Slots -> SlotEntry \cup {None}]
    BY <1>1 DEF d
<1>5. \A s \in Slots : d[s] # None => d[s] = buf.data[s]
    BY <1>1 DEF d
<1>6. /\ lo \in buf.min_idx .. buf.next_idx
      /\ lo < buf.next_idx => d[DataIdx(lo)] # None
      /\ \A j \in buf.min_idx .. lo - 1 : d[DataIdx(j)] = None
    BY <1>1, FirstHeldFacts DEF lo
<1>7. ASSUME NEW s \in Slots, d[s] # None
      PROVE  d[s].idx \in lo .. buf.next_idx - 1 /\ DataIdx(d[s].idx) = s
    <2>1. d[s].idx \in buf.min_idx .. buf.next_idx - 1 /\ DataIdx(d[s].idx) = s
        BY <1>1, <1>5, <1>7
    <2>2. ~(d[s].idx \in buf.min_idx .. lo - 1)
        BY <1>6, <1>7, <2>1
    <2> QED BY <1>1, <1>6, <2>1, <2>2
<1>8. WindowOK(d, lo, buf.next_idx)
    BY <1>1, <1>4, <1>6, <1>7, CapacityAssumption DEF WindowOK
<1>9. BufInv'
    BY <1>1, <1>2, <1>3, <1>8 DEF BufInv
<1> QED BY <1>2, <1>3, <1>9 DEF d

LEMMA BufInvInit == Init => BufInv
<1> SUFFICES ASSUME Init PROVE BufInv
    OBVIOUS
<1>1. buf.data = [s \in Slots |-> None] /\ buf.min_idx = 0 /\ buf.next_idx = 0 /\ added = 0
      /\ buf = [data |-> buf.data, min_idx |-> buf.min_idx, next_idx |-> buf.next_idx]
      /\ last.call = "none"
    BY DEF Init, WithCapacity, NoCall
<1>2. WindowOK(buf.data, 0, 0)
    <2>1. buf.data \in [Slots -> SlotEntry \cup {None}] /\ \A s \in Slots : buf.data[s] = None
        BY <1>1
    <2> QED BY <2>1, CapacityAssumption DEF WindowOK
<1> QED BY <1>1, <1>2, AddsAssumption DEF BufInv

LEMMA BufInvNext == MaxAdds < UsizeMod /\ BufInv /\ [Next]_vars => BufInv'
<1> SUFFICES ASSUME MaxAdds < UsizeMod, BufInv, [Next]_vars PROVE BufInv'
    OBVIOUS
<1>1. ASSUME NEW v \in Value, AddOk(v) PROVE BufInv'
    BY <1>1, AddFacts
<1>2. ASSUME NEW v \in Value, AddOverflow(v) PROVE BufInv'
    BY <1>2 DEF AddOverflow, BufInv
<1>3. ASSUME NEW i \in Issued, RemoveHeld(i) PROVE BufInv'
    <2>1. i \in Nat
        BY DEF Issued, Usize
    <2> QED BY <1>3, <2>1, RemoveFacts
<1>4. ASSUME NEW i \in Issued, RemoveMissing(i) PROVE BufInv'
    BY <1>4 DEF RemoveMissing, BufInv
<1>5. CASE UNCHANGED vars
    BY <1>5 DEF vars, BufInv
<1> QED BY <1>1, <1>2, <1>3, <1>4, <1>5 DEF Next

-----------------------------------------------------------------------------
(* The table of requests in flight *)

\* The pending entries are those that the table holds: a slot tells its index.
LEMMA EntriesAreHeld ==
    ASSUME NEW b, WindowOK(b.data, b.min_idx, b.next_idx)
    PROVE  /\ DOMAIN Entries(b) = {i \in Nat : Holds(b, i)}
           /\ Entries(b) = [i \in {i \in Nat : Holds(b, i)} |-> ValueAt(b, i)]
           /\ \A i \in Nat : Holds(b, i) => b.min_idx <= i /\ i < b.next_idx
<1>1. /\ b.min_idx \in Nat /\ b.next_idx \in Nat
      /\ \A s \in Slots : b.data[s] # None =>
             /\ b.data[s].idx \in b.min_idx .. b.next_idx - 1
             /\ DataIdx(b.data[s].idx) = s
    BY DEF WindowOK
<1>2. \A i \in Nat : DataIdx(i) \in Slots
    BY SlotOfIndex
<1>3. {b.data[s].idx : s \in Occupied(b)} = {i \in Nat : Holds(b, i)}
    <2>1. ASSUME NEW s \in Occupied(b) PROVE b.data[s].idx \in Nat /\ Holds(b, b.data[s].idx)
        BY <1>1 DEF Occupied, Holds
    <2>2. ASSUME NEW i \in Nat, Holds(b, i) PROVE \E s \in Occupied(b) : i = b.data[s].idx
        BY <1>2, <2>2 DEF Occupied, Holds
    <2> QED BY <2>1, <2>2
<1>4. \A i \in Nat : Holds(b, i) => b.min_idx <= i /\ i < b.next_idx
    BY <1>1, <1>2 DEF Holds
<1> QED BY <1>3, <1>4 DEF Entries

LEMMA AddImplements ==
    ASSUME BufInv, MaxAdds < UsizeMod, NEW v \in Value, AddOk(v)
    PROVE  Table!AddEntry(v)
<1>1. /\ buf'.data = [buf.data EXCEPT ![DataIdx(added)] = [idx |-> added, value |-> v]]
      /\ buf.data[DataIdx(added)] = None
      /\ buf'.next_idx = added + 1 /\ buf.next_idx = added
      /\ last' = [call |-> "add", arg |-> v, result |-> added]
      /\ BufInv'
    BY AddFacts
<1>2. buf.data \in [Slots -> SlotEntry \cup {None}] /\ added \in Nat
    BY DEF BufInv, WindowOK
<1>3. DataIdx(added) \in Slots /\ \A i \in Nat : DataIdx(i) \in Slots
    BY <1>2, SlotOfIndex
<1> DEFINE entry == [idx |-> added, value |-> v]
<1>4. entry # None /\ entry.idx = added /\ entry.value = v
    <2>1. BufInv' => entry \in SlotEntry
        <3> SUFFICES ASSUME BufInv' PROVE entry \in SlotEntry
            OBVIOUS
        <3>1. added + 1 <= MaxAdds
            BY <1>1, <1>2 DEF BufInv, AddOk
        <3> QED BY <1>2, <3>1, AddsAssumption, UsizeAssumption DEF SlotEntry, Usize
    <2> QED BY <1>1, <2>1, NoneAssumption
<1>5. buf'.data = [buf.data EXCEPT ![DataIdx(added)] = entry]
    BY <1>1
<1> HIDE DEF entry
<1>6. ASSUME NEW i \in Nat
      PROVE  /\ Holds(buf', i) <=> Holds(buf, i) \/ i = added
             /\ i = added => ValueAt(buf', i) = v
             /\ Holds(buf, i) => i # added /\ ValueAt(buf', i) = ValueAt(buf, i)
    <2>1. CASE DataIdx(i) = DataIdx(added)
        BY <1>1, <1>2, <1>3, <1>4, <1>5, <2>1 DEF Holds, ValueAt
    <2>2. CASE DataIdx(i) # DataIdx(added)
        BY <1>1, <1>2, <1>3, <1>4, <1>5, <2>2 DEF Holds, ValueAt
    <2> QED BY <2>1, <2>2
<1> DEFINE D == {i \in Nat : Holds(buf, i)}
           E == {i \in Nat : Holds(buf', i)}
<1>7. E = D \cup {added}
    BY <1>2, <1>6
<1>8. Entries(buf) = [i \in D |-> ValueAt(buf, i)] /\ DOMAIN Entries(buf) = D
    BY EntriesAreHeld DEF BufInv
<1>9. Entries(buf') = [i \in E |-> ValueAt(buf', i)]
    BY <1>1, EntriesAreHeld DEF BufInv
<1>10. Entries(buf') = [i \in DOMAIN Entries(buf) \cup {buf.next_idx} |->
                            IF i = buf.next_idx THEN v ELSE Entries(buf)[i]]
    BY <1>1, <1>2, <1>6, <1>7, <1>8, <1>9
<1> QED BY <1>1, <1>10 DEF Table!AddEntry

LEMMA RemoveImplements ==
    ASSUME BufInv, NEW i \in Nat, RemoveHeld(i)
    PROVE  Table!TakeEntry(i)
<1>1. /\ buf'.data = [buf.data EXCEPT ![DataIdx(i)] = None]
      /\ buf'.next_idx = buf.next_idx
      /\ last' = [call |-> "remove", arg |-> i, result |-> ValueAt(buf, i)]
      /\ BufInv'
    BY RemoveFacts
<1>2. buf.data \in [Slots -> SlotEntry \cup {None}] /\ \A j \in Nat : DataIdx(j) \in Slots
    BY SlotOfIndex DEF BufInv, WindowOK
<1>3. Holds(buf, i)
    BY DEF RemoveHeld
<1>4. ASSUME NEW j \in Nat
      PROVE  /\ Holds(buf', j) <=> Holds(buf, j) /\ j # i
             /\ Holds(buf', j) => ValueAt(buf', j) = ValueAt(buf, j)
    <2>1. CASE DataIdx(j) = DataIdx(i)
        BY <1>1, <1>2, <1>3, <2>1 DEF Holds, ValueAt
    <2>2. CASE DataIdx(j) # DataIdx(i)
        BY <1>1, <1>2, <1>3, <2>2 DEF Holds, ValueAt
    <2> QED BY <2>1, <2>2
<1> DEFINE D == {j \in Nat : Holds(buf, j)}
           E == {j \in Nat : Holds(buf', j)}
<1>5. E = D \ {i} /\ i \in D
    BY <1>3, <1>4
<1>6. Entries(buf) = [j \in D |-> ValueAt(buf, j)] /\ DOMAIN Entries(buf) = D
    BY EntriesAreHeld DEF BufInv
<1>7. Entries(buf') = [j \in E |-> ValueAt(buf', j)]
    BY <1>1, EntriesAreHeld DEF BufInv
<1>8. Entries(buf') = [j \in DOMAIN Entries(buf) \ {i} |-> Entries(buf)[j]]
    BY <1>4, <1>5, <1>6, <1>7
<1>9. Entries(buf)[i] = ValueAt(buf, i)
    BY <1>5, <1>6
<1> QED BY <1>1, <1>5, <1>6, <1>8, <1>9 DEF Table!TakeEntry

\* What is refused is refused because of the first entry of the window.
LEMMA OverflowImplements ==
    ASSUME BufInv, MaxAdds < UsizeMod, NEW v \in Value, AddOverflow(v)
    PROVE  Table!Refuse(v)
<1>1. /\ buf.min_idx \in Nat /\ buf.next_idx \in Nat /\ buf.min_idx <= buf.next_idx
      /\ \A s \in Slots : buf.data[s] # None =>
             /\ buf.data[s].idx \in buf.min_idx .. buf.next_idx - 1
             /\ DataIdx(buf.data[s].idx) = s
      /\ buf.min_idx < buf.next_idx => buf.data[DataIdx(buf.min_idx)] # None
      /\ buf.next_idx <= buf.min_idx + capacity
      /\ buf.next_idx <= MaxAdds
    BY DEF BufInv, WindowOK
<1>2. (buf.next_idx - buf.min_idx) % UsizeMod = buf.next_idx - buf.min_idx
    <2>1. buf.next_idx - buf.min_idx \in Nat /\ UsizeMod \in Nat /\ buf.next_idx - buf.min_idx < UsizeMod
        BY <1>1, UsizeAssumption, AddsAssumption
    <2> QED BY ONLY <2>1, SmallModulo
<1>3. buf.next_idx - buf.min_idx = capacity
    BY <1>1, <1>2, CapacityAssumption DEF AddOverflow, Overflows
<1> DEFINE s == DataIdx(buf.min_idx)
           i == buf.data[s].idx
<1>4. s \in Slots /\ buf.data[s] # None
    BY <1>1, <1>3, CapacityAssumption, SlotOfIndex
<1>5. i \in buf.min_idx .. buf.next_idx - 1 /\ DataIdx(i) = DataIdx(buf.min_idx)
    BY <1>1, <1>4
<1>6. i = buf.min_idx
    <2>1. i \in Nat /\ (i = buf.min_idx \/ (buf.min_idx < i /\ i < buf.min_idx + capacity))
        BY <1>1, <1>3, <1>5, CapacityAssumption
    <2> HIDE DEF i
    <2> QED BY <1>1, <1>5, <2>1, WindowSlots
<1>7. i \in DOMAIN Entries(buf)
    BY <1>4 DEF Entries, Occupied
<1>8. buf.next_idx - i >= capacity
    BY <1>3, <1>6, CapacityAssumption
<1> QED BY <1>7, <1>8 DEF Table!Refuse, AddOverflow

LEMMA NextImplements ==
    MaxAdds < UsizeMod /\ BufInv /\ [Next]_vars => [Table!Next]_<<Entries(buf), buf.next_idx, last>>
<1> SUFFICES ASSUME MaxAdds < UsizeMod, BufInv, [Next]_vars
             PROVE  [Table!Next]_<<Entries(buf), buf.next_idx, last>>
    OBVIOUS
<1>1. ASSUME NEW v \in Value, AddOk(v) \/ AddOverflow(v) PROVE Table!Next
    BY <1>1, AddImplements, OverflowImplements DEF Table!Next
<1>2. ASSUME NEW i \in Issued, RemoveHeld(i) \/ RemoveMissing(i) PROVE Table!Next
    <2>1. i \in Nat /\ i \in 0 .. buf.next_idx - 1
        BY DEF Issued, Usize, BufInv, WindowOK
    <2>2. CASE RemoveHeld(i)
        BY <2>1, <2>2, RemoveImplements DEF Table!Next
    <2>3. CASE RemoveMissing(i)
        <3>1. i \notin DOMAIN Entries(buf)
            BY <2>1, <2>3, EntriesAreHeld DEF RemoveMissing, BufInv
        <3>2. Table!Miss(i)
            BY <2>3, <3>1 DEF RemoveMissing, Table!Miss
        <3> QED BY <2>1, <3>2 DEF Table!Next
    <2> QED BY <1>2, <2>2, <2>3
<1>3. CASE UNCHANGED vars
    BY <1>3 DEF vars
<1> QED BY <1>1, <1>2, <1>3 DEF Next

LEMMA InitImplements == Init => Table!Init
<1> SUFFICES ASSUME Init PROVE Table!Init
    OBVIOUS
<1>1. /\ buf.next_idx = 0 /\ buf.data = [s \in Slots |-> None]
      /\ last = [call |-> "none", arg |-> None, result |-> None]
    BY DEF Init, WithCapacity, NoCall
<1>2. Occupied(buf) = {}
    BY <1>1 DEF Occupied
<1>3. {buf.data[s].idx : s \in Occupied(buf)} = {}
    BY <1>2
<1>4. Entries(buf) = [i \in {} |-> None]
    BY <1>3 DEF Entries
<1> QED BY <1>1, <1>4 DEF Table!Init, Table!NoCall

\* The window of indices begins with the oldest entry, whatever the order in
\* which entries are removed.
THEOREM WindowHolds == MaxAdds < UsizeMod => (Spec => []BufInv)
<1> SUFFICES ASSUME MaxAdds < UsizeMod PROVE Spec => []BufInv
    OBVIOUS
<1>1. BufInv /\ [Next]_vars => BufInv'
    BY BufInvNext
<1> QED BY <1>1, BufInvInit, PTL DEF Spec

\* As long as the indices do not wrap (mod.rs:31), the ring buffer is the table
\* of requests in flight: add never gives away the slot of an entry that waits,
\* remove finds an entry by its own index only, and add overflows only while an
\* entry that is capacity older waits.
THEOREM RingBufIsTable == MaxAdds < UsizeMod => (Spec => ImplementsInFlightTable)
<1> SUFFICES ASSUME MaxAdds < UsizeMod PROVE Spec => ImplementsInFlightTable
    OBVIOUS
<1>1. Init => BufInv /\ Table!Init
    BY BufInvInit, InitImplements
<1>2. BufInv /\ [Next]_vars => BufInv' /\ [Table!Next]_<<Entries(buf), buf.next_idx, last>>
    BY BufInvNext, NextImplements
<1> QED BY <1>1, <1>2, PTL DEF Spec, ImplementsInFlightTable, Table!Spec

=============================================================================
