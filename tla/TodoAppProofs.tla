---------------------------- MODULE TodoAppProofs ----------------------------
(***************************************************************************)
(* What TodoApp guarantees for every set of windows, users and texts and    *)
(* all bounds: type correctness, equal states of state machines that have   *)
(* applied as much, panics of stale commands only, and the use it makes of  *)
(* ReplicatedLog.                                                           *)
(***************************************************************************)
EXTENDS TodoApp, TLAPS, FiniteSetTheorems, SequenceTheorems

Command == UNION {Offered(st) : st \in State}
Choice == [task: Nat, attempt: Nat, cmd: Command, seen: Nat]
Task == [window: Window, cmd: Command, seen: Nat, attempt: Nat,
         stage: {"waiting", "sleeping", "done", "gone"}]

-----------------------------------------------------------------------------
(* The inductive invariant: there is one history of states, which all state  *)
(* machines, pages and commands refer to.                                    *)

\* A command that panics leaves the state as it is.
After(st, cmd) == IF Panics(st, cmd) THEN st ELSE Apply(st, cmd)

\* The states that the log leads to, the first one for the empty log.
History(f) ==
    /\ f \in [0 .. Len(log) -> State]
    /\ f[0] = DefaultState
    /\ \A k \in 1 .. Len(log) : f[k] = After(f[k - 1], log[k].cmd)

MachinesFollow(f) == \A w \in Window : state[w] = f[applied[w]]
PagesFollow(f) == \A w \in Window : page[w].state = f[page[w].version]

\* A page offered the command, when it showed a state of the history.
OfferedAt(f, r) == r.seen <= Len(log) /\ r.cmd \in Offered(f[r.seen])
AllOffered(f) ==
    /\ \A r \in requests : OfferedAt(f, r)
    /\ \A k \in 1 .. Len(log) : OfferedAt(f, log[k])
    /\ \A t \in DOMAIN tasks : OfferedAt(f, tasks[t])

TrappedByNext ==
    \A w \in Window :
        trapped[w] => /\ applied[w] < Len(log)
                      /\ Panics(state[w], log[applied[w] + 1].cmd)

AckedWereChosen ==
    \A t \in DOMAIN tasks :
        tasks[t].stage = "done" => \E k \in 1 .. Len(log) : log[k] = Request(t, tasks[t])

Types ==
    /\ log \in Seq(Choice) /\ requests \subseteq Choice /\ tasks \in Seq(Task)
    /\ state \in [Window -> State]
    /\ applied \in [Window -> 0 .. Len(log)]
    /\ trapped \in [Window -> BOOLEAN]
    /\ updates \in [Window -> 0 .. UpdatesCapacity]
    /\ page \in [Window -> [state: State, version: Nat]]
    /\ \A w \in Window : page[w].version <= applied[w]

Chronicle(f) ==
    /\ Types
    /\ TrappedByNext
    /\ AckedWereChosen
    /\ History(f)
    /\ MachinesFollow(f)
    /\ PagesFollow(f)
    /\ AllOffered(f)

TodoInv == \E f : Chronicle(f)

-----------------------------------------------------------------------------
(* The entries that a filter shows *)

\* There is a member of each rank: Ascending lists the members of a finite set
\* of positions, as enumerating and filtering the entries does.
LEMMA AscendingFacts ==
    ASSUME NEW S, NEW m \in Nat, S \subseteq 1 .. m
    PROVE  /\ Cardinality(S) \in Nat /\ Cardinality(S) <= m
           /\ DOMAIN Ascending(S) = 1 .. Cardinality(S)
           /\ Len(Ascending(S)) = Cardinality(S)
           /\ \A n \in 1 .. Cardinality(S) : Ascending(S)[n] \in S
<1> DEFINE Below(k) == {j \in S : j < k}
           rank == [k \in S |-> Cardinality(Below(k)) + 1]
           c == Cardinality(S)
<1>1. IsFiniteSet(1 .. m) /\ Cardinality(1 .. m) = m
  BY FS_Interval
<1>2. IsFiniteSet(S) /\ c \in Nat /\ c <= m
  BY <1>1, FS_Subset, FS_CardinalityType
<1>3. \A k \in S : k \in Nat /\ IsFiniteSet(Below(k)) /\ Cardinality(Below(k)) \in Nat
  BY <1>2, FS_Subset, FS_CardinalityType
<1>4. \A j, k \in S : j < k => Cardinality(Below(j)) < Cardinality(Below(k))
  <2> SUFFICES ASSUME NEW j \in S, NEW k \in S, j < k
               PROVE  Cardinality(Below(j)) < Cardinality(Below(k))
    OBVIOUS
  <2>1. \A i \in S : i < j => i < k
    BY <1>3
  <2>2. Below(j) \subseteq Below(k)
    BY <2>1
  <2>3. j \in Below(k) /\ j \notin Below(j)
    BY <1>3
  <2>4. Cardinality(Below(j)) <= Cardinality(Below(k)) /\ Cardinality(Below(j)) # Cardinality(Below(k))
    BY <2>2, <2>3, <1>3, FS_Subset
  <2> QED BY <2>4, <1>3
<1>5. \A k \in S : Cardinality(Below(k)) < c
  <2> SUFFICES ASSUME NEW k \in S PROVE Cardinality(Below(k)) < c
    OBVIOUS
  <2>1. Below(k) \subseteq S /\ k \in S \ Below(k)
    BY <1>3
  <2>2. Cardinality(Below(k)) <= c /\ Cardinality(Below(k)) # c
    BY <2>1, <1>2, FS_Subset
  <2> QED BY <2>2, <1>2, <1>3
<1>6. rank \in [S -> 1 .. c]
  BY <1>2, <1>3, <1>5
<1>7. \A j, k \in S : rank[j] = rank[k] => j = k
  <2> SUFFICES ASSUME NEW j \in S, NEW k \in S, rank[j] = rank[k], j # k
               PROVE  FALSE
    OBVIOUS
  <2>1. Cardinality(Below(j)) = Cardinality(Below(k))
    BY <1>3
  <2> QED BY <2>1, <1>3, <1>4
<1>8. rank \in Injection(S, 1 .. c)
  BY <1>6, <1>7 DEF Injection, IsInjective
<1>9. IsFiniteSet(1 .. c) /\ Cardinality(1 .. c) = c
  BY <1>2, FS_Interval
<1>10. rank \in Surjection(S, 1 .. c)
  BY <1>8, <1>9, FS_Injection
<1>11. \A n \in 1 .. c : \E k \in S : rank[k] = n
  BY <1>10 DEF Surjection
<1>12. \A n \in 1 .. c : \E k \in S : Cardinality(Below(k)) = n - 1
  <2> SUFFICES ASSUME NEW n \in 1 .. c PROVE \E k \in S : Cardinality(Below(k)) = n - 1
    OBVIOUS
  <2>1. PICK k \in S : rank[k] = n
    BY <1>11
  <2>2. Cardinality(Below(k)) + 1 = n /\ Cardinality(Below(k)) \in Nat
    BY <2>1, <1>3
  <2>3. Cardinality(Below(k)) = n - 1
    BY <2>2
  <2> QED BY <2>3, Zenon
<1>13. Ascending(S) = [n \in 1 .. c |-> CHOOSE k \in S : Cardinality(Below(k)) = n - 1]
  BY DEF Ascending
<1>14. Ascending(S) \in [1 .. c -> S]
  BY <1>12, <1>13
<1>15. Ascending(S) \in Seq(S) /\ Len(Ascending(S)) = c
  BY <1>2, <1>14, SeqDef, LenProperties
<1> QED BY <1>2, <1>14, <1>15

\* The entries shown are among all of them.
LEMMA ShownFacts ==
    ASSUME NEW st \in State
    PROVE  /\ Len(Shown(st)) \in Nat /\ Len(Shown(st)) <= Len(st.entries)
           /\ DOMAIN Shown(st) = 1 .. Len(Shown(st))
           /\ \A n \in 1 .. Len(Shown(st)) : Shown(st)[n] \in 1 .. Len(st.entries)
<1>1. st.entries \in Seq(Entry)
  BY DEF State
<1>3. Len(st.entries) \in Nat /\ DOMAIN st.entries = 1 .. Len(st.entries)
  BY <1>1, LenProperties
<1>2. Positions(st.entries, st.filter) \subseteq 1 .. Len(st.entries)
  BY <1>3 DEF Positions
<1> DEFINE S == Positions(st.entries, st.filter)
           m == Len(st.entries)
<1>4. /\ Cardinality(S) \in Nat /\ Cardinality(S) <= m
      /\ DOMAIN Ascending(S) = 1 .. Cardinality(S)
      /\ Len(Ascending(S)) = Cardinality(S)
      /\ \A n \in 1 .. Cardinality(S) : Ascending(S)[n] \in S
  <2> HIDE DEF S, m
  <2> QED BY <1>2, <1>3, AscendingFacts DEF S, m
<1> QED BY <1>2, <1>4 DEF Shown

\* No index that a page offers panics in the state that it shows.
LEMMA OfferedNeverPanics ==
    ASSUME NEW st \in State, NEW cmd \in Offered(st)
    PROVE  ~Panics(st, cmd)
<1>1. \A idx \in Places(st) : idx < Len(Shown(st))
  BY ShownFacts DEF Places
<1>2. Editable(st) \subseteq Places(st)
  BY DEF Editable, Places
<1>3. CASE cmd \in {Indexed(kind, idx) : kind \in {"Toggle", "ToggleEdit", "Remove"}, idx \in Places(st)}
  BY <1>1, <1>3, ShownFacts DEF Panics, Indexed, Places
<1>4. CASE cmd \in {Indexed("Edit", idx) : idx \in Editable(st)}
  BY <1>1, <1>2, <1>4, ShownFacts DEF Panics, Indexed, Places
<1>5. CASE cmd.kind \notin IndexedCommands
  BY <1>5 DEF Panics
<1> QED BY <1>3, <1>4, <1>5 DEF Offered, IndexedCommands

-----------------------------------------------------------------------------
(* What a command does to a state *)

\* The kind of a command tells its fields.
LEMMA CommandFields ==
    ASSUME NEW cmd \in Command
    PROVE  /\ cmd.kind \in IndexedCommands => cmd.idx \in Nat
           /\ cmd.kind \in {"Update", "UpdateEdit"} => cmd.text \in Typed
           /\ cmd.kind = "SetFilter" => cmd.filter \in Filter
           /\ cmd.kind \in IndexedCommands \cup {"Add", "Update", "UpdateEdit", "SetFilter",
                                                 "ToggleAll", "ClearCompleted"}
<1>1. PICK st \in State : cmd \in Offered(st)
  BY DEF Command
<1>2. \A idx \in Places(st) : idx \in Nat
  BY ShownFacts DEF Places
<1>3. \A idx \in Editable(st) : idx \in Nat
  BY ShownFacts DEF Editable
<1>4. CASE cmd \in {Indexed(kind, idx) : kind \in {"Toggle", "ToggleEdit", "Remove"}, idx \in Places(st)}
  BY <1>2, <1>4 DEF Indexed, IndexedCommands
<1>5. CASE cmd \in {Indexed("Edit", idx) : idx \in Editable(st)}
  BY <1>3, <1>5 DEF Indexed, IndexedCommands
<1>6. CASE cmd \in [kind: {"Update"}, text: Typed] \cup [kind: {"UpdateEdit"}, text: Typed]
  BY <1>6 DEF IndexedCommands
<1>7. CASE cmd \in {[kind |-> "Add"]} \cup [kind: {"ToggleAll", "ClearCompleted"}]
  BY <1>7 DEF IndexedCommands
<1>8. CASE cmd \in [kind: {"SetFilter"}, filter: Filter]
  BY <1>8 DEF IndexedCommands
<1>9. \/ cmd \in {Indexed(kind, idx) : kind \in {"Toggle", "ToggleEdit", "Remove"}, idx \in Places(st)}
      \/ cmd \in {Indexed("Edit", idx) : idx \in Editable(st)}
      \/ cmd \in [kind: {"Update"}, text: Typed] \cup [kind: {"UpdateEdit"}, text: Typed]
      \/ cmd \in {[kind |-> "Add"]} \cup [kind: {"ToggleAll", "ClearCompleted"}]
      \/ cmd \in [kind: {"SetFilter"}, filter: Filter]
  BY <1>1 DEF Offered
<1> QED BY <1>4, <1>5, <1>6, <1>7, <1>8, <1>9

\* What is left of a text without its blanks is one that an entry may have.
LEMMA TrimType ==
    ASSUME NEW t \in Typed \cup {""}, Trim(t) # ""
    PROVE  Trim(t) \in Text
BY DEF Trim, Typed, Blank

\* An index that does not panic names an entry.
LEMMA NthType ==
    ASSUME NEW st \in State, NEW idx \in Nat, idx < Len(Shown(st))
    PROVE  Nth(st, idx) \in 1 .. Len(st.entries) /\ idx + 1 \in 1 .. Len(st.entries)
BY ShownFacts DEF Nth

LEMMA FcnIsSeq ==
    ASSUME NEW S, NEW n \in Nat, NEW s \in [1 .. n -> S]
    PROVE  s \in Seq(S)
BY SeqDef

\* Entries changed in place, or left out, leave entries.
LEMMA EntriesTypes ==
    ASSUME NEW entries \in Seq(Entry), NEW k \in 1 .. Len(entries)
    PROVE  /\ DOMAIN entries = 1 .. Len(entries) /\ Len(entries) \in Nat
           /\ entries[k] \in Entry
           /\ \A e \in Entry : [entries EXCEPT ![k] = e] \in Seq(Entry)
           /\ Without(entries, k) \in Seq(Entry)
           /\ \A es \in [1 .. Len(entries) -> Entry] : es \in Seq(Entry)
<1>1. DOMAIN entries = 1 .. Len(entries) /\ Len(entries) \in Nat /\ \A j \in 1 .. Len(entries) : entries[j] \in Entry
  BY LenProperties, ElementOfSeq
<1>2. SubSeq(entries, 1, k - 1) \in Seq(Entry) /\ SubSeq(entries, k + 1, Len(entries)) \in Seq(Entry)
  BY <1>1, SubSeqProperties
<1>3. Without(entries, k) \in Seq(Entry)
  BY <1>2, ConcatProperties DEF Without
<1>4. \A e \in Entry : [entries EXCEPT ![k] = e] \in Seq(Entry)
  BY ExceptSeq
<1>5. \A es \in [1 .. Len(entries) -> Entry] : es \in Seq(Entry)
  BY <1>1, SeqDef
<1> QED BY <1>1, <1>3, <1>4, <1>5

\* A command that does not panic names an entry that is shown.
LEMMA IndexFacts ==
    ASSUME NEW st \in State, NEW cmd \in Command, cmd.kind \in IndexedCommands, ~Panics(st, cmd)
    PROVE  cmd.idx \in Nat /\ cmd.idx < Len(Shown(st))
<1> DEFINE n == Len(Shown(st))
           idx == cmd.idx
<1>1. idx \in Nat /\ n \in Nat
  BY CommandFields, ShownFacts
<1>2. ~(idx >= n)
  BY DEF Panics
<1> HIDE DEF n, idx
<1>3. idx \in Nat /\ idx < n
  BY <1>1, <1>2
<1> QED BY <1>3 DEF n, idx

\* State::apply of a command that does not panic leads to a state.
LEMMA ApplyType ==
    ASSUME NEW st \in State, NEW cmd \in Command, ~Panics(st, cmd)
    PROVE  Apply(st, cmd) \in State
<1> USE DEF State
<1>1. /\ st.entries \in Seq(Entry) /\ st.filter \in Filter
      /\ st.value \in Typed \cup {""} /\ st.edit_value \in Typed \cup {""}
  OBVIOUS
<1>2. Text \subseteq Typed
  BY DEF Typed
<1>3. CASE cmd.kind = "Add"
  <2>1. CASE Trim(st.value) = ""
    BY <1>1, <1>3, <2>1 DEF Apply, Add
  <2>2. CASE Trim(st.value) # ""
    <3> DEFINE e == [description |-> Trim(st.value), completed |-> FALSE, editing |-> FALSE]
    <3>1. e \in Entry
      BY <1>1, <2>2, TrimType DEF Entry
    <3>2. Append(st.entries, e) \in Seq(Entry)
      BY <1>1, <3>1, AppendProperties
    <3>3. Apply(st, cmd) = [st EXCEPT !.value = "", !.entries = Append(@, e)]
      BY <1>3, <2>2 DEF Apply, Add
    <3> QED BY <3>2, <3>3
  <2> QED BY <2>1, <2>2
<1>4. CASE cmd.kind \in IndexedCommands
  <2> DEFINE idx == cmd.idx
             k == Nth(st, idx)
  <2>1. idx \in Nat /\ idx < Len(Shown(st))
    BY <1>4, IndexFacts
  <2>2. k \in 1 .. Len(st.entries) /\ idx + 1 \in 1 .. Len(st.entries)
    BY <2>1, NthType
  <2>3. Remove(st, idx) = [st EXCEPT !.entries = Without(@, k)]
    BY DEF Remove
  <2> HIDE DEF k, idx
  <2>4. Remove(st, idx) \in State
    BY <1>1, <2>2, <2>3, EntriesTypes
  <2>5. CASE cmd.kind = "Remove"
    BY <2>4, <2>5 DEF Apply, idx
  <2>6. CASE cmd.kind = "Edit"
    <3> DEFINE val == Trim(st.edit_value)
               e == [st.entries[k] EXCEPT !.description = val, !.editing = ~@]
    <3>1. Apply(st, cmd) = Edit(st, idx)
      BY <2>6 DEF Apply, idx
    <3>2. CASE val = ""
      <4>1. Edit(st, idx) = [Remove(st, idx) EXCEPT !.edit_value = ""]
        BY <3>2 DEF Edit
      <4> QED BY <3>1, <4>1, <2>4
    <3>3. CASE val # ""
      <4>1. val \in Text
        BY <1>1, <3>3, TrimType
      <4>2. st.entries[k] \in Entry
        BY <1>1, <2>2, EntriesTypes
      <4>3. e \in Entry
        BY <4>1, <4>2 DEF Entry
      <4>4. [st.entries EXCEPT ![k] = e] \in Seq(Entry)
        BY <1>1, <2>2, <4>3, EntriesTypes
      <4>5. Edit(st, idx) = [[st EXCEPT !.entries = [@ EXCEPT ![k] = e]] EXCEPT !.edit_value = ""]
        <5> HIDE DEF e
        <5> QED BY <3>3 DEF Edit, k, e
      <4> QED BY <3>1, <4>4, <4>5
    <3> QED BY <3>2, <3>3
  <2>7. CASE cmd.kind = "ToggleEdit"
    <3> DEFINE cleared == [j \in DOMAIN st.entries |-> [st.entries[j] EXCEPT !.editing = FALSE]]
               e == [cleared[k] EXCEPT !.editing = ~@]
    <3>1. DOMAIN st.entries = 1 .. Len(st.entries) /\ \A j \in 1 .. Len(st.entries) : st.entries[j] \in Entry
      BY <1>1, LenProperties, ElementOfSeq
    <3>2. cleared \in [1 .. Len(st.entries) -> Entry]
      BY <3>1 DEF Entry
    <3>3. e \in Entry
      BY <2>2, <3>2 DEF Entry
    <3>4. [cleared EXCEPT ![k] = e] \in [1 .. Len(st.entries) -> Entry]
      BY <3>2, <3>3
    <3>5. [cleared EXCEPT ![k] = e] \in Seq(Entry)
      BY <1>1, <2>2, <3>4, EntriesTypes
    <3>6. st.entries[idx + 1].description \in Typed
      BY <2>2, <3>1, <1>2 DEF Entry
    <3>7. Apply(st, cmd) = [st EXCEPT !.edit_value = st.entries[idx + 1].description,
                                      !.entries = [cleared EXCEPT ![k] = e]]
      BY <2>7, <2>2, <3>2 DEF Apply, ToggleEdit, idx, k
    <3> QED BY <3>5, <3>6, <3>7
  <2>8. CASE cmd.kind = "Toggle"
    <3> DEFINE e == [st.entries[k] EXCEPT !.completed = ~@]
    <3>1. e \in Entry
      BY <1>1, <2>2, EntriesTypes DEF Entry
    <3>2. [st.entries EXCEPT ![k] = e] \in Seq(Entry)
      BY <1>1, <2>2, <3>1, EntriesTypes
    <3>3. Apply(st, cmd) = [st EXCEPT !.entries = [@ EXCEPT ![k] = e]]
      BY <2>8, <1>1, <2>2, EntriesTypes DEF Apply, Toggle, idx, k
    <3> QED BY <3>2, <3>3
  <2> QED BY <1>4, <2>5, <2>6, <2>7, <2>8 DEF IndexedCommands
<1>5. CASE cmd.kind \in {"Update", "UpdateEdit", "SetFilter"}
  BY <1>5, CommandFields DEF Apply
<1>6. CASE cmd.kind = "ToggleAll"
  <2> DEFINE es == [k \in DOMAIN st.entries |->
                      IF Fits(st.filter, st.entries[k])
                        THEN [st.entries[k] EXCEPT !.completed = ~IsAllCompleted(st)] ELSE st.entries[k]]
  <2>1. DOMAIN st.entries = 1 .. Len(st.entries) /\ Len(st.entries) \in Nat
        /\ \A k \in 1 .. Len(st.entries) : st.entries[k] \in Entry
    BY <1>1, LenProperties, ElementOfSeq
  <2>2. IsAllCompleted(st) \in BOOLEAN
    BY DEF IsAllCompleted
  <2>3. es \in [1 .. Len(st.entries) -> Entry]
    BY <2>1, <2>2 DEF Entry
  <2>4. es \in Seq(Entry)
    <3> HIDE DEF es
    <3> QED BY <2>1, <2>3, FcnIsSeq
  <2>5. Apply(st, cmd) = [st EXCEPT !.entries = es]
    BY <1>6 DEF Apply, ToggleAll
  <2> QED BY <2>4, <2>5
<1>7. CASE cmd.kind = "ClearCompleted"
  <2> DEFINE S == Positions(st.entries, "Active")
             kept == Ascending(S)
             es == [n \in DOMAIN kept |-> st.entries[kept[n]]]
  <2>1. DOMAIN st.entries = 1 .. Len(st.entries) /\ Len(st.entries) \in Nat
        /\ \A k \in 1 .. Len(st.entries) : st.entries[k] \in Entry
    BY <1>1, LenProperties, ElementOfSeq
  <2>2. S \subseteq 1 .. Len(st.entries)
    BY <2>1 DEF Positions
  <2>3. /\ Cardinality(S) \in Nat /\ DOMAIN kept = 1 .. Cardinality(S)
        /\ \A n \in 1 .. Cardinality(S) : kept[n] \in S
    <3> HIDE DEF S
    <3>1. DOMAIN Ascending(S) = 1 .. Cardinality(S) /\ \A n \in 1 .. Cardinality(S) : Ascending(S)[n] \in S
      BY <2>1, <2>2, AscendingFacts
    <3>2. Cardinality(S) \in Nat
      BY <2>1, <2>2, AscendingFacts
    <3> QED BY <3>1, <3>2
  <2>4. es \in [1 .. Cardinality(S) -> Entry]
    BY <2>1, <2>2, <2>3
  <2>5. es \in Seq(Entry)
    <3> HIDE DEF es
    <3> QED BY <2>3, <2>4, FcnIsSeq
  <2>6. Apply(st, cmd) = [st EXCEPT !.entries = es]
    BY <1>7 DEF Apply, ClearCompleted
  <2> QED BY <2>5, <2>6
<1> QED BY <1>3, <1>4, <1>5, <1>6, <1>7, CommandFields

\* A command after which the history goes on leads to a state.
LEMMA AfterType ==
    ASSUME NEW st \in State, NEW cmd \in Command
    PROVE  After(st, cmd) \in State
BY ApplyType DEF After

-----------------------------------------------------------------------------
(* The invariant is inductive *)

\* Init: every window's page and state machine show the default state.
LEMMA TodoInit == Init => TodoInv
<1> SUFFICES ASSUME Init PROVE TodoInv
  OBVIOUS
<1> DEFINE f == [k \in 0 .. 0 |-> DefaultState]
<1>1. DefaultState \in State
  BY EmptySeq DEF DefaultState, State, Filter
<1>2. log = <<>> /\ Len(log) = 0 /\ tasks = <<>> /\ DOMAIN tasks = {} /\ 0 .. Len(log) = 0 .. 0
  BY DEF Init
<1>3. Types
  BY <1>1, <1>2, EmptySeq DEF Init, Types, FirstPage, UpdatesCapacity
<1>4. TrappedByNext /\ AckedWereChosen
  BY <1>2 DEF Init, TrappedByNext, AckedWereChosen
<1>5. History(f)
  BY <1>1, <1>2 DEF History
<1>6. MachinesFollow(f) /\ PagesFollow(f)
  BY DEF Init, MachinesFollow, PagesFollow, FirstPage
<1>7. AllOffered(f)
  BY <1>2 DEF Init, AllOffered
<1> QED BY <1>3, <1>4, <1>5, <1>6, <1>7 DEF TodoInv, Chronicle

\* A command that a page or a worker has is one that some state offers.
LEMMA OfferedIsCommand ==
    ASSUME NEW f, Types, History(f), NEW r, r.seen \in Nat, OfferedAt(f, r)
    PROVE  f[r.seen] \in State /\ r.cmd \in Command
<1>1. Len(log) \in Nat
  BY LenProperties DEF Types
<1>2. r.seen \in 0 .. Len(log)
  BY <1>1 DEF OfferedAt
<1> QED BY <1>2 DEF History, OfferedAt, Command

\* Steps of callbacks keep the invariant that put offered commands into
\* requests and tasks, and end only those whose command was chosen.
LEMMA TasksKeep ==
    ASSUME NEW f, Chronicle(f), UNCHANGED <<log, machineVars, page>>,
           requests' \subseteq Choice, tasks' \in Seq(Task),
           \A r \in requests' : OfferedAt(f, r),
           \A t \in DOMAIN tasks' :
               /\ OfferedAt(f, tasks'[t])
               /\ tasks'[t].stage = "done" => \E k \in 1 .. Len(log) : log[k] = Request(t, tasks'[t])
    PROVE  Chronicle(f)'
<1>1. Types'
  BY DEF Chronicle, Types, machineVars
<1>2. TrappedByNext' /\ AckedWereChosen'
  BY DEF Chronicle, TrappedByNext, AckedWereChosen, machineVars, Request
<1>3. History(f)' /\ MachinesFollow(f)' /\ PagesFollow(f)'
  BY DEF Chronicle, History, MachinesFollow, PagesFollow, machineVars
<1>4. AllOffered(f)'
  BY DEF Chronicle, AllOffered, OfferedAt
<1> QED BY <1>1, <1>2, <1>3, <1>4 DEF Chronicle

\* Steps of a window keep the invariant that leave its machine and its page
\* with states of the history.
LEMMA WindowsKeep ==
    ASSUME NEW f, Chronicle(f), UNCHANGED <<clusterVars, tasks>>,
           state' \in [Window -> State], applied' \in [Window -> 0 .. Len(log)],
           trapped' \in [Window -> BOOLEAN], updates' \in [Window -> 0 .. UpdatesCapacity],
           page' \in [Window -> [state: State, version: Nat]],
           \A w \in Window :
               /\ state'[w] = f[applied'[w]]
               /\ page'[w].state = f[page'[w].version] /\ page'[w].version <= applied'[w]
               /\ trapped'[w] => /\ applied'[w] < Len(log)
                                 /\ Panics(state'[w], log[applied'[w] + 1].cmd)
    PROVE  Chronicle(f)'
<1>1. Types'
  BY DEF Chronicle, Types, clusterVars
<1>2. TrappedByNext' /\ AckedWereChosen'
  BY DEF Chronicle, TrappedByNext, AckedWereChosen, clusterVars, Request
<1>3. History(f)' /\ MachinesFollow(f)' /\ PagesFollow(f)'
  BY DEF Chronicle, History, MachinesFollow, PagesFollow, clusterVars
<1>4. AllOffered(f)'
  BY DEF Chronicle, AllOffered, OfferedAt, clusterVars
<1> QED BY <1>1, <1>2, <1>3, <1>4 DEF Chronicle

\* The fields of what the invariant types.
LEMMA TypedParts ==
    ASSUME Types
    PROVE  /\ Len(log) \in Nat /\ DOMAIN log = 1 .. Len(log) /\ \A k \in 1 .. Len(log) : log[k] \in Choice
           /\ Len(tasks) \in Nat /\ DOMAIN tasks = 1 .. Len(tasks) /\ \A t \in DOMAIN tasks : tasks[t] \in Task
BY LenProperties, ElementOfSeq DEF Types

\* handle_state_machine applies what a log has next: its state is the next one
\* of the history of that log, unless the command traps it.
LEMMA ReceiveFacts ==
    ASSUME NEW lg \in Seq(Choice), NEW g \in [0 .. Len(lg) -> State], NEW w \in Window,
           \A k \in 1 .. Len(lg) : g[k] = After(g[k - 1], lg[k].cmd),
           state \in [Window -> State], applied \in [Window -> 0 .. Len(lg)],
           trapped \in [Window -> BOOLEAN], updates \in [Window -> 0 .. UpdatesCapacity],
           \A v \in Window :
               /\ state[v] = g[applied[v]]
               /\ trapped[v] => applied[v] < Len(lg) /\ Panics(state[v], lg[applied[v] + 1].cmd),
           applied[w] < Len(lg), ~trapped[w], Receive(w, lg[applied[w] + 1].cmd)
    PROVE  /\ state' \in [Window -> State] /\ applied' \in [Window -> 0 .. Len(lg)]
           /\ trapped' \in [Window -> BOOLEAN] /\ updates' \in [Window -> 0 .. UpdatesCapacity]
           /\ \A v \in Window :
                  /\ state'[v] = g[applied'[v]]
                  /\ applied[v] <= applied'[v]
                  /\ trapped'[v] => /\ applied'[v] < Len(lg)
                                    /\ Panics(state'[v], lg[applied'[v] + 1].cmd)
<1> DEFINE next == applied[w] + 1
           cmd == lg[next].cmd
<1>1. Len(lg) \in Nat
  BY LenProperties
<1>2. next \in 1 .. Len(lg) /\ next - 1 = applied[w] /\ applied[w] \in 0 .. Len(lg) /\ applied[w] \in Nat
  BY <1>1
<1>3. lg[next] \in Choice
  BY <1>2, ElementOfSeq
<1>4. cmd \in Command
  BY <1>3 DEF Choice
<1>5. state[w] \in State /\ state[w] = g[applied[w]] /\ g[next] = After(g[applied[w]], cmd)
  BY <1>1, <1>2
<1>6. CASE Panics(state[w], cmd)
  <2>1. trapped' = [trapped EXCEPT ![w] = TRUE] /\ UNCHANGED <<applied, state, updates>>
    BY <1>6 DEF Receive
  <2> HIDE DEF next, cmd
  <2>2. \A v \in Window : trapped'[v] => applied[v] < Len(lg) /\ Panics(state[v], lg[applied[v] + 1].cmd)
    BY <1>1, <1>6, <2>1 DEF next, cmd
  <2>3. \A v \in Window : applied[v] <= applied[v]
    BY <1>1
  <2> QED BY <1>1, <2>1, <2>2, <2>3
<1>7. CASE ~Panics(state[w], cmd)
  <2>1. /\ state' = [state EXCEPT ![w] = Apply(state[w], cmd)]
        /\ applied' = [applied EXCEPT ![w] = next]
        /\ updates' = [updates EXCEPT ![w] = IF @ < UpdatesCapacity THEN @ + 1 ELSE @]
        /\ UNCHANGED trapped
    BY <1>7 DEF Receive
  <2>2. g[next] = Apply(state[w], cmd) /\ g[next] \in State
    BY <1>4, <1>5, <1>7, ApplyType DEF After
  <2> HIDE DEF next, cmd
  <2>3. state' \in [Window -> State] /\ applied' \in [Window -> 0 .. Len(lg)]
    BY <1>1, <1>2, <2>1, <2>2
  <2>4. updates' \in [Window -> 0 .. UpdatesCapacity]
    BY <1>1, <2>1 DEF UpdatesCapacity
  <2>5. \A v \in Window : state'[v] = g[applied'[v]] /\ applied[v] <= applied'[v]
    BY <1>1, <1>2, <2>1, <2>2
  <2>6. \A v \in Window : trapped'[v] => v # w /\ applied'[v] = applied[v] /\ state'[v] = state[v]
    BY <1>1, <2>1
  <2>7. \A v \in Window : trapped'[v] => applied'[v] < Len(lg) /\ Panics(state'[v], lg[applied'[v] + 1].cmd)
    BY <2>1, <2>6
  <2> QED BY <1>1, <2>1, <2>3, <2>4, <2>5, <2>7
<1> QED BY <1>6, <1>7

LEMMA DeliverKeeps ==
    ASSUME NEW f, Chronicle(f), NEW w \in Window, Deliver(w)
    PROVE  Chronicle(f)'
<1>1. Receive(w, log[applied[w] + 1].cmd) /\ ~trapped[w] /\ applied[w] < Len(log)
      /\ UNCHANGED <<clusterVars, page, tasks>>
  BY DEF Deliver
<1>2. /\ page \in [Window -> [state: State, version: Nat]] /\ applied \in [Window -> 0 .. Len(log)]
      /\ \A v \in Window : page[v].state = f[page[v].version] /\ page[v].version <= applied[v]
  BY DEF Chronicle, Types, PagesFollow
<1>3. /\ state' \in [Window -> State] /\ applied' \in [Window -> 0 .. Len(log)]
      /\ trapped' \in [Window -> BOOLEAN] /\ updates' \in [Window -> 0 .. UpdatesCapacity]
      /\ \A v \in Window :
             /\ state'[v] = f[applied'[v]]
             /\ applied[v] <= applied'[v]
             /\ trapped'[v] => /\ applied'[v] < Len(log)
                               /\ Panics(state'[v], log[applied'[v] + 1].cmd)
  BY <1>1, ReceiveFacts DEF Chronicle, Types, History, MachinesFollow, TrappedByNext
<1>4. Len(log) \in Nat
  BY TypedParts DEF Chronicle
<1>5. \A v \in Window : page'[v].state = f[page'[v].version] /\ page'[v].version <= applied'[v]
  BY <1>1, <1>2, <1>3, <1>4
<1> QED BY <1>1, <1>2, <1>3, <1>5, WindowsKeep

LEMMA StateUpdateKeeps ==
    ASSUME NEW f, Chronicle(f), NEW w \in Window, StateUpdate(w)
    PROVE  Chronicle(f)'
<1>1. /\ Len(log) \in Nat /\ applied \in [Window -> 0 .. Len(log)] /\ state \in [Window -> State]
      /\ trapped \in [Window -> BOOLEAN] /\ updates \in [Window -> 0 .. UpdatesCapacity]
      /\ page \in [Window -> [state: State, version: Nat]]
  BY TypedParts DEF Chronicle, Types
<1>2. /\ updates[w] > 0 /\ updates' = [updates EXCEPT ![w] = @ - 1]
      /\ page' = [page EXCEPT ![w] = [state |-> state[w], version |-> applied[w]]]
      /\ UNCHANGED <<clusterVars, tasks>> /\ UNCHANGED <<applied, state, trapped>>
  BY DEF StateUpdate
<1>3. updates' \in [Window -> 0 .. UpdatesCapacity]
  BY <1>1, <1>2 DEF UpdatesCapacity
<1>4. page' \in [Window -> [state: State, version: Nat]]
  BY <1>1, <1>2
<1>5. \A v \in Window : page'[v].state = f[page'[v].version] /\ page'[v].version <= applied'[v]
  BY <1>1, <1>2 DEF Chronicle, Types, PagesFollow, MachinesFollow
<1>6. \A v \in Window :
          /\ state'[v] = f[applied'[v]]
          /\ trapped'[v] => applied'[v] < Len(log) /\ Panics(state'[v], log[applied'[v] + 1].cmd)
  BY <1>2 DEF Chronicle, MachinesFollow, TrappedByNext
<1> QED BY <1>1, <1>2, <1>3, <1>4, <1>5, <1>6, WindowsKeep

LEMMA ChooseKeeps ==
    ASSUME TodoInv, NEW w \in Window, NEW r \in requests, Choose(w, r)
    PROVE  TodoInv'
<1>1. PICK f : Chronicle(f)
  BY DEF TodoInv
<1> DEFINE n == Len(log)
<1>0. PICK g : g = [k \in 0 .. n + 1 |-> IF k <= n THEN f[k] ELSE After(f[n], r.cmd)]
  OBVIOUS
<1>2. /\ r \in Choice /\ log \in Seq(Choice) /\ n \in Nat
      /\ f \in [0 .. n -> State] /\ f[0] = DefaultState
      /\ \A k \in 1 .. n : f[k] = After(f[k - 1], log[k].cmd)
  BY <1>1, TypedParts DEF Chronicle, Types, History
<1>3. /\ log' = Append(log, r) /\ requests' = requests \ {r} /\ UNCHANGED <<page, tasks>>
      /\ ~trapped[w] /\ applied[w] = n /\ Receive(w, r.cmd)
  BY DEF Choose
<1>4. /\ log' \in Seq(Choice) /\ Len(log') = n + 1
      /\ \A k \in 1 .. n : log'[k] = log[k]
      /\ log'[n + 1] = r
  BY <1>2, <1>3, AppendProperties
<1>5. g \in [0 .. n + 1 -> State] /\ g[0] = DefaultState
  <2>1. r.cmd \in Command /\ f[n] \in State
    BY <1>2 DEF Choice
  <2> QED BY <1>0, <1>2, <2>1, AfterType
<1>6. \A k \in 1 .. n + 1 : g[k] = After(g[k - 1], log'[k].cmd)
  <2> SUFFICES ASSUME NEW k \in 1 .. n + 1 PROVE g[k] = After(g[k - 1], log'[k].cmd)
    OBVIOUS
  <2>1. CASE k <= n
    <3>1. k \in 1 .. n /\ g[k] = f[k] /\ g[k - 1] = f[k - 1] /\ log'[k] = log[k]
      BY <1>0, <1>2, <1>4, <2>1
    <3> QED BY <3>1, <1>2
  <2>2. CASE k = n + 1
    <3>1. g[k] = After(f[n], r.cmd) /\ g[k - 1] = f[n] /\ log'[k] = r
      BY <1>0, <1>2, <1>4, <2>2
    <3> QED BY <3>1
  <2> QED BY <2>1, <2>2, <1>2
<1>7. \A k \in 0 .. n : g[k] = f[k]
  BY <1>0, <1>2
<1>8. /\ state \in [Window -> State] /\ applied \in [Window -> 0 .. n]
      /\ trapped \in [Window -> BOOLEAN] /\ updates \in [Window -> 0 .. UpdatesCapacity]
      /\ page \in [Window -> [state: State, version: Nat]]
      /\ \A v \in Window : page[v].version <= applied[v]
  BY <1>1 DEF Chronicle, Types
<1>9. \A v \in Window : page[v].version \in 0 .. n
  BY <1>8, <1>2
<1>10. \A v \in Window :
          /\ state[v] = g[applied[v]] /\ page[v].state = g[page[v].version]
          /\ trapped[v] => applied[v] < n + 1 /\ Panics(state[v], log'[applied[v] + 1].cmd)
  <2> SUFFICES ASSUME NEW v \in Window
               PROVE  /\ state[v] = g[applied[v]] /\ page[v].state = g[page[v].version]
                      /\ trapped[v] => applied[v] < n + 1 /\ Panics(state[v], log'[applied[v] + 1].cmd)
    OBVIOUS
  <2>1. state[v] = f[applied[v]] /\ page[v].state = f[page[v].version]
    BY <1>1 DEF Chronicle, MachinesFollow, PagesFollow
  <2>2. state[v] = g[applied[v]] /\ page[v].state = g[page[v].version]
    BY <2>1, <1>7, <1>8, <1>9
  <2>3. trapped[v] => applied[v] < n /\ Panics(state[v], log[applied[v] + 1].cmd)
    BY <1>1 DEF Chronicle, TrappedByNext
  <2>4. trapped[v] => applied[v] + 1 \in 1 .. n /\ applied[v] < n + 1
    BY <2>3, <1>8, <1>2
  <2> QED BY <2>2, <2>3, <2>4, <1>4
<1>11. /\ state' \in [Window -> State] /\ applied' \in [Window -> 0 .. Len(log')]
       /\ trapped' \in [Window -> BOOLEAN] /\ updates' \in [Window -> 0 .. UpdatesCapacity]
       /\ \A v \in Window :
              /\ state'[v] = g[applied'[v]]
              /\ applied[v] <= applied'[v]
              /\ trapped'[v] => /\ applied'[v] < Len(log')
                                /\ Panics(state'[v], log'[applied'[v] + 1].cmd)
  <2>1. applied \in [Window -> 0 .. n + 1] /\ applied[w] < n + 1 /\ log'[applied[w] + 1] = r
    BY <1>2, <1>3, <1>4, <1>8
  <2>2. g \in [0 .. Len(log') -> State] /\ \A k \in 1 .. Len(log') : g[k] = After(g[k - 1], log'[k].cmd)
    BY <1>4, <1>5, <1>6
  <2>3. applied \in [Window -> 0 .. Len(log')] /\ applied[w] < Len(log') /\ Receive(w, log'[applied[w] + 1].cmd)
    BY <1>3, <1>4, <2>1
  <2>4. \A v \in Window :
            /\ state[v] = g[applied[v]]
            /\ trapped[v] => applied[v] < Len(log') /\ Panics(state[v], log'[applied[v] + 1].cmd)
    BY <1>4, <1>10
  <2> QED BY <1>3, <1>4, <1>8, <2>2, <2>3, <2>4, ReceiveFacts
<1>12. Types'
  <2>1. requests' \subseteq Choice /\ tasks' \in Seq(Task) /\ page' \in [Window -> [state: State, version: Nat]]
    BY <1>1, <1>3 DEF Chronicle, Types
  <2>2. \A v \in Window : page'[v].version <= applied'[v]
    BY <1>2, <1>3, <1>4, <1>8, <1>9, <1>11
  <2> QED BY <1>4, <1>11, <2>1, <2>2 DEF Types
<1>13. TrappedByNext'
  BY <1>11 DEF TrappedByNext
<1>14. AckedWereChosen'
  <2> SUFFICES ASSUME NEW t \in DOMAIN tasks, tasks[t].stage = "done"
               PROVE  \E k \in 1 .. Len(log') : log'[k] = Request(t, tasks[t])
    BY <1>3 DEF AckedWereChosen, Request
  <2>1. PICK k \in 1 .. n : log[k] = Request(t, tasks[t])
    BY <1>1 DEF Chronicle, AckedWereChosen
  <2> QED BY <2>1, <1>2, <1>4
<1>15. History(g)'
  BY <1>4, <1>5, <1>6 DEF History
<1>16. MachinesFollow(g)' /\ PagesFollow(g)'
  BY <1>3, <1>10, <1>11 DEF MachinesFollow, PagesFollow
<1>17. AllOffered(g)'
  <2>1. \A x : x.seen \in Nat /\ OfferedAt(f, x) => x.seen <= n + 1 /\ x.cmd \in Offered(g[x.seen])
    BY <1>2, <1>7 DEF OfferedAt
  <2>2. /\ \A x \in requests : x.seen \in Nat /\ OfferedAt(f, x)
        /\ \A k \in 1 .. n : log[k].seen \in Nat /\ OfferedAt(f, log[k])
        /\ \A t \in DOMAIN tasks : tasks[t].seen \in Nat /\ OfferedAt(f, tasks[t])
    BY <1>1, TypedParts DEF Chronicle, AllOffered, Types, Choice, Task
  <2>3. \A x \in requests' : x.seen <= n + 1 /\ x.cmd \in Offered(g[x.seen])
    BY <1>3, <2>1, <2>2
  <2>4. \A t \in DOMAIN tasks' : tasks'[t].seen <= n + 1 /\ tasks'[t].cmd \in Offered(g[tasks'[t].seen])
    BY <1>3, <2>1, <2>2
  <2>5. \A k \in 1 .. n + 1 : log'[k].seen <= n + 1 /\ log'[k].cmd \in Offered(g[log'[k].seen])
    <3> SUFFICES ASSUME NEW k \in 1 .. n + 1
                 PROVE  log'[k].seen <= n + 1 /\ log'[k].cmd \in Offered(g[log'[k].seen])
      OBVIOUS
    <3>1. CASE k \in 1 .. n
      BY <3>1, <1>4, <2>1, <2>2
    <3>2. CASE k = n + 1
      BY <3>2, <1>4, <2>1, <2>2
    <3> QED BY <3>1, <3>2, <1>2
  <2> QED BY <1>4, <2>3, <2>4, <2>5 DEF AllOffered, OfferedAt
<1>18. Chronicle(g)'
  BY <1>12, <1>13, <1>14, <1>15, <1>16, <1>17 DEF Chronicle
<1> QED BY <1>18 DEF TodoInv

LEMMA IssueKeeps ==
    ASSUME NEW f, Chronicle(f), NEW w \in Window, Issue(w)
    PROVE  Chronicle(f)'
<1>1. PICK cmd \in Offered(page[w].state) :
          LET tk == [window |-> w, cmd |-> cmd, seen |-> page[w].version, attempt |-> 1, stage |-> "waiting"]
          IN /\ tasks' = Append(tasks, tk)
             /\ requests' = requests \cup {Request(Len(tasks'), tk)}
  BY DEF Issue
<1> DEFINE tk == [window |-> w, cmd |-> cmd, seen |-> page[w].version, attempt |-> 1, stage |-> "waiting"]
           r == Request(Len(tasks'), tk)
<1>2. tasks' = Append(tasks, tk) /\ requests' = requests \cup {r} /\ UNCHANGED <<log, machineVars, page>>
  BY <1>1 DEF Issue
<1>3. /\ page[w].state \in State /\ page[w].version \in Nat /\ page[w].version <= Len(log)
      /\ page[w].state = f[page[w].version]
  <2>1. page[w] \in [state: State, version: Nat] /\ page[w].version <= applied[w] /\ applied[w] \in 0 .. Len(log)
    BY DEF Chronicle, Types
  <2>2. Len(log) \in Nat
    BY TypedParts DEF Chronicle
  <2> QED BY <2>1, <2>2 DEF Chronicle, PagesFollow
<1>4. cmd \in Command
  BY <1>3 DEF Command
<1>5. tk \in Task /\ OfferedAt(f, tk)
  BY <1>3, <1>4 DEF Task, OfferedAt
<1>6. /\ tasks' \in Seq(Task) /\ Len(tasks') = Len(tasks) + 1 /\ DOMAIN tasks' = 1 .. Len(tasks) + 1
      /\ \A t \in DOMAIN tasks : tasks'[t] = tasks[t]
      /\ tasks'[Len(tasks) + 1] = tk
  <2> HIDE DEF tk
  <2>1. tasks \in Seq(Task) /\ DOMAIN tasks = 1 .. Len(tasks)
    BY TypedParts DEF Chronicle, Types
  <2>2. Append(tasks, tk) \in Seq(Task) /\ Len(Append(tasks, tk)) = Len(tasks) + 1
    BY <1>5, <2>1, AppendProperties
  <2>3. DOMAIN Append(tasks, tk) = 1 .. Len(tasks) + 1
    BY <2>2, LenProperties
  <2> QED BY <1>2, <1>5, <2>1, <2>2, <2>3, AppendProperties
<1>7. r \in Choice /\ OfferedAt(f, r)
  <2>1. Len(tasks') \in Nat
    BY <1>6, TypedParts DEF Chronicle
  <2> QED BY <1>3, <1>4, <2>1 DEF Request, Choice, OfferedAt
<1>8. requests' \subseteq Choice /\ \A x \in requests' : OfferedAt(f, x)
  <2> HIDE DEF r
  <2> QED BY <1>2, <1>7 DEF Chronicle, Types, AllOffered
<1>9. \A t \in DOMAIN tasks' : t \in DOMAIN tasks \/ t = Len(tasks) + 1
  BY <1>6, TypedParts DEF Chronicle
<1>10. \A t \in DOMAIN tasks' :
          /\ OfferedAt(f, tasks'[t])
          /\ tasks'[t].stage = "done" => \E k \in 1 .. Len(log) : log[k] = Request(t, tasks'[t])
  <2> SUFFICES ASSUME NEW t \in DOMAIN tasks'
               PROVE  /\ OfferedAt(f, tasks'[t])
                      /\ tasks'[t].stage = "done" => \E k \in 1 .. Len(log) : log[k] = Request(t, tasks'[t])
    OBVIOUS
  <2>1. CASE t \in DOMAIN tasks
    BY <2>1, <1>6 DEF Chronicle, AllOffered, AckedWereChosen
  <2>2. CASE t = Len(tasks) + 1
    <3>1. tasks'[t] = tk /\ tk.stage # "done"
      BY <2>2, <1>6
    <3> QED BY <3>1, <1>5
  <2> QED BY <2>1, <2>2, <1>9
<1> QED BY <1>2, <1>6, <1>8, <1>10, TasksKeep

\* A task that ends, fails or starts again stays the task of its command.
LEMMA RestageFacts ==
    ASSUME NEW f, Chronicle(f), NEW t \in DOMAIN tasks, NEW tk \in Task,
           tk.cmd = tasks[t].cmd, tk.seen = tasks[t].seen,
           tk.stage = "done" => \E k \in 1 .. Len(log) : log[k] = Request(t, tk),
           tasks' = [tasks EXCEPT ![t] = tk]
    PROVE  /\ tasks' \in Seq(Task) /\ tasks'[t] = tk
           /\ \A u \in DOMAIN tasks' :
                  /\ OfferedAt(f, tasks'[u])
                  /\ tasks'[u].stage = "done" => \E k \in 1 .. Len(log) : log[k] = Request(u, tasks'[u])
<1>1. tasks \in Seq(Task) /\ DOMAIN tasks = 1 .. Len(tasks)
  BY TypedParts DEF Chronicle, Types
<1>2. tasks' \in Seq(Task) /\ DOMAIN tasks' = DOMAIN tasks
  BY <1>1, ExceptSeq
<1>3. \A u \in DOMAIN tasks : tasks'[u] = IF u = t THEN tk ELSE tasks[u]
  BY <1>1
<1>4. OfferedAt(f, tk)
  BY DEF Chronicle, AllOffered, OfferedAt
<1> QED BY <1>2, <1>3, <1>4 DEF Chronicle, AllOffered, AckedWereChosen

LEMMA SucceedKeeps ==
    ASSUME NEW f, Chronicle(f), NEW t \in DOMAIN tasks, Succeed(t)
    PROVE  Chronicle(f)'
<1> DEFINE tk == [tasks[t] EXCEPT !.stage = "done"]
<1>1. tasks[t] \in Task
  BY TypedParts DEF Chronicle
<1>2. tk \in Task /\ tk.cmd = tasks[t].cmd /\ tk.seen = tasks[t].seen /\ Request(t, tk) = Request(t, tasks[t])
  BY <1>1 DEF Task, Request
<1>3. tasks' = [tasks EXCEPT ![t] = tk] /\ UNCHANGED <<clusterVars, machineVars, page>>
  BY DEF Succeed
<1>4. \E k \in 1 .. Len(log) : log[k] = Request(t, tk)
  BY <1>2, TypedParts DEF Succeed, Current, Chronicle
<1> HIDE DEF tk
<1>5. /\ tasks' \in Seq(Task)
      /\ \A u \in DOMAIN tasks' :
             /\ OfferedAt(f, tasks'[u])
             /\ tasks'[u].stage = "done" => \E k \in 1 .. Len(log) : log[k] = Request(u, tasks'[u])
  BY <1>2, <1>3, <1>4, RestageFacts
<1>6. requests' = requests /\ UNCHANGED <<log, machineVars, page>>
  BY <1>3 DEF clusterVars
<1>7. requests' \subseteq Choice /\ \A r \in requests' : OfferedAt(f, r)
  BY <1>6 DEF Chronicle, Types, AllOffered
<1> QED BY <1>5, <1>6, <1>7, TasksKeep

LEMMA FailKeeps ==
    ASSUME NEW f, Chronicle(f), NEW t \in DOMAIN tasks, Fail(t)
    PROVE  Chronicle(f)'
<1> DEFINE tk == [tasks[t] EXCEPT !.stage = "sleeping"]
<1>1. tasks[t] \in Task
  BY TypedParts DEF Chronicle
<1>2. tk \in Task /\ tk.cmd = tasks[t].cmd /\ tk.seen = tasks[t].seen /\ tk.stage # "done"
  BY <1>1 DEF Task
<1>3. tasks' = [tasks EXCEPT ![t] = tk] /\ requests' \subseteq requests /\ UNCHANGED <<log, machineVars, page>>
  BY DEF Fail
<1> HIDE DEF tk
<1>4. /\ tasks' \in Seq(Task)
      /\ \A u \in DOMAIN tasks' :
             /\ OfferedAt(f, tasks'[u])
             /\ tasks'[u].stage = "done" => \E k \in 1 .. Len(log) : log[k] = Request(u, tasks'[u])
  BY <1>2, <1>3, RestageFacts
<1>5. requests' \subseteq Choice /\ \A r \in requests' : OfferedAt(f, r)
  BY <1>3 DEF Chronicle, Types, AllOffered
<1> QED BY <1>3, <1>4, <1>5, TasksKeep

\* Another attempt is one at the same command.
LEMMA AttemptFacts ==
    ASSUME NEW old \in Task
    PROVE  LET tk == [old EXCEPT !.stage = "waiting", !.attempt = @ + 1]
           IN  tk \in Task /\ tk.cmd = old.cmd /\ tk.seen = old.seen /\ tk.stage # "done"
<1> DEFINE restaged == [old EXCEPT !.stage = "waiting"]
           tk == [restaged EXCEPT !.attempt = old.attempt + 1]
<1>1. restaged \in Task /\ restaged.cmd = old.cmd /\ restaged.seen = old.seen
      /\ restaged.stage = "waiting" /\ restaged.attempt = old.attempt
  BY DEF Task
<1>2. old.attempt + 1 \in Nat
  BY DEF Task
<1>3. tk = [old EXCEPT !.stage = "waiting", !.attempt = @ + 1]
  OBVIOUS
<1> HIDE DEF restaged
<1>4. tk \in Task /\ tk.cmd = old.cmd /\ tk.seen = old.seen /\ tk.stage # "done"
  BY <1>1, <1>2 DEF Task
<1> QED BY <1>3, <1>4

LEMMA RetryKeeps ==
    ASSUME NEW f, Chronicle(f), NEW t \in DOMAIN tasks, Retry(t)
    PROVE  Chronicle(f)'
<1> DEFINE tk == [tasks[t] EXCEPT !.stage = "waiting", !.attempt = @ + 1]
<1>1. tasks[t] \in Task /\ t \in Nat
  BY TypedParts DEF Chronicle
<1>2. tk \in Task /\ tk.cmd = tasks[t].cmd /\ tk.seen = tasks[t].seen /\ tk.stage # "done"
  BY <1>1, AttemptFacts
<1>3. tasks' = [tasks EXCEPT ![t] = tk] /\ requests' = requests \cup {Request(t, tasks'[t])}
      /\ UNCHANGED <<log, machineVars, page>>
  BY DEF Retry
<1> HIDE DEF tk
<1>4. /\ tasks' \in Seq(Task) /\ tasks'[t] = tk
      /\ \A u \in DOMAIN tasks' :
             /\ OfferedAt(f, tasks'[u])
             /\ tasks'[u].stage = "done" => \E k \in 1 .. Len(log) : log[k] = Request(u, tasks'[u])
  BY <1>2, <1>3, RestageFacts
<1>5. OfferedAt(f, tk)
  BY <1>2 DEF Chronicle, AllOffered, OfferedAt
<1>6. Request(t, tk) \in Choice /\ OfferedAt(f, Request(t, tk))
  BY <1>1, <1>2, <1>5 DEF Request, Choice, Task, OfferedAt
<1>7. requests' \subseteq Choice /\ \A r \in requests' : OfferedAt(f, r)
  BY <1>3, <1>4, <1>6 DEF Chronicle, Types, AllOffered
<1> QED BY <1>3, <1>4, <1>7, TasksKeep

\* A window that opens again starts where the history starts.
LEMMA ReopenKeeps ==
    ASSUME NEW f, Chronicle(f), NEW w \in Window, Reopen(w)
    PROVE  Chronicle(f)'
<1>1. /\ applied' = [applied EXCEPT ![w] = 0] /\ state' = [state EXCEPT ![w] = DefaultState]
      /\ trapped' = [trapped EXCEPT ![w] = FALSE] /\ updates' = [updates EXCEPT ![w] = 0]
      /\ page' = [page EXCEPT ![w] = FirstPage]
      /\ log' = log /\ requests' = requests
  BY DEF Reopen, clusterVars
<1>2. tasks' = [t \in DOMAIN tasks |-> IF tasks[t].window = w /\ tasks[t].stage # "done"
                                         THEN [tasks[t] EXCEPT !.stage = "gone"] ELSE tasks[t]]
  BY DEF Reopen, EndTasks
<1>3. /\ log \in Seq(Choice) /\ Len(log) \in Nat /\ applied \in [Window -> 0 .. Len(log)]
      /\ state \in [Window -> State] /\ trapped \in [Window -> BOOLEAN]
      /\ updates \in [Window -> 0 .. UpdatesCapacity]
      /\ page \in [Window -> [state: State, version: Nat]]
      /\ \A v \in Window : page[v].version <= applied[v]
      /\ Len(tasks) \in Nat /\ DOMAIN tasks = 1 .. Len(tasks) /\ \A t \in DOMAIN tasks : tasks[t] \in Task
      /\ requests \subseteq Choice
  BY TypedParts DEF Chronicle, Types
<1>4. f[0] = DefaultState /\ DefaultState \in State
  <2>1. f \in [0 .. Len(log) -> State] /\ f[0] = DefaultState /\ 0 \in 0 .. Len(log)
    BY <1>3 DEF Chronicle, History
  <2> QED BY <2>1
<1>5. tasks' \in [1 .. Len(tasks) -> Task]
  BY <1>2, <1>3 DEF Task
<1>6. tasks' \in Seq(Task) /\ DOMAIN tasks' = DOMAIN tasks
  BY <1>2, <1>3, <1>5, FcnIsSeq
<1>7. \A t \in DOMAIN tasks :
          /\ tasks'[t].cmd = tasks[t].cmd /\ tasks'[t].seen = tasks[t].seen
          /\ tasks'[t].stage = "done" => tasks[t].stage = "done" /\ tasks'[t] = tasks[t]
  BY <1>2, <1>3 DEF Task
<1>8. Types'
  <2>1. applied' \in [Window -> 0 .. Len(log)] /\ state' \in [Window -> State] /\ trapped' \in [Window -> BOOLEAN]
    BY <1>1, <1>3, <1>4
  <2>2. updates' \in [Window -> 0 .. UpdatesCapacity] /\ page' \in [Window -> [state: State, version: Nat]]
    BY <1>1, <1>3, <1>4 DEF UpdatesCapacity, FirstPage
  <2>3. \A v \in Window : page'[v].version <= applied'[v]
    BY <1>1, <1>3 DEF FirstPage
  <2> QED BY <1>1, <1>3, <1>6, <2>1, <2>2, <2>3 DEF Types
<1>9. TrappedByNext'
  BY <1>1, <1>3 DEF Chronicle, TrappedByNext
<1>10. AckedWereChosen'
  BY <1>1, <1>6, <1>7 DEF Chronicle, AckedWereChosen, Request
<1>11. History(f)'
  BY <1>1 DEF Chronicle, History
<1>12. MachinesFollow(f)' /\ PagesFollow(f)'
  BY <1>1, <1>3, <1>4 DEF Chronicle, MachinesFollow, PagesFollow, FirstPage
<1>13. AllOffered(f)'
  BY <1>1, <1>6, <1>7 DEF Chronicle, AllOffered, OfferedAt
<1> QED BY <1>8, <1>9, <1>10, <1>11, <1>12, <1>13 DEF Chronicle

LEMMA TodoNext == TodoInv /\ [Next]_vars => TodoInv'
<1> SUFFICES ASSUME TodoInv, [Next]_vars PROVE TodoInv'
  OBVIOUS
<1>1. PICK f : Chronicle(f)
  BY DEF TodoInv
<1>2. ASSUME NEW w \in Window, Deliver(w) \/ StateUpdate(w) \/ Issue(w) \/ Reopen(w)
      PROVE  Chronicle(f)'
  BY <1>1, <1>2, DeliverKeeps, StateUpdateKeeps, IssueKeeps, ReopenKeeps
<1>3. ASSUME NEW w \in Window, NEW r \in requests, Choose(w, r)
      PROVE  TodoInv'
  BY <1>3, ChooseKeeps
<1>4. ASSUME NEW t \in DOMAIN tasks, Succeed(t) \/ Retry(t) \/ Fail(t)
      PROVE  Chronicle(f)'
  BY <1>1, <1>4, SucceedKeeps, RetryKeeps, FailKeeps
<1>5. CASE UNCHANGED vars
  <2>1. UNCHANGED <<log, requests, applied, state, trapped, updates, page, tasks>>
    BY <1>5 DEF vars, clusterVars, machineVars
  <2>2. Types' /\ TrappedByNext' /\ AckedWereChosen'
    BY <1>1, <2>1 DEF Chronicle, Types, TrappedByNext, AckedWereChosen, Request
  <2>3. History(f)' /\ MachinesFollow(f)' /\ PagesFollow(f)' /\ AllOffered(f)'
    BY <1>1, <2>1 DEF Chronicle, History, MachinesFollow, PagesFollow, AllOffered, OfferedAt
  <2>4. Chronicle(f)'
    BY <2>2, <2>3 DEF Chronicle
  <2> QED BY <2>4 DEF TodoInv
<1>6. CASE Next
  <2>1. Chronicle(f)' => TodoInv'
    BY DEF TodoInv
  <2> QED BY <1>2, <1>3, <1>4, <1>6, <2>1 DEF Next, WindowStep, TaskStep
<1> QED BY <1>5, <1>6

\* TodoInv holds throughout: all windows live on one history of states, which
\* the log spells out.
THEOREM TodoInvariant == Spec => []TodoInv
BY TodoInit, TodoNext, PTL DEF Spec

-----------------------------------------------------------------------------
(* The theorems *)

\* Every variable has its type: no command that is applied leaves an entry
\* without a description or a state that is none (State::apply).
THEOREM TodoTypesHold == Spec => []TypeOK
<1>1. TodoInv => TypeOK
  <2> SUFFICES ASSUME TodoInv PROVE TypeOK
    OBVIOUS
  <2>1. Types /\ Len(log) \in Nat
    BY TypedParts DEF TodoInv, Chronicle
  <2>2. \A w \in Window : page[w].state \in State /\ page[w].version \in 0 .. applied[w]
    BY <2>1 DEF Types
  <2> QED BY <2>1, <2>2 DEF Types, TypeOK
<1> QED BY <1>1, TodoInvariant, PTL

\* Windows that have applied as many commands have the same state, whatever was
\* retried, dropped or started anew (handle_state_machine, State::apply).
THEOREM SameStates == Spec => []SameCommandsSameState
<1>1. TodoInv => SameCommandsSameState
  BY DEF TodoInv, Chronicle, MachinesFollow, PagesFollow, SameCommandsSameState
<1> QED BY <1>1, TodoInvariant, PTL

\* The unwraps of State::apply panic only on commands of an older page.
THEOREM OnlyStaleCommandsPanic == Spec => []PanicsOnlyIfStale
<1>1. TodoInv => PanicsOnlyIfStale
  <2> SUFFICES ASSUME TodoInv, NEW w \in Window, trapped[w], log[applied[w] + 1].seen = applied[w]
               PROVE  FALSE
    BY DEF PanicsOnlyIfStale
  <2>1. PICK f : Chronicle(f)
    BY DEF TodoInv
  <2> DEFINE r == log[applied[w] + 1]
  <2>2. applied[w] < Len(log) /\ Panics(state[w], r.cmd) /\ applied[w] \in 0 .. Len(log) /\ Len(log) \in Nat
        /\ state[w] \in State /\ state[w] = f[applied[w]]
    BY <2>1, TypedParts DEF Chronicle, Types, TrappedByNext, MachinesFollow
  <2>3. OfferedAt(f, r)
    BY <2>1, <2>2 DEF Chronicle, AllOffered
  <2>4. r.cmd \in Offered(state[w])
    BY <2>2, <2>3 DEF OfferedAt
  <2> HIDE DEF r
  <2> QED BY <2>2, <2>4, OfferedNeverPanics
<1> QED BY <1>1, TodoInvariant, PTL

-----------------------------------------------------------------------------
(* The refinement: what the page and the client use of the cluster *)

Received == [w \in Window |-> applied[w] + (IF trapped[w] THEN 1 ELSE 0)]
abstractVars == <<log, applied, trapped, Acked>>

\* The requests of the tasks that ended, by their tasks.
LEMMA AckedIs == Acked = {Request(t, tasks[t]) : t \in {u \in DOMAIN tasks : tasks[u].stage = "done"}}
BY DEF Acked, Current

\* Only chosen requests are acknowledged.
LEMMA AckedInLog == TodoInv => Acked \subseteq Cluster!Range(log)
<1> SUFFICES ASSUME TodoInv PROVE Acked \subseteq Cluster!Range(log)
  OBVIOUS
<1>1. AckedWereChosen /\ DOMAIN log = 1 .. Len(log)
  BY TypedParts DEF TodoInv, Chronicle
<1> QED BY <1>1, AckedIs DEF AckedWereChosen, Cluster!Range

LEMMA AckedInNextLog == TodoInv' => (Acked \subseteq Cluster!Range(log))'
BY AckedInLog, PTL

\* A step that delivers a command to one window, or tells callers of commands
\* chosen, is an Advance.
LEMMA AdvanceBy ==
    ASSUME NEW w \in Window, Types, Types', NEW new \in Seq(Choice),
           log' = log \o new,
           Received'[w] \in Received[w] .. Len(log'),
           new # <<>> => Received'[w] = Len(log'),
           \A v \in Window \ {w} : Received'[v] = Received[v],
           Acked \subseteq Acked', Acked' \subseteq Cluster!Range(log')
    PROVE  Cluster!Next
<1>1. log \in Seq(Choice) /\ Len(log) \in Nat /\ Len(log') = Len(log) + Len(new)
  BY ConcatProperties, LenProperties DEF Types
<1>2. SubSeq(log', Len(log) + 1, Len(log')) = new
  <2>1. CASE new = <<>>
    BY <1>1, <2>1, SubSeqEmpty, EmptySeq
  <2>2. CASE new # <<>>
    <3>1. Len(new) \in Nat /\ Len(new) > 0
      BY <2>2, EmptySeq
    <3>2. SubSeq(log', Len(log) + 1, Len(log')) = SubSeq(new, 1, Len(new))
      BY <1>1, <3>1, SubSeqOfConcat2
    <3> QED BY <3>2, SubSeqFull
  <2> QED BY <2>1, <2>2
<1>3. Received' = [Received EXCEPT ![w] = Received'[w]]
  BY DEF Received
<1>4. Cluster!Advance(w)
  BY <1>2, <1>3 DEF Cluster!Advance, Received
<1> QED BY <1>4 DEF Cluster!Next

LEMMA ReceiveAdvances ==
    ASSUME Types, NEW w \in Window, ~trapped[w], NEW cmd, Receive(w, cmd)
    PROVE  /\ Received'[w] = Received[w] + 1
           /\ Received[w] = applied[w]
           /\ \A v \in Window \ {w} : Received'[v] = Received[v]
<1>1. applied[w] \in Nat /\ applied \in [Window -> 0 .. Len(log)] /\ trapped \in [Window -> BOOLEAN]
  BY TypedParts DEF Types
<1>2. CASE Panics(state[w], cmd)
  BY <1>1, <1>2 DEF Receive, Received
<1>3. CASE ~Panics(state[w], cmd)
  BY <1>1, <1>3 DEF Receive, Received
<1> QED BY <1>2, <1>3

LEMMA DeliverRefines ==
    ASSUME TodoInv, TodoInv', NEW w \in Window, Deliver(w)
    PROVE  Cluster!Next
<1>1. Types /\ Types' /\ Len(log) \in Nat /\ log \in Seq(Choice)
  BY TypedParts DEF TodoInv, Chronicle, Types
<1>2. /\ Receive(w, log[applied[w] + 1].cmd) /\ ~trapped[w] /\ applied[w] < Len(log)
      /\ log' = log /\ tasks' = tasks
  BY DEF Deliver, clusterVars
<1>3. Received'[w] = Received[w] + 1 /\ Received[w] = applied[w] /\ \A v \in Window \ {w} : Received'[v] = Received[v]
  BY <1>1, <1>2, ReceiveAdvances
<1>4. Received'[w] \in Received[w] .. Len(log')
  <2>1. applied[w] \in 0 .. Len(log)
    BY <1>1 DEF Types
  <2> QED BY <1>1, <1>2, <1>3, <2>1
<1>5. log' = log \o <<>> /\ <<>> \in Seq(Choice)
  BY <1>1, <1>2, ConcatEmptySeq, EmptySeq
<1>6. Acked' = Acked /\ Acked' \subseteq Cluster!Range(log')
  BY <1>2, AckedInLog, AckedInNextLog DEF Acked, Current, Request, Cluster!Range
<1> QED BY <1>1, <1>3, <1>4, <1>5, <1>6, AdvanceBy

LEMMA ChooseRefines ==
    ASSUME TodoInv, TodoInv', NEW w \in Window, NEW r \in requests, Choose(w, r)
    PROVE  Cluster!Next
<1>1. Types /\ Types' /\ Len(log) \in Nat /\ log \in Seq(Choice) /\ r \in Choice
  BY TypedParts DEF TodoInv, Chronicle, Types
<1>2. /\ Receive(w, r.cmd) /\ ~trapped[w] /\ applied[w] = Len(log)
      /\ log' = Append(log, r) /\ tasks' = tasks
  BY DEF Choose
<1>3. Received'[w] = Received[w] + 1 /\ Received[w] = applied[w] /\ \A v \in Window \ {w} : Received'[v] = Received[v]
  BY <1>1, <1>2, ReceiveAdvances
<1>4. log' = log \o <<r>> /\ <<r>> \in Seq(Choice) /\ Len(log') = Len(log) + 1
  BY <1>1, <1>2, AppendIsConcat, AppendProperties
<1>5. Received'[w] \in Received[w] .. Len(log') /\ Received'[w] = Len(log')
  BY <1>1, <1>2, <1>3, <1>4
<1>6. Acked' = Acked
  BY <1>2 DEF Acked, Current, Request
<1>7. Acked' \subseteq Cluster!Range(log')
  BY AckedInNextLog DEF Cluster!Range
<1> QED BY <1>1, <1>3, <1>4, <1>5, <1>6, <1>7, AdvanceBy

LEMMA SucceedRefines ==
    ASSUME TodoInv, TodoInv', NEW t \in DOMAIN tasks, Succeed(t)
    PROVE  Cluster!Next
<1>1. Types /\ Types' /\ Len(log) \in Nat /\ log \in Seq(Choice) /\ tasks[t] \in Task
  BY TypedParts DEF TodoInv, Chronicle, Types
<1>2. /\ tasks' = [tasks EXCEPT ![t].stage = "done"] /\ tasks[t].stage = "waiting"
      /\ log' = log /\ applied' = applied /\ trapped' = trapped
  BY DEF Succeed, Waiting, clusterVars, machineVars
<1>3. tasks[t].window \in Window
  BY <1>1 DEF Task
<1>4. \A v \in Window : Received'[v] = Received[v] /\ Received[v] \in Received[v] .. Len(log)
  <2>1. \A v \in Window : applied[v] \in 0 .. Len(log) /\ (trapped[v] => applied[v] < Len(log))
    BY DEF TodoInv, Chronicle, Types, TrappedByNext
  <2> QED BY <1>1, <1>2, <2>1 DEF Received
<1>5. log' = log \o <<>> /\ <<>> \in Seq(Choice)
  BY <1>1, <1>2, ConcatEmptySeq, EmptySeq
<1>6. Acked \subseteq Acked'
  BY <1>1, <1>2 DEF Acked, Current, Request, Task
<1>8. Acked' \subseteq Cluster!Range(log')
  BY AckedInNextLog DEF Cluster!Range
<1> DEFINE w == tasks[t].window
<1> HIDE DEF w
<1>9. w \in Window /\ Received'[w] \in Received[w] .. Len(log') /\ \A v \in Window \ {w} : Received'[v] = Received[v]
  BY <1>2, <1>3, <1>4 DEF w
<1> QED BY <1>1, <1>5, <1>6, <1>8, <1>9, AdvanceBy

\* A window that opens again is closed to the cluster, whose callers keep what
\* they were told.
LEMMA ReopenRefines ==
    ASSUME TodoInv, NEW w \in Window, Reopen(w)
    PROVE  Cluster!Next
<1>1. /\ applied \in [Window -> 0 .. Len(log)] /\ trapped \in [Window -> BOOLEAN]
      /\ DOMAIN tasks = 1 .. Len(tasks) /\ \A t \in DOMAIN tasks : tasks[t] \in Task
  BY TypedParts DEF TodoInv, Chronicle, Types
<1>2. /\ applied' = [applied EXCEPT ![w] = 0] /\ trapped' = [trapped EXCEPT ![w] = FALSE] /\ log' = log
      /\ tasks' = [t \in DOMAIN tasks |-> IF tasks[t].window = w /\ tasks[t].stage # "done"
                                            THEN [tasks[t] EXCEPT !.stage = "gone"] ELSE tasks[t]]
  BY DEF Reopen, EndTasks, clusterVars
<1>3. Received' = [Received EXCEPT ![w] = 0]
  <2>1. applied'[w] + (IF trapped'[w] THEN 1 ELSE 0) = 0
    BY <1>1, <1>2
  <2>2. \A v \in Window \ {w} : applied'[v] = applied[v] /\ trapped'[v] = trapped[v]
    BY <1>1, <1>2
  <2> QED BY <2>1, <2>2, Zenon DEF Received
<1>4. \A t \in DOMAIN tasks :
          /\ tasks'[t].stage = "done" <=> tasks[t].stage = "done"
          /\ tasks[t].stage = "done" => tasks'[t] = tasks[t]
  BY <1>1, <1>2 DEF Task
<1>5. Acked' = Acked
  BY <1>2, <1>4 DEF Acked, Current, Request
<1>6. Cluster!Close(w)
  BY <1>2, <1>3, <1>5 DEF Cluster!Close, Received
<1> QED BY <1>6 DEF Cluster!Next

\* A callback that sends, fails or sends again tells nobody anything.
LEMMA AttemptsStutter ==
    ASSUME TodoInv, NEW t \in DOMAIN tasks, Fail(t) \/ Retry(t)
    PROVE  UNCHANGED abstractVars
<1>1. DOMAIN tasks = 1 .. Len(tasks) /\ tasks \in [DOMAIN tasks -> Task] /\ tasks[t] \in Task
  BY TypedParts, LenProperties DEF TodoInv, Chronicle, Types
<1>2. log' = log /\ applied' = applied /\ trapped' = trapped /\ tasks[t].stage # "done"
  BY DEF Fail, Retry, machineVars, Waiting
<1>3. /\ DOMAIN tasks' = DOMAIN tasks /\ tasks'[t].stage # "done"
      /\ \A u \in DOMAIN tasks : u # t => tasks'[u] = tasks[u]
  BY <1>1 DEF Fail, Retry, Task
<1>4. Acked' = Acked
  BY <1>2, <1>3 DEF Acked, Current, Request
<1> QED BY <1>2, <1>4 DEF abstractVars

LEMMA IssueStutters ==
    ASSUME TodoInv, NEW w \in Window, Issue(w)
    PROVE  UNCHANGED abstractVars
<1>1. tasks \in Seq(Task) /\ Len(tasks) \in Nat /\ DOMAIN tasks = 1 .. Len(tasks)
      /\ page[w].state \in State /\ page[w].version \in Nat
  BY TypedParts DEF TodoInv, Chronicle, Types
<1>2. PICK cmd \in Offered(page[w].state) :
          tasks' = Append(tasks, [window |-> w, cmd |-> cmd, seen |-> page[w].version, attempt |-> 1,
                                  stage |-> "waiting"])
  BY DEF Issue
<1> DEFINE tk == [window |-> w, cmd |-> cmd, seen |-> page[w].version, attempt |-> 1, stage |-> "waiting"]
<1>3. tk \in Task /\ tk.stage # "done"
  BY <1>1 DEF Task, Command
<1> HIDE DEF tk
<1>4. tasks' = Append(tasks, tk)
  BY <1>2 DEF tk
<1>5. /\ tasks' \in Seq(Task) /\ Len(tasks') = Len(tasks) + 1
      /\ \A t \in DOMAIN tasks : tasks'[t] = tasks[t]
      /\ tasks'[Len(tasks) + 1] = tk
  BY <1>1, <1>3, <1>4, AppendProperties
<1>6. DOMAIN tasks' = 1 .. Len(tasks) + 1
  BY <1>5, LenProperties
<1>7. Acked' = Acked
  BY <1>1, <1>3, <1>5, <1>6 DEF Acked, Current, Request
<1> QED BY <1>7 DEF Issue, machineVars, abstractVars

LEMMA TodoStepRefines == TodoInv /\ TodoInv' /\ [Next]_vars => [Cluster!Next]_abstractVars
<1> SUFFICES ASSUME TodoInv, TodoInv', [Next]_vars PROVE [Cluster!Next]_abstractVars
  OBVIOUS
<1>1. ASSUME NEW w \in Window, Deliver(w) \/ StateUpdate(w) \/ Issue(w) \/ Reopen(w)
      PROVE  [Cluster!Next]_abstractVars
  <2>1. CASE StateUpdate(w)
    <3>1. log' = log /\ applied' = applied /\ trapped' = trapped /\ tasks' = tasks
      BY <2>1 DEF StateUpdate, clusterVars
    <3> QED BY <3>1 DEF abstractVars, Acked, Current, Request
  <2> QED BY <1>1, <2>1, DeliverRefines, IssueStutters, ReopenRefines
<1>2. ASSUME NEW w \in Window, NEW r \in requests, Choose(w, r)
      PROVE  Cluster!Next
  BY <1>2, ChooseRefines
<1>3. ASSUME NEW t \in DOMAIN tasks, Succeed(t) \/ Retry(t) \/ Fail(t)
      PROVE  [Cluster!Next]_abstractVars
  BY <1>3, SucceedRefines, AttemptsStutter
<1>4. CASE UNCHANGED vars
  BY <1>4 DEF vars, clusterVars, machineVars, abstractVars, Acked, Current, Request
<1>5. CASE Next
  BY <1>1, <1>2, <1>3, <1>5 DEF Next, WindowStep, TaskStep
<1> QED BY <1>4, <1>5

\* To the windows' state machines and callers the cluster is one growing log, of
\* which each receives a prefix, and of which Ack speaks (handle_state_machine,
\* do_client_request).
THEOREM TodoUsesReplicatedLog == Spec => UsesReplicatedLog
<1>1. TodoInv /\ TodoInv' /\ [Next]_vars => [Cluster!Next]_<<log, applied, trapped, Acked>>
  BY TodoStepRefines DEF abstractVars
<1> QED BY <1>1, TodoInvariant, PTL DEF Spec, UsesReplicatedLog

=============================================================================
