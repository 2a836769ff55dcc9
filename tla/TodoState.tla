----------------------------- MODULE TodoState -----------------------------
(***************************************************************************)
(* wraft/src/todo_state.rs: the state that every window's state machine     *)
(* keeps, and what each command does to it.  A command names an entry by    *)
(* its place, from 0, among those that the shared filter shows.             *)
(***************************************************************************)
EXTENDS Naturals, Sequences, FiniteSets

CONSTANT Text  \* what users type, besides blanks

Blank == " "
Typed == Text \cup {Blank}

\* Broken variant: blanks are a text like others.
TrimNothing(t) == t

Trim(t) == IF t = Blank THEN "" ELSE t

Filter == {"All", "Active", "Completed"}
Fits(filter, e) ==
    \/ filter = "All"
    \/ filter = "Active" /\ ~e.completed
    \/ filter = "Completed" /\ e.completed

Entry == [description: Text, completed: BOOLEAN, editing: BOOLEAN]
State ==
    [entries: Seq(Entry), filter: Filter, value: Typed \cup {""}, edit_value: Typed \cup {""}]

DefaultState == [entries |-> <<>>, filter |-> "All", value |-> "", edit_value |-> ""]

\* The positions of the entries that a filter lets through, in order.
Positions(entries, filter) == {k \in DOMAIN entries : Fits(filter, entries[k])}
Ascending(S) == [n \in 1 .. Cardinality(S) |-> CHOOSE k \in S : Cardinality({j \in S : j < k}) = n - 1]

Shown(st) == Ascending(Positions(st.entries, st.filter))

\* The position of the entry that idx names among those shown.
Nth(st, idx) == Shown(st)[idx + 1]

\* Broken variant: idx names a place in the whole list.
NthOfAll(st, idx) == idx + 1

IndexedCommands == {"Edit", "Remove", "ToggleEdit", "Toggle"}

\* The unwrap of nth, or the bounds check of entries, panics.
Panics(st, cmd) == cmd.kind \in IndexedCommands /\ cmd.idx >= Len(Shown(st))

Without(seq, k) == SubSeq(seq, 1, k - 1) \o SubSeq(seq, k + 1, Len(seq))

Add(st) ==
    [st EXCEPT !.value = "",
               !.entries = IF Trim(st.value) = "" THEN @
                           ELSE Append(@, [description |-> Trim(st.value), completed |-> FALSE,
                                           editing |-> FALSE])]

Remove(st, idx) == [st EXCEPT !.entries = Without(@, Nth(st, idx))]

\* complete_edit: an empty text removes the entry.
Edit(st, idx) ==
    LET val == Trim(st.edit_value)
        edited == [st.entries[Nth(st, idx)] EXCEPT !.description = val, !.editing = ~@]
    IN [(IF val = "" THEN Remove(st, idx) ELSE [st EXCEPT !.entries[Nth(st, idx)] = edited])
        EXCEPT !.edit_value = ""]

\* The text to edit is that of the idx-th of all entries; the entry whose
\* editing is toggled is the idx-th of those shown.
ToggleEdit(st, idx) ==
    LET cleared == [k \in DOMAIN st.entries |-> [st.entries[k] EXCEPT !.editing = FALSE]] IN
    [st EXCEPT !.edit_value = st.entries[idx + 1].description,
               !.entries = [cleared EXCEPT ![Nth(st, idx)].editing = ~@]]

Toggle(st, idx) == [st EXCEPT !.entries[Nth(st, idx)].completed = ~@]

IsAllCompleted(st) ==
    Shown(st) # <<>> /\ \A k \in DOMAIN st.entries : Fits(st.filter, st.entries[k]) => st.entries[k].completed

ToggleAll(st) ==
    [st EXCEPT !.entries = [k \in DOMAIN @ |->
        IF Fits(st.filter, @[k]) THEN [@[k] EXCEPT !.completed = ~IsAllCompleted(st)] ELSE @[k]]]

ClearCompleted(st) ==
    LET kept == Ascending(Positions(st.entries, "Active")) IN
    [st EXCEPT !.entries = [n \in DOMAIN kept |-> @[kept[n]]]]

\* State::apply of a command that does not panic.
Apply(st, cmd) ==
    CASE cmd.kind = "Add" -> Add(st)
      [] cmd.kind = "Edit" -> Edit(st, cmd.idx)
      [] cmd.kind = "Update" -> [st EXCEPT !.value = cmd.text]
      [] cmd.kind = "UpdateEdit" -> [st EXCEPT !.edit_value = cmd.text]
      [] cmd.kind = "Remove" -> Remove(st, cmd.idx)
      [] cmd.kind = "SetFilter" -> [st EXCEPT !.filter = cmd.filter]
      [] cmd.kind = "ToggleEdit" -> ToggleEdit(st, cmd.idx)
      [] cmd.kind = "ToggleAll" -> ToggleAll(st)
      [] cmd.kind = "Toggle" -> Toggle(st, cmd.idx)
      [] cmd.kind = "ClearCompleted" -> ClearCompleted(st)

-----------------------------------------------------------------------------
(* What a page that shows st offers its user *)

Indexed(kind, idx) == [kind |-> kind, idx |-> idx]

\* Broken variant: the page shows the entries that the filter hides too.
PlacesOfAll(st) == {k - 1 : k \in DOMAIN st.entries}

Places(st) == {k - 1 : k \in DOMAIN Shown(st)}
Editable(st) == {k - 1 : k \in {n \in DOMAIN Shown(st) : st.entries[Shown(st)[n]].editing}}

Offered(st) ==
    [kind: {"Update"}, text: Typed]
    \cup {[kind |-> "Add"]}
    \cup {Indexed(kind, idx) : kind \in {"Toggle", "ToggleEdit", "Remove"}, idx \in Places(st)}
    \cup {Indexed("Edit", idx) : idx \in Editable(st)}
    \cup (IF Editable(st) # {} THEN [kind: {"UpdateEdit"}, text: Typed] ELSE {})
    \cup (IF st.entries # <<>>
            THEN [kind: {"SetFilter"}, filter: Filter] \cup [kind: {"ToggleAll", "ClearCompleted"}]
            ELSE {})

=============================================================================
