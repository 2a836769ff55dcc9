------------------------- MODULE PersistentStorage -------------------------
(***************************************************************************)
(* wraft/src/raft/storage.rs, one write to the browser's local storage at a *)
(* time.  RaftWorker takes an update of the term, vote or log as one step;  *)
(* it is several writes, and the window may go away between two of them or  *)
(* the worker panic when the storage quota is used up.                      *)
(***************************************************************************)
EXTENDS Integers, Sequences

CONSTANTS
    Node,      \* the candidates that a vote can be for
    Self,      \* the node of this window
    Cmd, None,
    MaxTerm,   \* bound: the highest term
    MaxIndex,  \* bound: the longest log
    Faults     \* which of "crash" and "quota" happen

ASSUME SelfAssumption == Self \in Node
ASSUME BoundAssumption == MaxTerm \in Nat /\ MaxIndex \in Nat /\ Faults \subseteq {"crash", "quota"}

VARIABLES
    memory,   \* the fields of Storage, while a worker runs
    disk,     \* what local storage holds
    todo,     \* the writes that the current operation has left to do
    vote,     \* the vote that is sent when the current operation is done
    running,  \* does a worker run on this storage?
    ballots,  \* history: the votes sent
    saved     \* history: the log as the completed operations have left it

vars == <<memory, disk, todo, vote, running, ballots, saved>>

Indices == 1 .. MaxIndex
Entry == [term : 1 .. MaxTerm, cmd : Cmd]
Ballot == [term : 1 .. MaxTerm, candidate : Node]

\* What a key without a value reads as.
ASSUME NoneAssumption == None \notin Node /\ None \notin Entry /\ None \notin Ballot

Init ==
    /\ memory = [current_term |-> 0, voted_for |-> None, last_log_index |-> 0]
    /\ disk = [current_term |-> 0, voted_for |-> None, last_log_index |-> 0,
               log |-> [k \in Indices |-> None]]
    /\ todo = <<>>
    /\ vote = None
    /\ running = TRUE
    /\ ballots = {}
    /\ saved = <<>>

-----------------------------------------------------------------------------
(* Writes *)

SetTerm(t) == [key |-> "current_term", idx |-> 0, val |-> t]
SetVote(n) == [key |-> "voted_for", idx |-> 0, val |-> n]
RemoveVote == [key |-> "voted_for", idx |-> 0, val |-> None]
SetLast(k) == [key |-> "last_log_index", idx |-> 0, val |-> k]
SetEntry(k, e) == [key |-> "log", idx |-> k, val |-> e]

Stored(d, w) == IF w.key = "log" THEN [d EXCEPT !.log[w.idx] = w.val] ELSE [d EXCEPT ![w.key] = w.val]

\* Broken variants: the term comes first, or is not stored at all.
TermFirst(t) == <<SetTerm(t), RemoveVote>>
TermUnsaved(t) == <<RemoveVote>>

NewTerm(t) == <<RemoveVote, SetTerm(t)>>

\* Broken variant: the entry is stored where the last one is.
AppendInPlace(k, e) == <<SetLast(k), SetEntry(IF k > 1 THEN k - 1 ELSE k, e)>>

AppendEntry(k, e) == <<SetLast(k), SetEntry(k, e)>>

-----------------------------------------------------------------------------
(* The operations; their callers are the handlers of worker.rs *)

Idle == running /\ todo = <<>>

\* update_term, for a term in a request or an answer.
UpdateTerm(t) ==
    /\ Idle
    /\ memory.current_term < t
    /\ memory' = [memory EXCEPT !.current_term = t, !.voted_for = None]
    /\ todo' = NewTerm(t)
    /\ UNCHANGED <<disk, vote, running, ballots, saved>>

\* set_voted_for, for a candidate that handle_request_vote grants the vote.
SetVotedFor(n) ==
    /\ Idle
    /\ memory.current_term > 0
    /\ memory.voted_for \in {None, n}
    /\ memory' = [memory EXCEPT !.voted_for = n]
    /\ todo' = <<SetVote(n)>>
    /\ vote' = [term |-> memory.current_term, candidate |-> n]
    /\ UNCHANGED <<disk, running, ballots, saved>>

\* increment_term and the candidate's vote for itself.
IncrementTerm ==
    LET t == memory.current_term + 1 IN
    /\ Idle
    /\ t <= MaxTerm
    /\ memory' = [memory EXCEPT !.current_term = t, !.voted_for = Self]
    /\ todo' = NewTerm(t) \o <<SetVote(Self)>>
    /\ vote' = [term |-> t, candidate |-> Self]
    /\ UNCHANGED <<disk, running, ballots, saved>>

\* Broken variant: get_log returns None for an entry that is not there.
ReadableAlways(k) == TRUE

\* get_log unwraps what is stored under the index.
Readable(k) == k > 0 => disk.log[k] # None

\* append_log.  Its caller has read the last entry: a leader for the
\* last_log_term of its vote requests, a follower at prev_log_index.
AppendLog(e) ==
    LET k == memory.last_log_index + 1 IN
    /\ Idle
    /\ e.term <= memory.current_term
    /\ k \in Indices
    /\ Readable(memory.last_log_index)
    /\ memory' = [memory EXCEPT !.last_log_index = k]
    /\ todo' = AppendEntry(k, e)
    /\ UNCHANGED <<disk, vote, running, ballots, saved>>

\* overwrite_log, for an entry of another term; its assertions leave the last
\* index only.  The old entry is given up when the operation begins.
OverwriteLog(e) ==
    LET k == memory.last_log_index IN
    /\ Idle
    /\ e.term <= memory.current_term
    /\ k > 0 /\ disk.log[k] # None
    /\ disk.log[k].term # e.term
    /\ todo' = <<SetLast(k - 1)>> \o AppendEntry(k, e)
    /\ saved' = SubSeq(saved, 1, k - 1)
    /\ UNCHANGED <<memory, disk, vote, running, ballots>>

\* The log that the worker reads.
Log(d) == [k \in 1 .. d.last_log_index |-> d.log[k]]

\* One call of set_item or remove_item.  With the last one the operation
\* returns, and its vote, if it is one, is sent.
Write ==
    /\ running /\ todo # <<>>
    /\ disk' = Stored(disk, Head(todo))
    /\ todo' = Tail(todo)
    /\ IF Len(todo) > 1
       THEN UNCHANGED <<vote, ballots, saved>>
       ELSE /\ vote' = None
            /\ ballots' = ballots \cup ({vote} \ {None})
            /\ saved' = IF Head(todo).key = "log" THEN Append(saved, Head(todo).val) ELSE saved
    /\ UNCHANGED <<memory, running>>

Stop ==
    /\ running' = FALSE
    /\ todo' = <<>>
    /\ vote' = None
    /\ UNCHANGED <<memory, disk, ballots, saved>>

\* The window goes away between two writes.
Crash ==
    /\ "crash" \in Faults
    /\ running
    /\ Stop

\* set_item fails: unwrap panics, and the worker with it.
QuotaExceeded ==
    /\ "quota" \in Faults
    /\ running /\ todo # <<>>
    /\ Head(todo) # RemoveVote
    /\ Stop

\* Storage::new, when the window is opened again.
New ==
    /\ ~running
    /\ running' = TRUE
    /\ memory' = [f \in DOMAIN memory |-> disk[f]]
    /\ saved' = IF Readable(disk.last_log_index) THEN Log(disk) ELSE saved
    /\ UNCHANGED <<disk, todo, vote, ballots>>

-----------------------------------------------------------------------------
Next ==
    \/ \E t \in 1 .. MaxTerm : UpdateTerm(t)
    \/ \E n \in Node \ {Self} : SetVotedFor(n)
    \/ IncrementTerm
    \/ \E e \in Entry : AppendLog(e) \/ OverwriteLog(e)
    \/ Write
    \/ Crash
    \/ QuotaExceeded
    \/ New

Spec == Init /\ [][Next]_vars

-----------------------------------------------------------------------------
\* Types of what is stored and of what is in memory.
TypeOK ==
    /\ memory \in [current_term : 0 .. MaxTerm, voted_for : Node \cup {None}, last_log_index : 0 .. MaxIndex]
    /\ disk \in [current_term : 0 .. MaxTerm, voted_for : Node \cup {None}, last_log_index : 0 .. MaxIndex,
                 log : [Indices -> Entry \cup {None}]]
    /\ vote \in Ballot \cup {None}
    /\ running \in BOOLEAN
    /\ ballots \subseteq Ballot
    /\ saved \in Seq(Entry)

\* The stored vote is one that was cast in the stored term: the vote is cleared
\* before the term is stored (storage.rs:79-92).
VoteBelongsToTerm ==
    disk.voted_for # None => [term |-> disk.current_term, candidate |-> disk.voted_for] \in ballots

\* A window never comes back with a term older than one it has voted in.
TermOfVoteKept == \A b \in ballots : b.term <= disk.current_term

\* Wherever a write fails, at most the last entry of the log is missing: the
\* worker panics on reading it before it appends another.
OnlyLastEntryMissing == \A k \in 1 .. disk.last_log_index - 1 : disk.log[k] # None

\* An entry that append_log has stored is there after any crash and any failed
\* write, until it is overwritten: neither lost, nor replaced by an entry that
\* an interrupted overwrite_log has left behind its index.
SavedEntriesSurvive ==
    \A k \in DOMAIN saved : k <= disk.last_log_index /\ disk.log[k] = saved[k]

=============================================================================
