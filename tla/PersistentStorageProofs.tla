----------------------- MODULE PersistentStorageProofs -----------------------
(***************************************************************************)
(* What PersistentStorage keeps through any crash and any failed write, for *)
(* all bounds and nodes.  The invariant names the plans that the operations *)
(* leave in todo and says, for each write still to come, what local storage *)
(* holds in the meantime: a crash ends a plan at any of these points.       *)
(***************************************************************************)
EXTENDS PersistentStorage, TLAPS, SequenceTheorems

Memory == [current_term : 0 .. MaxTerm, voted_for : Node \cup {None}, last_log_index : 0 .. MaxIndex]
Disk == [current_term : 0 .. MaxTerm, voted_for : Node \cup {None}, last_log_index : 0 .. MaxIndex,
         log : [Indices -> Entry \cup {None}]]

StoredTypeOK ==
    /\ memory \in Memory /\ disk \in Disk
    /\ vote \in Ballot \cup {None}
    /\ running \in BOOLEAN
    /\ ballots \subseteq Ballot
    /\ saved \in Seq(Entry)

term == memory.current_term
last == memory.last_log_index

\* Local storage has what the fields have: term and vote, or the log.
TermStored == disk.current_term = term /\ disk.voted_for = memory.voted_for
LogStored == disk.last_log_index = last /\ (Readable(last) => Len(saved) = last)

Resting == todo = <<>> /\ vote = None /\ TermStored /\ LogStored

\* update_term and increment_term: no vote is stored when the term is.
UpdatingTerm ==
    /\ disk.current_term < term /\ LogStored
    /\ vote = None /\ memory.voted_for = None
    /\ \/ todo = <<RemoveVote, SetTerm(term)>>
       \/ todo = <<SetTerm(term)>> /\ disk.voted_for = None
Standing ==
    /\ disk.current_term < term /\ LogStored
    /\ vote = [term |-> term, candidate |-> Self] /\ memory.voted_for = Self
    /\ \/ todo = <<RemoveVote, SetTerm(term), SetVote(Self)>>
       \/ todo = <<SetTerm(term), SetVote(Self)>> /\ disk.voted_for = None
Voting ==
    /\ todo = <<SetVote(memory.voted_for)>> /\ memory.voted_for \in Node /\ LogStored
    /\ term > 0 /\ disk.current_term = term
    /\ vote = [term |-> term, candidate |-> memory.voted_for]

\* append_log and overwrite_log: the entries before the new one are all there.
LogPlan ==
    /\ vote = None /\ TermStored
    /\ last \in Indices /\ Len(saved) = last - 1
    /\ \A k \in 1 .. last - 1 : disk.log[k] # None
    /\ \E e \in Entry :
         \/ disk.last_log_index = last /\ todo = <<SetLast(last - 1), SetLast(last), SetEntry(last, e)>>
         \/ disk.last_log_index = last - 1 /\ todo = <<SetLast(last), SetEntry(last, e)>>
         \/ disk.last_log_index = last /\ todo = <<SetEntry(last, e)>>

PlanInv ==
    IF running THEN Resting \/ UpdatingTerm \/ Standing \/ Voting \/ LogPlan
               ELSE todo = <<>> /\ vote = None

StorageInv ==
    /\ StoredTypeOK
    /\ PlanInv
    /\ VoteBelongsToTerm
    /\ TermOfVoteKept
    /\ OnlyLastEntryMissing
    /\ SavedEntriesSurvive

-----------------------------------------------------------------------------
(* Writes *)

\* What a write to one key changes.
LEMMA TermIsStored ==
    ASSUME NEW d \in Disk, NEW t \in 0 .. MaxTerm, NEW s, s = Stored(d, SetTerm(t))
    PROVE  /\ s \in Disk /\ s.current_term = t
           /\ s.voted_for = d.voted_for /\ s.last_log_index = d.last_log_index /\ s.log = d.log
BY DEF Stored, SetTerm, Disk

LEMMA VoteIsStored ==
    ASSUME NEW d \in Disk, NEW n \in Node \cup {None}, NEW s, s = Stored(d, SetVote(n))
    PROVE  /\ s \in Disk /\ s.voted_for = n
           /\ s.current_term = d.current_term /\ s.last_log_index = d.last_log_index /\ s.log = d.log
BY DEF Stored, SetVote, Disk

LEMMA LastIsStored ==
    ASSUME NEW d \in Disk, NEW k \in 0 .. MaxIndex, NEW s, s = Stored(d, SetLast(k))
    PROVE  /\ s \in Disk /\ s.last_log_index = k
           /\ s.current_term = d.current_term /\ s.voted_for = d.voted_for /\ s.log = d.log
BY DEF Stored, SetLast, Disk

LEMMA EntryIsStored ==
    ASSUME NEW d \in Disk, NEW k \in Indices, NEW e \in Entry, NEW s, s = Stored(d, SetEntry(k, e))
    PROVE  /\ s \in Disk /\ s.log = [d.log EXCEPT ![k] = e]
           /\ s.current_term = d.current_term /\ s.voted_for = d.voted_for
           /\ s.last_log_index = d.last_log_index
BY DEF Stored, SetEntry, Disk

\* A write that leaves more to do, and the last one of a plan.
LEMMA FirstWrite ==
    ASSUME Write, NEW a, NEW b, todo = <<a, b>>
    PROVE  /\ disk' = Stored(disk, a) /\ todo' = <<b>>
           /\ UNCHANGED <<memory, vote, running, ballots, saved>>
BY DEF Write

LEMMA FirstWriteOfThree ==
    ASSUME Write, NEW a, NEW b, NEW c, todo = <<a, b, c>>
    PROVE  /\ disk' = Stored(disk, a) /\ todo' = <<b, c>>
           /\ UNCHANGED <<memory, vote, running, ballots, saved>>
BY DEF Write

LEMMA LastWrite ==
    ASSUME Write, NEW a, todo = <<a>>
    PROVE  /\ disk' = Stored(disk, a) /\ todo' = <<>> /\ vote' = None
           /\ ballots' = IF vote = None THEN ballots ELSE ballots \cup {vote}
           /\ saved' = IF a.key = "log" THEN Append(saved, a.val) ELSE saved
           /\ UNCHANGED <<memory, running>>
<1>1. Len(todo) = 1 /\ Head(todo) = a /\ Tail(todo) = <<>>  OBVIOUS
<1>2. ballots \cup ({vote} \ {None}) = IF vote = None THEN ballots ELSE ballots \cup {vote}
  OBVIOUS
<1>3. disk' = Stored(disk, a) /\ todo' = <<>> /\ UNCHANGED <<memory, running>>
  BY <1>1 DEF Write
<1>4. vote' = None /\ ballots' = ballots \cup ({vote} \ {None})
  BY <1>1 DEF Write
<1>5. saved' = IF a.key = "log" THEN Append(saved, a.val) ELSE saved
  BY <1>1 DEF Write
<1> QED  BY <1>2, <1>3, <1>4, <1>5

LEMMA LogUnchanged ==
    ASSUME StorageInv, disk'.log = disk.log, disk'.last_log_index = disk.last_log_index,
           UNCHANGED <<memory, saved>>
    PROVE  /\ OnlyLastEntryMissing' /\ SavedEntriesSurvive'
           /\ LogStored => LogStored'
           /\ term' = term /\ last' = last
BY DEF StorageInv, OnlyLastEntryMissing, SavedEntriesSurvive, LogStored, Readable, term, last

\* The vote is removed.
LEMMA RemovalKeeps ==
    ASSUME StorageInv, disk' = Stored(disk, RemoveVote), UNCHANGED <<memory, ballots, saved>>
    PROVE  /\ disk' \in Disk /\ disk'.voted_for = None /\ disk'.current_term = disk.current_term
           /\ disk'.log = disk.log /\ disk'.last_log_index = disk.last_log_index
           /\ VoteBelongsToTerm' /\ TermOfVoteKept'
<1>1. RemoveVote = SetVote(None)  BY DEF RemoveVote, SetVote
<1>2. /\ disk' \in Disk /\ disk'.voted_for = None /\ disk'.current_term = disk.current_term
      /\ disk'.log = disk.log /\ disk'.last_log_index = disk.last_log_index
  BY <1>1, VoteIsStored DEF StorageInv, StoredTypeOK
<1> QED  BY <1>2 DEF StorageInv, VoteBelongsToTerm, TermOfVoteKept

\* A greater term is stored, and no vote is.
LEMMA TermKeeps ==
    ASSUME StorageInv, disk' = Stored(disk, SetTerm(term)), disk.voted_for = None,
           disk.current_term < term, UNCHANGED <<memory, ballots, saved>>
    PROVE  /\ disk' \in Disk /\ disk'.voted_for = None /\ disk'.current_term = term
           /\ disk'.log = disk.log /\ disk'.last_log_index = disk.last_log_index
           /\ VoteBelongsToTerm' /\ TermOfVoteKept'
<1>1. term \in 0 .. MaxTerm /\ disk.current_term \in 0 .. MaxTerm
  BY DEF StorageInv, StoredTypeOK, Memory, Disk, term
<1>2. /\ disk' \in Disk /\ disk'.voted_for = None /\ disk'.current_term = term
      /\ disk'.log = disk.log /\ disk'.last_log_index = disk.last_log_index
  BY <1>1, TermIsStored DEF StorageInv, StoredTypeOK
<1>3. \A b \in ballots : b.term \in Int  BY DEF StorageInv, StoredTypeOK, Ballot
<1> QED  BY <1>1, <1>2, <1>3, BoundAssumption DEF StorageInv, VoteBelongsToTerm, TermOfVoteKept

LEMMA WriteOfUpdate ==
    ASSUME StorageInv, running, UpdatingTerm, Write
    PROVE  StorageInv'
<1>1. CASE todo = <<RemoveVote, SetTerm(term)>>
  <2>1. /\ disk' = Stored(disk, RemoveVote) /\ todo' = <<SetTerm(term)>>
        /\ UNCHANGED <<memory, vote, running, ballots, saved>>
    BY <1>1, FirstWrite
  <2>2. /\ disk' \in Disk /\ disk'.voted_for = None /\ disk'.current_term = disk.current_term
        /\ disk'.log = disk.log /\ disk'.last_log_index = disk.last_log_index
        /\ VoteBelongsToTerm' /\ TermOfVoteKept'
    BY <2>1, RemovalKeeps
  <2>3. /\ OnlyLastEntryMissing' /\ SavedEntriesSurvive'
        /\ LogStored' /\ term' = term /\ last' = last
    BY <2>1, <2>2, LogUnchanged DEF UpdatingTerm
  <2>4. UpdatingTerm'  BY <2>1, <2>2, <2>3 DEF UpdatingTerm, SetTerm
  <2> QED  BY <2>1, <2>2, <2>3, <2>4 DEF StorageInv, PlanInv, StoredTypeOK
<1>2. CASE todo = <<SetTerm(term)>> /\ disk.voted_for = None
  <2>1. /\ disk' = Stored(disk, SetTerm(term)) /\ todo' = <<>> /\ vote' = None
        /\ UNCHANGED <<memory, running, ballots, saved>>
    <3>1. SetTerm(term).key # "log"  BY DEF SetTerm
    <3> QED  BY <1>2, <3>1, LastWrite DEF UpdatingTerm
  <2>2. /\ disk' \in Disk /\ disk'.voted_for = None /\ disk'.current_term = term
        /\ disk'.log = disk.log /\ disk'.last_log_index = disk.last_log_index
        /\ VoteBelongsToTerm' /\ TermOfVoteKept'
    BY <1>2, <2>1, TermKeeps DEF UpdatingTerm
  <2>3. /\ OnlyLastEntryMissing' /\ SavedEntriesSurvive'
        /\ LogStored' /\ term' = term /\ last' = last
    BY <2>1, <2>2, LogUnchanged DEF UpdatingTerm
  <2>4. Resting'  BY <2>1, <2>2, <2>3 DEF UpdatingTerm, Resting, TermStored
  <2> QED  BY <2>1, <2>2, <2>3, <2>4 DEF StorageInv, PlanInv, StoredTypeOK
<1> QED  BY <1>1, <1>2 DEF UpdatingTerm

LEMMA WriteOfStanding ==
    ASSUME StorageInv, running, Standing, Write
    PROVE  StorageInv'
<1>1. CASE todo = <<RemoveVote, SetTerm(term), SetVote(Self)>>
  <2>1. /\ disk' = Stored(disk, RemoveVote) /\ todo' = <<SetTerm(term), SetVote(Self)>>
        /\ UNCHANGED <<memory, vote, running, ballots, saved>>
    BY <1>1, FirstWriteOfThree
  <2>2. /\ disk' \in Disk /\ disk'.voted_for = None /\ disk'.current_term = disk.current_term
        /\ disk'.log = disk.log /\ disk'.last_log_index = disk.last_log_index
        /\ VoteBelongsToTerm' /\ TermOfVoteKept'
    BY <2>1, RemovalKeeps
  <2>3. /\ OnlyLastEntryMissing' /\ SavedEntriesSurvive'
        /\ LogStored' /\ term' = term /\ last' = last
    BY <2>1, <2>2, LogUnchanged DEF Standing
  <2>4. Standing'  BY <2>1, <2>2, <2>3 DEF Standing, SetTerm, SetVote
  <2> QED  BY <2>1, <2>2, <2>3, <2>4 DEF StorageInv, PlanInv, StoredTypeOK
<1>2. CASE todo = <<SetTerm(term), SetVote(Self)>> /\ disk.voted_for = None
  <2>1. /\ disk' = Stored(disk, SetTerm(term)) /\ todo' = <<SetVote(Self)>>
        /\ UNCHANGED <<memory, vote, running, ballots, saved>>
    BY <1>2, FirstWrite
  <2>2. /\ disk' \in Disk /\ disk'.voted_for = None /\ disk'.current_term = term
        /\ disk'.log = disk.log /\ disk'.last_log_index = disk.last_log_index
        /\ VoteBelongsToTerm' /\ TermOfVoteKept'
    BY <1>2, <2>1, TermKeeps DEF Standing
  <2>3. /\ OnlyLastEntryMissing' /\ SavedEntriesSurvive'
        /\ LogStored' /\ term' = term /\ last' = last
    BY <2>1, <2>2, LogUnchanged DEF Standing
  <2>4. term > 0
    BY BoundAssumption DEF Standing, StorageInv, StoredTypeOK, Memory, Disk, term
  <2>5. Voting'  BY <2>1, <2>2, <2>3, <2>4, SelfAssumption DEF Standing, Voting, SetVote
  <2> QED  BY <2>1, <2>2, <2>3, <2>5 DEF StorageInv, PlanInv, StoredTypeOK
<1> QED  BY <1>1, <1>2 DEF Standing

LEMMA WriteOfVote ==
    ASSUME StorageInv, running, Voting, Write
    PROVE  StorageInv'
<1> DEFINE n == memory.voted_for
           b == [term |-> term, candidate |-> n]
<1>1. n \in Node /\ vote = b /\ b \in Ballot /\ b # None
  <2>1. term \in 1 .. MaxTerm
    BY BoundAssumption DEF Voting, StorageInv, StoredTypeOK, Memory, term
  <2> QED  BY <2>1, NoneAssumption DEF Voting, Ballot
<1>2. /\ disk' = Stored(disk, SetVote(n)) /\ todo' = <<>> /\ vote' = None
      /\ ballots' = ballots \cup {b}
      /\ UNCHANGED <<memory, running, saved>>
  <2>1. SetVote(n).key # "log" /\ todo = <<SetVote(n)>>  BY DEF SetVote, Voting
  <2> QED  BY <1>1, <2>1, LastWrite
<1>3. /\ disk' \in Disk /\ disk'.voted_for = n /\ disk'.current_term = disk.current_term
      /\ disk'.log = disk.log /\ disk'.last_log_index = disk.last_log_index
  BY <1>1, <1>2, VoteIsStored DEF StorageInv, StoredTypeOK
<1>4. /\ OnlyLastEntryMissing' /\ SavedEntriesSurvive'
      /\ LogStored' /\ term' = term /\ last' = last
  BY <1>2, <1>3, LogUnchanged DEF Voting
<1>5. Resting'  BY <1>2, <1>3, <1>4 DEF Voting, Resting, TermStored
<1>6. VoteBelongsToTerm'  BY <1>2, <1>3 DEF Voting, VoteBelongsToTerm
<1>7. TermOfVoteKept'
  <2>1. term \in Int  BY DEF StorageInv, StoredTypeOK, Memory, term
  <2>2. b.term = disk.current_term  BY DEF Voting
  <2> QED  BY <1>2, <1>3, <2>1, <2>2 DEF Voting, StorageInv, TermOfVoteKept
<1> QED  BY <1>1, <1>2, <1>3, <1>4, <1>5, <1>6, <1>7 DEF StorageInv, PlanInv, StoredTypeOK

\* The new entry is written behind a log that is all there.
LEMMA WriteOfLog ==
    ASSUME StorageInv, running, LogPlan, Write
    PROVE  StorageInv'
<1>1. /\ last \in 1 .. MaxIndex /\ saved \in Seq(Entry) /\ Len(saved) = last - 1
      /\ \A k \in 1 .. last - 1 : disk.log[k] # None
      /\ \A k \in 1 .. last - 1 : k \in DOMAIN saved /\ disk.log[k] = saved[k]
      /\ DOMAIN saved = 1 .. last - 1
  BY LenProperties DEF LogPlan, StorageInv, StoredTypeOK, SavedEntriesSurvive, Indices
<1>2. PICK e \in Entry :
         \/ disk.last_log_index = last /\ todo = <<SetLast(last - 1), SetLast(last), SetEntry(last, e)>>
         \/ disk.last_log_index = last - 1 /\ todo = <<SetLast(last), SetEntry(last, e)>>
         \/ disk.last_log_index = last /\ todo = <<SetEntry(last, e)>>
  BY DEF LogPlan
<1>3. ASSUME NEW k \in {last - 1, last}, disk' = Stored(disk, SetLast(k)),
             UNCHANGED <<memory, vote, running, ballots, saved>>
      PROVE  /\ disk' \in Disk /\ disk'.last_log_index = k
             /\ disk'.log = disk.log
             /\ VoteBelongsToTerm' /\ TermOfVoteKept' /\ OnlyLastEntryMissing' /\ SavedEntriesSurvive'
             /\ TermStored' /\ term' = term /\ last' = last
  <2>1. k \in 0 .. MaxIndex  BY <1>1, BoundAssumption
  <2>2. /\ disk' \in Disk /\ disk'.last_log_index = k
        /\ disk'.current_term = disk.current_term /\ disk'.voted_for = disk.voted_for
        /\ disk'.log = disk.log
    BY <1>3, <2>1, LastIsStored DEF StorageInv, StoredTypeOK
  <2>3. VoteBelongsToTerm' /\ TermOfVoteKept'
    BY <1>3, <2>2 DEF StorageInv, VoteBelongsToTerm, TermOfVoteKept
  <2>4. OnlyLastEntryMissing'  BY <1>1, <2>2 DEF OnlyLastEntryMissing
  <2>5. SavedEntriesSurvive'  BY <1>1, <1>3, <2>2 DEF SavedEntriesSurvive
  <2>6. TermStored' /\ term' = term /\ last' = last
    BY <1>3, <2>2 DEF LogPlan, TermStored, term, last
  <2> QED  BY <2>2, <2>3, <2>4, <2>5, <2>6
<1>4. CASE disk.last_log_index = last /\ todo = <<SetLast(last - 1), SetLast(last), SetEntry(last, e)>>
  <2>1. /\ disk' = Stored(disk, SetLast(last - 1)) /\ todo' = <<SetLast(last), SetEntry(last, e)>>
        /\ UNCHANGED <<memory, vote, running, ballots, saved>>
    BY <1>4, FirstWriteOfThree
  <2>2. /\ disk' \in Disk /\ disk'.last_log_index = last - 1
        /\ disk'.log = disk.log
        /\ VoteBelongsToTerm' /\ TermOfVoteKept' /\ OnlyLastEntryMissing' /\ SavedEntriesSurvive'
        /\ TermStored' /\ term' = term /\ last' = last
    BY <1>3, <2>1
  <2>3. LogPlan'  BY <2>1, <2>2 DEF LogPlan, SetLast, SetEntry
  <2> QED  BY <2>1, <2>2, <2>3 DEF StorageInv, PlanInv, StoredTypeOK
<1>5. CASE disk.last_log_index = last - 1 /\ todo = <<SetLast(last), SetEntry(last, e)>>
  <2>1. /\ disk' = Stored(disk, SetLast(last)) /\ todo' = <<SetEntry(last, e)>>
        /\ UNCHANGED <<memory, vote, running, ballots, saved>>
    BY <1>5, FirstWrite
  <2>2. /\ disk' \in Disk /\ disk'.last_log_index = last
        /\ disk'.log = disk.log
        /\ VoteBelongsToTerm' /\ TermOfVoteKept' /\ OnlyLastEntryMissing' /\ SavedEntriesSurvive'
        /\ TermStored' /\ term' = term /\ last' = last
    BY <1>3, <2>1
  <2>3. LogPlan'  BY <2>1, <2>2 DEF LogPlan, SetEntry
  <2> QED  BY <2>1, <2>2, <2>3 DEF StorageInv, PlanInv, StoredTypeOK
<1>6. CASE disk.last_log_index = last /\ todo = <<SetEntry(last, e)>>
  <2>1. SetEntry(last, e).key = "log" /\ SetEntry(last, e).val = e  BY DEF SetEntry
  <2>2. /\ disk' = Stored(disk, SetEntry(last, e)) /\ todo' = <<>> /\ vote' = None
        /\ saved' = Append(saved, e)
        /\ UNCHANGED <<memory, running, ballots>>
    BY <1>6, <2>1, LastWrite DEF LogPlan
  <2>3. /\ disk' \in Disk /\ disk'.log = [disk.log EXCEPT ![last] = e]
        /\ disk'.current_term = disk.current_term /\ disk'.voted_for = disk.voted_for
        /\ disk'.last_log_index = last
    BY <1>1, <1>6, <2>2, EntryIsStored DEF StorageInv, StoredTypeOK, Indices
  <2>4. /\ disk'.log[last] = e /\ \A k \in 1 .. last - 1 : disk'.log[k] = disk.log[k]
    <3>1. disk.log \in [1 .. MaxIndex -> Entry \cup {None}]
      BY DEF StorageInv, StoredTypeOK, Disk, Indices
    <3>2. last \in Int /\ \A k \in 1 .. last - 1 : k \in 1 .. MaxIndex /\ k # last
      BY <1>1, BoundAssumption
    <3> QED  BY <1>1, <2>3, <3>1, <3>2
  <2>5. /\ saved' \in Seq(Entry) /\ Len(saved') = last /\ DOMAIN saved' = 1 .. last
        /\ saved'[last] = e /\ \A k \in 1 .. last - 1 : saved'[k] = saved[k]
    BY <1>1, <2>2
  <2>6. VoteBelongsToTerm' /\ TermOfVoteKept'
    BY <2>2, <2>3 DEF StorageInv, VoteBelongsToTerm, TermOfVoteKept
  <2>7. OnlyLastEntryMissing'  BY <1>1, <2>3, <2>4 DEF OnlyLastEntryMissing
  <2>8. SavedEntriesSurvive'
    <3>1. SUFFICES ASSUME NEW k \in DOMAIN saved'
                   PROVE  k <= disk'.last_log_index /\ disk'.log[k] = saved'[k]
      BY DEF SavedEntriesSurvive
    <3>2. k \in 1 .. last  BY <2>5
    <3>3. disk'.log[k] = saved'[k]  BY <1>1, <2>4, <2>5, <3>2
    <3> QED  BY <1>1, <2>3, <3>2, <3>3
  <2>9. term' = term /\ last' = last  BY <2>2 DEF term, last
  <2>10. Resting'
    BY <2>2, <2>3, <2>5, <2>9 DEF LogPlan, Resting, TermStored, LogStored
  <2> QED
    BY <2>2, <2>3, <2>5, <2>6, <2>7, <2>8, <2>10 DEF StorageInv, PlanInv, StoredTypeOK
<1> QED  BY <1>2, <1>4, <1>5, <1>6

LEMMA WriteKeeps == ASSUME StorageInv, Write PROVE StorageInv'
<1>1. running /\ todo # <<>>  BY DEF Write
<1>2. UpdatingTerm \/ Standing \/ Voting \/ LogPlan
  BY <1>1 DEF StorageInv, PlanInv, Resting
<1> QED  BY <1>1, <1>2, WriteOfUpdate, WriteOfStanding, WriteOfVote, WriteOfLog

-----------------------------------------------------------------------------
(* Operations, crashes and reloads *)

LEMMA MemoryTypes ==
    ASSUME StorageInv
    PROVE  /\ term \in 0 .. MaxTerm /\ last \in 0 .. MaxIndex
           /\ disk.current_term \in 0 .. MaxTerm /\ disk.last_log_index \in 0 .. MaxIndex
           /\ disk.log \in [1 .. MaxIndex -> Entry \cup {None}]
           /\ Len(saved) \in Nat /\ DOMAIN saved = 1 .. Len(saved)
           /\ MaxTerm \in Nat /\ MaxIndex \in Nat
BY BoundAssumption, LenProperties DEF StorageInv, StoredTypeOK, Memory, Disk, Indices, term, last

LEMMA RestingWhenIdle == ASSUME StorageInv, Idle PROVE Resting /\ running
BY DEF StorageInv, PlanInv, Idle, UpdatingTerm, Standing, Voting, LogPlan

\* An operation that begins changes neither local storage nor what was saved.
LEMMA BeginKeeps ==
    ASSUME StorageInv, UNCHANGED <<disk, ballots, saved>>
    PROVE  VoteBelongsToTerm' /\ TermOfVoteKept' /\ OnlyLastEntryMissing' /\ SavedEntriesSurvive'
BY DEF StorageInv, VoteBelongsToTerm, TermOfVoteKept, OnlyLastEntryMissing, SavedEntriesSurvive

LEMMA SameSequence ==
    ASSUME NEW S, NEW s \in Seq(S), NEW t \in Seq(S), Len(s) = 3, Len(t) = 3,
           s[1] = t[1], s[2] = t[2], s[3] = t[3]
    PROVE  s = t
<1>1. \A i \in 1 .. 3 : i = 1 \/ i = 2 \/ i = 3  OBVIOUS
<1>2. \A i \in 1 .. Len(s) : s[i] = t[i]  BY <1>1
<1> QED  BY <1>2, SeqEqual

\* The writes of two parts of an operation.
LEMMA Parts ==
    ASSUME NEW a, NEW b, NEW c
    PROVE  <<a, b>> \o <<c>> = <<a, b, c>> /\ <<a>> \o <<b, c>> = <<a, b, c>>
<1> DEFINE S == {a, b, c}
<1>1. /\ <<a, b>> \in Seq(S) /\ <<c>> \in Seq(S) /\ <<a>> \in Seq(S) /\ <<b, c>> \in Seq(S)
      /\ <<a, b, c>> \in Seq(S)
  OBVIOUS
<1>2. /\ Len(<<a, b>> \o <<c>>) = 3 /\ Len(<<a>> \o <<b, c>>) = 3 /\ Len(<<a, b, c>>) = 3
      /\ <<a, b>> \o <<c>> \in Seq(S) /\ <<a>> \o <<b, c>> \in Seq(S)
  BY <1>1, ConcatProperties
<1>3. (<<a, b>> \o <<c>>)[1] = a /\ (<<a, b>> \o <<c>>)[2] = b /\ (<<a, b>> \o <<c>>)[3] = c
  OBVIOUS
<1>4. (<<a>> \o <<b, c>>)[1] = a /\ (<<a>> \o <<b, c>>)[2] = b /\ (<<a>> \o <<b, c>>)[3] = c
  OBVIOUS
<1>5. <<a, b, c>>[1] = a /\ <<a, b, c>>[2] = b /\ <<a, b, c>>[3] = c  OBVIOUS
<1>6. <<a, b>> \o <<c>> = <<a, b, c>>  BY <1>1, <1>2, <1>3, <1>5, SameSequence
<1>7. <<a>> \o <<b, c>> = <<a, b, c>>  BY <1>1, <1>2, <1>4, <1>5, SameSequence
<1> QED  BY <1>6, <1>7

LEMMA UpdateTermKeeps ==
    ASSUME StorageInv, NEW t \in 1 .. MaxTerm, UpdateTerm(t)
    PROVE  StorageInv'
<1>1. Resting /\ running  BY RestingWhenIdle DEF UpdateTerm
<1>2. memory' \in Memory /\ term' = t /\ memory'.voted_for = None /\ last' = last
  <2>1. t \in 0 .. MaxTerm /\ memory \in Memory
    BY BoundAssumption DEF StorageInv, StoredTypeOK
  <2>2. memory' = [memory EXCEPT !.current_term = t, !.voted_for = None]  BY DEF UpdateTerm
  <2>3. /\ memory' \in Memory /\ memory'.current_term = t /\ memory'.voted_for = None
        /\ memory'.last_log_index = memory.last_log_index
    BY <2>1, <2>2 DEF Memory
  <2> QED  BY <2>3 DEF term, last
<1>3. LogStored'
  BY <1>1, <1>2 DEF UpdateTerm, Resting, LogStored, Readable
<1>4. disk'.current_term < term'  BY <1>1, <1>2 DEF UpdateTerm, Resting, TermStored, term
<1>5. UpdatingTerm'
  BY <1>1, <1>2, <1>3, <1>4 DEF UpdateTerm, UpdatingTerm, NewTerm, Resting
<1> QED
  BY <1>1, <1>2, <1>5, BeginKeeps DEF UpdateTerm, StorageInv, PlanInv, StoredTypeOK

LEMMA SetVotedForKeeps ==
    ASSUME StorageInv, NEW n \in Node, SetVotedFor(n)
    PROVE  StorageInv'
<1>1. Resting /\ running  BY RestingWhenIdle DEF SetVotedFor
<1>2. memory' \in Memory /\ term' = term /\ memory'.voted_for = n /\ last' = last
  BY MemoryTypes DEF SetVotedFor, StorageInv, StoredTypeOK, Memory, term, last
<1>3. LogStored'
  BY <1>1, <1>2 DEF SetVotedFor, Resting, LogStored, Readable
<1>4. vote' = [term |-> term, candidate |-> n] /\ vote' \in Ballot /\ term > 0
  BY MemoryTypes DEF SetVotedFor, Ballot, term
<1>5. Voting'
  BY <1>1, <1>2, <1>3, <1>4 DEF SetVotedFor, Voting, Resting, TermStored, SetVote
<1> QED
  BY <1>1, <1>2, <1>4, <1>5, BeginKeeps DEF SetVotedFor, StorageInv, PlanInv, StoredTypeOK

LEMMA IncrementTermKeeps ==
    ASSUME StorageInv, IncrementTerm
    PROVE  StorageInv'
<1>1. Resting /\ running  BY RestingWhenIdle DEF IncrementTerm
<1>2. memory' \in Memory /\ term' = term + 1 /\ memory'.voted_for = Self /\ last' = last
  <2>1. term + 1 \in 0 .. MaxTerm /\ memory \in Memory
    BY MemoryTypes DEF IncrementTerm, StorageInv, StoredTypeOK, term
  <2>2. memory' = [memory EXCEPT !.current_term = term + 1, !.voted_for = Self]
    BY DEF IncrementTerm, term
  <2>3. /\ memory' \in Memory /\ memory'.current_term = term + 1 /\ memory'.voted_for = Self
        /\ memory'.last_log_index = memory.last_log_index
    BY <2>1, <2>2, SelfAssumption DEF Memory
  <2> QED  BY <2>3 DEF term, last
<1>3. LogStored'
  BY <1>1, <1>2 DEF IncrementTerm, Resting, LogStored, Readable
<1>4. disk'.current_term < term'
  BY <1>1, <1>2, MemoryTypes DEF IncrementTerm, Resting, TermStored
<1>5. vote' = [term |-> term', candidate |-> Self] /\ vote' \in Ballot
  BY <1>2, MemoryTypes, SelfAssumption DEF IncrementTerm, Ballot, term
<1>6. todo' = <<RemoveVote, SetTerm(term'), SetVote(Self)>>
  BY <1>2, Parts DEF IncrementTerm, NewTerm, term
<1>7. Standing'
  BY <1>2, <1>3, <1>4, <1>5, <1>6 DEF Standing, RemoveVote, SetTerm, SetVote
<1> QED
  BY <1>1, <1>2, <1>5, <1>7, BeginKeeps DEF IncrementTerm, StorageInv, PlanInv, StoredTypeOK

LEMMA AppendLogKeeps ==
    ASSUME StorageInv, NEW e \in Entry, AppendLog(e)
    PROVE  StorageInv'
<1>1. Resting /\ running  BY RestingWhenIdle DEF AppendLog
<1>2. last + 1 \in Indices /\ Readable(last)  BY DEF AppendLog, last
<1>3. /\ memory' \in Memory /\ term' = term /\ memory'.voted_for = memory.voted_for
      /\ last' = last + 1
  BY <1>2, MemoryTypes DEF AppendLog, StorageInv, StoredTypeOK, Memory, Indices, term, last
<1>4. Len(saved) = last /\ disk.last_log_index = last  BY <1>1, <1>2 DEF Resting, LogStored
<1>5. \A k \in 1 .. last : disk.log[k] # None
  BY <1>2, <1>4, MemoryTypes DEF StorageInv, OnlyLastEntryMissing, Readable
<1>6. todo' = <<SetLast(last'), SetEntry(last', e)>>
  BY <1>3 DEF AppendLog, AppendEntry, last
<1>7. LogPlan'
  <2>1. TermStored'  BY <1>1, <1>3 DEF AppendLog, Resting, TermStored
  <2>2. /\ last' \in Indices /\ Len(saved') = last' - 1 /\ disk'.last_log_index = last' - 1
        /\ \A k \in 1 .. last' - 1 : disk'.log[k] # None
    BY <1>2, <1>3, <1>4, <1>5, MemoryTypes DEF AppendLog
  <2>3. vote' = None  BY <1>1 DEF AppendLog, Resting
  <2>4. Indices' = Indices /\ Entry' = Entry  BY DEF Indices, Entry
  <2> QED  BY <1>6, <2>1, <2>2, <2>3, <2>4 DEF LogPlan, SetLast, SetEntry
<1> QED
  BY <1>1, <1>3, <1>7, BeginKeeps DEF AppendLog, StorageInv, PlanInv, StoredTypeOK

LEMMA OverwriteLogKeeps ==
    ASSUME StorageInv, NEW e \in Entry, OverwriteLog(e)
    PROVE  StorageInv'
<1>1. Resting /\ running  BY RestingWhenIdle DEF OverwriteLog
<1>2. last > 0 /\ disk.log[last] # None  BY DEF OverwriteLog, last
<1>3. term' = term /\ last' = last  BY DEF OverwriteLog, term, last
<1>4. Len(saved) = last /\ disk.last_log_index = last
  BY <1>1, <1>2 DEF Resting, LogStored, Readable
<1>5. /\ saved' \in Seq(Entry) /\ Len(saved') = last - 1 /\ DOMAIN saved' = 1 .. last - 1
      /\ \A k \in 1 .. last - 1 : saved'[k] = saved[k]
  <2>1. saved' = SubSeq(saved, 1, last - 1) /\ saved \in Seq(Entry)
    BY DEF OverwriteLog, last, StorageInv, StoredTypeOK
  <2>2. /\ 1 \in Int /\ last - 1 \in Int /\ (last - 1) - 1 + 1 = last - 1
        /\ \A k \in 1 .. last - 1 : k \in 1 .. Len(saved) /\ 1 + k - 1 = k
    BY <1>2, <1>4, MemoryTypes
  <2>3. \A k \in 1 .. last - 1 : saved[k] \in Entry
    BY <2>1, <2>2, ElementOfSeq
  <2>4. /\ saved' \in Seq(Entry)
        /\ Len(saved') = IF 1 <= last - 1 THEN (last - 1) - 1 + 1 ELSE 0
        /\ \A k \in 1 .. (last - 1) - 1 + 1 : saved'[k] = saved[1 + k - 1]
    BY <2>1, <2>2, <2>3, SubSeqProperties
  <2>5. Len(saved') = last - 1  BY <1>2, <2>4, MemoryTypes
  <2> QED  BY <2>2, <2>4, <2>5, LenProperties
<1>6. SavedEntriesSurvive'
  <2>1. SUFFICES ASSUME NEW k \in DOMAIN saved'
                 PROVE  k <= disk'.last_log_index /\ disk'.log[k] = saved'[k]
    BY DEF SavedEntriesSurvive
  <2>2. k \in 1 .. last - 1 /\ k \in DOMAIN saved  BY <1>4, <1>5, MemoryTypes
  <2>3. k <= disk.last_log_index /\ disk.log[k] = saved[k]
    BY <2>2 DEF StorageInv, SavedEntriesSurvive
  <2> QED  BY <1>5, <2>2, <2>3 DEF OverwriteLog
<1>7. VoteBelongsToTerm' /\ TermOfVoteKept' /\ OnlyLastEntryMissing'
  BY DEF OverwriteLog, StorageInv, VoteBelongsToTerm, TermOfVoteKept, OnlyLastEntryMissing
<1>8. todo' = <<SetLast(last' - 1), SetLast(last'), SetEntry(last', e)>>
  BY <1>3, Parts DEF OverwriteLog, AppendEntry, last
<1>9. LogPlan'
  <2>1. TermStored'  BY <1>1, <1>3 DEF OverwriteLog, Resting, TermStored
  <2>2. /\ last' \in Indices /\ Len(saved') = last' - 1 /\ disk'.last_log_index = last'
        /\ \A k \in 1 .. last' - 1 : disk'.log[k] # None
    BY <1>2, <1>3, <1>4, <1>5, MemoryTypes
       DEF OverwriteLog, Indices, StorageInv, OnlyLastEntryMissing
  <2>3. vote' = None  BY <1>1 DEF OverwriteLog, Resting
  <2>4. Indices' = Indices /\ Entry' = Entry  BY DEF Indices, Entry
  <2> QED  BY <1>8, <2>1, <2>2, <2>3, <2>4 DEF LogPlan, SetLast, SetEntry
<1> QED
  BY <1>1, <1>5, <1>6, <1>7, <1>9 DEF OverwriteLog, StorageInv, PlanInv, StoredTypeOK

LEMMA StopKeeps ==
    ASSUME StorageInv, Stop
    PROVE  StorageInv'
BY BeginKeeps DEF Stop, StorageInv, PlanInv, StoredTypeOK

\* Storage::new reads what is there; an entry that is not is left out of saved.
LEMMA NewKeeps ==
    ASSUME StorageInv, New
    PROVE  StorageInv'
<1>1. /\ memory' \in Memory /\ memory'.current_term = disk.current_term
      /\ memory'.voted_for = disk.voted_for /\ memory'.last_log_index = disk.last_log_index
  BY DEF New, StorageInv, StoredTypeOK, Memory, Disk
<1>2. running' /\ todo' = <<>> /\ vote' = None /\ UNCHANGED <<disk, ballots>>
  BY DEF New, StorageInv, PlanInv
<1>3. CASE Readable(disk.last_log_index)
  <2> DEFINE n == disk.last_log_index
  <2>1. saved' = [k \in 1 .. n |-> disk.log[k]]  BY <1>3 DEF New, Log
  <2>2. \A k \in 1 .. n : disk.log[k] \in Entry
    BY <1>3, MemoryTypes DEF StorageInv, OnlyLastEntryMissing, Readable
  <2>3. n \in Nat  BY MemoryTypes
  <2>4. saved' \in [1 .. n -> Entry]  BY <2>1, <2>2
  <2>5. saved' \in Seq(Entry) /\ Len(saved') = n /\ DOMAIN saved' = 1 .. n
    BY <2>3, <2>4, SeqDef
  <2>6. SavedEntriesSurvive'
    BY <1>2, <2>1, <2>3, <2>5 DEF SavedEntriesSurvive
  <2>7. Resting'
    BY <1>1, <1>2, <2>5 DEF Resting, TermStored, LogStored, term, last
  <2> QED
    BY <1>1, <1>2, <2>5, <2>6, <2>7
       DEF StorageInv, PlanInv, StoredTypeOK, VoteBelongsToTerm, TermOfVoteKept, OnlyLastEntryMissing
<1>4. CASE ~Readable(disk.last_log_index)
  <2>1. saved' = saved  BY <1>4 DEF New
  <2>2. Resting'
    BY <1>1, <1>2, <1>4 DEF Resting, TermStored, LogStored, Readable, term, last
  <2> QED  BY <1>1, <1>2, <2>1, <2>2, BeginKeeps DEF StorageInv, PlanInv, StoredTypeOK
<1> QED  BY <1>3, <1>4

-----------------------------------------------------------------------------
(* The specification *)

LEMMA InitHolds == Init => StorageInv
<1> SUFFICES ASSUME Init PROVE StorageInv
  OBVIOUS
<1>1. StoredTypeOK
  BY BoundAssumption, EmptySeq DEF Init, StoredTypeOK, Memory, Disk
<1>2. Resting
  BY EmptySeq DEF Init, Resting, TermStored, LogStored, term, last
<1>3. VoteBelongsToTerm /\ TermOfVoteKept /\ OnlyLastEntryMissing
  BY DEF Init, VoteBelongsToTerm, TermOfVoteKept, OnlyLastEntryMissing
<1>4. SavedEntriesSurvive
  BY EmptySeq DEF Init, SavedEntriesSurvive
<1> QED  BY <1>1, <1>2, <1>3, <1>4 DEF StorageInv, PlanInv, Init

LEMMA NextKeeps == StorageInv /\ [Next]_vars => StorageInv'
<1> SUFFICES ASSUME StorageInv, [Next]_vars PROVE StorageInv'
  OBVIOUS
<1>1. ASSUME NEW t \in 1 .. MaxTerm, UpdateTerm(t) PROVE StorageInv'
  BY <1>1, UpdateTermKeeps
<1>2. ASSUME NEW n \in Node \ {Self}, SetVotedFor(n) PROVE StorageInv'
  BY <1>2, SetVotedForKeeps
<1>3. CASE IncrementTerm  BY <1>3, IncrementTermKeeps
<1>4. ASSUME NEW e \in Entry, AppendLog(e) \/ OverwriteLog(e) PROVE StorageInv'
  BY <1>4, AppendLogKeeps, OverwriteLogKeeps
<1>5. CASE Write  BY <1>5, WriteKeeps
<1>6. CASE Crash \/ QuotaExceeded  BY <1>6, StopKeeps DEF Crash, QuotaExceeded
<1>7. CASE New  BY <1>7, NewKeeps
<1>8. CASE UNCHANGED vars
  BY <1>8 DEF vars, StorageInv, StoredTypeOK, PlanInv, Resting, UpdatingTerm, Standing, Voting, LogPlan,
              TermStored, LogStored, Readable, term, last, VoteBelongsToTerm, TermOfVoteKept,
              OnlyLastEntryMissing, SavedEntriesSurvive
<1> QED  BY <1>1, <1>2, <1>3, <1>4, <1>5, <1>6, <1>7, <1>8 DEF Next

\* The vote in local storage was cast in the term that is stored with it: a
\* crash in update_term loses the vote rather than move it to another term.
THEOREM StoredVotesBelongToTerm == Spec => []VoteBelongsToTerm
<1>1. StorageInv => VoteBelongsToTerm  BY DEF StorageInv
<1> QED  BY <1>1, InitHolds, NextKeeps, PTL DEF Spec

\* After any crash or failed write, storage is in no term before one that its
\* window has voted in.
THEOREM TermsOfVotesAreKept == Spec => []TermOfVoteKept
<1>1. StorageInv => TermOfVoteKept  BY DEF StorageInv
<1> QED  BY <1>1, InitHolds, NextKeeps, PTL DEF Spec

\* append_log and overwrite_log, interrupted anywhere, leave at most the last
\* entry missing.
THEOREM OtherEntriesAreThere == Spec => []OnlyLastEntryMissing
<1>1. StorageInv => OnlyLastEntryMissing  BY DEF StorageInv
<1> QED  BY <1>1, InitHolds, NextKeeps, PTL DEF Spec

\* What append_log has stored is there until overwrite_log replaces it.
THEOREM StoredEntriesSurvive == Spec => []SavedEntriesSurvive
<1>1. StorageInv => SavedEntriesSurvive  BY DEF StorageInv
<1> QED  BY <1>1, InitHolds, NextKeeps, PTL DEF Spec

=============================================================================
