--------------------------- MODULE MCRaftWorker ---------------------------
(* Instances of RaftWorker for the safety runs of TLC. *)
EXTENDS RaftProperties, TLC

\* Servers and commands are interchangeable: no action and no property names
\* one of them.
Symmetry == Permutations(Server) \cup Permutations(Cmd)

\* A message that changes nothing but rpcs, now and in every later state: a
\* vote request that its receiver cannot grant any more or has granted to a
\* caller that is gone, or a message to a closed window whose loss nobody sees.
Spent(m) ==
    \/ /\ m.kind = "RequestVote"
       /\ \/ m.term < current_term[m.to]
          \/ m.term = current_term[m.to] /\ voted_for[m.to] \notin {None, m.from}
          \/ m.term = current_term[m.to] /\ voted_for[m.to] = m.from /\ ~m.live
          \/ ~Running(m.to)
    \/ m.kind = "AppendEntries" /\ ~m.live /\ ~Running(m.to)

\* States that differ in spent messages only have the same futures.
ElectionView == <<persistentVars, role, leader_id, applyVars, votes, leaderVars, links, userVars,
                  faults, historyVars, {m \in rpcs : ~Spent(m)}>>

\* No action reads ballots and elected: a run that checks no property of them
\* may leave them out.
ReplicationView == <<persistentVars, role, leader_id, applyVars, votes, leaderVars, links, userVars,
                     faults, {m \in rpcs : ~Spent(m)}>>

\* All commands are issued at the same window, which leads, follows or neither.
OneIssuerInit == Init /\ \A c, d \in Cmd : origin[c] = origin[d]
OneIssuerSpec == OneIssuerInit /\ [][Next]_vars

=============================================================================
