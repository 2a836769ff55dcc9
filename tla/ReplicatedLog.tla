---------------------------- MODULE ReplicatedLog ----------------------------
(***************************************************************************)
(* What wraft promises its users (README.md:27-32), whatever the windows do *)
(* to keep it: one sequence of commands grows, every window's state machine *)
(* has received a prefix of it, and only commands in it are acknowledged.   *)
(***************************************************************************)
EXTENDS Naturals, Sequences

CONSTANTS Server, Cmd

VARIABLES
    chosen,     \* the commands in their one order
    delivered,  \* how many of them each window's state machine has received
    acked       \* the commands whose issuer was told Ack

Range(s) == {s[k] : k \in DOMAIN s}

Init ==
    /\ chosen = <<>>
    /\ delivered = [p \in Server |-> 0]
    /\ acked = {}

\* One window learns of commands, some of them perhaps new to all windows,
\* and some callers learn that theirs are chosen.
Advance(p) ==
    LET new == SubSeq(chosen', Len(chosen) + 1, Len(chosen')) IN
    /\ chosen' = chosen \o new
    /\ delivered'[p] \in delivered[p] .. Len(chosen')
    /\ new # <<>> => delivered'[p] = Len(chosen')
    /\ delivered' = [delivered EXCEPT ![p] = delivered'[p]]
    /\ acked \subseteq acked' /\ acked' \subseteq Range(chosen')

\* A window is closed: its state machine will be built anew.
Close(p) ==
    /\ delivered' = [delivered EXCEPT ![p] = 0]
    /\ UNCHANGED <<chosen, acked>>

Next == \E p \in Server : Advance(p) \/ Close(p)

Spec == Init /\ [][Next]_<<chosen, delivered, acked>>

=============================================================================
