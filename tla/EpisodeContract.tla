--------------------------- MODULE EpisodeContract ---------------------------
(***************************************************************************)
(* What an episode promises its client, whatever the router does: a set of *)
(* pending nets, of which only releasing the selected one removes a net; a *)
(* budget every step spends one unit of; an end as soon as a step leaves   *)
(* nothing pending or nothing of the budget.                               *)
(***************************************************************************)
EXTENDS Integers

CONSTANTS Net, NoNet,
          Budget,     \* the steps an episode may take
          Reselect    \* selecting a released net makes it pending again

VARIABLES phase, pending, selected, used

vars == <<phase, pending, selected, used>>

Init ==
    /\ phase = "idle" /\ pending \in SUBSET Net
    /\ selected = NoNet /\ used = 0

\* A new episode, over any set of nets.
Begin ==
    /\ pending' \in SUBSET Net /\ selected' = NoNet /\ used' = 0
    /\ phase' = "running"

\* The episode cannot be set up: the client has none.
Refuse ==
    /\ selected' = NoNet /\ used' = 0 /\ phase' = "idle"
    /\ UNCHANGED pending

\* Another set of nets for the next episode.
Retarget ==
    /\ phase # "running" /\ phase' = "idle"
    /\ pending' \in SUBSET Net
    /\ UNCHANGED <<selected, used>>

Pick ==
    /\ selected = NoNet /\ selected' \in Net
    /\ pending' = pending \/ (Reselect /\ pending' = pending \cup {selected'})

Release ==
    /\ selected # NoNet /\ selected' = NoNet
    /\ pending' = pending \ {selected}

Work == UNCHANGED <<pending, selected>>

(* The episode goes on only with something left to do.                     *)
GoesOn == used' < Budget /\ (pending' # {} \/ pending = {})

Spend ==
    /\ phase = "running"
    /\ used' = used + 1
    /\ Pick \/ Release \/ Work
    /\ phase' = "ended" \/ (phase' = "running" /\ GoesOn)

\* The last step may go back to an earlier moment, with more nets pending.
Rewind ==
    /\ phase = "running" /\ phase' = "ended"
    /\ used' \in 0..used /\ selected' \in Net \cup {NoNet}
    /\ pending' \in SUBSET Net /\ (Reselect \/ pending \subseteq pending')

Next == Begin \/ Refuse \/ Retarget \/ Spend \/ Rewind

Spec == Init /\ [][Next]_vars
=============================================================================
