----------------------------- MODULE Membership -----------------------------
(***************************************************************************)
(* What the state table of comm promises its user: a roster that holds the *)
(* local agent for ever, takes a peer in only on evidence that it sends,   *)
(* and lets a peer go when, and only when, more than Grace consecutive     *)
(* rounds brought no such evidence.                                        *)
(***************************************************************************)
EXTENDS Naturals

CONSTANTS Agents, Me, Grace

VARIABLES
  roster,    \* the agents that own a slot
  silence    \* per peer, consecutive rounds without a frame, up to Grace + 1

vars == <<roster, silence>>

Init ==
  /\ roster = {Me}
  /\ silence = [i \in Agents |-> 0]

\* One round looks at peer i and finds it heard or not.
Observe(i, heard) ==
  /\ silence' = [silence EXCEPT ![i] =
                   IF heard THEN 0 ELSE IF @ > Grace THEN @ ELSE @ + 1]
  /\ \/ /\ i \in roster => silence'[i] <= Grace
        /\ UNCHANGED roster
     \/ /\ heard
        /\ roster' = roster \union {i}
     \/ /\ silence'[i] > Grace
        /\ roster' = roster \ {i}

Next == \E i \in Agents \ {Me}, heard \in BOOLEAN : Observe(i, heard)

Spec == Init /\ [][Next]_vars
=============================================================================
