------------------------------- MODULE MCComm -------------------------------
(* Instances of Comm for TLC. *)
EXTENDS Comm

\* All settings, and the synchronised build that sends.
AllOptions == [nosend : BOOLEAN, unsync : BOOLEAN]
Synced == {[nosend |-> FALSE, unsync |-> FALSE]}

\* Visions: nothing in the process reads them back, so one is enough.
AllRunning == [i \in Agents |-> "RUNNING"]
OneVision  == {AllRunning}

\* A period of 12 units, travel time 1, smallest correction 1.  An arrival right
\* with our own frame, and one 9 units after it: 8, 4, 2 or 0 units late,
\* according to the slots the receive thread finds.
OneArrival == {0}
Arrivals == {9}
=============================================================================
