------------------------------ MODULE MCRtDB2 ------------------------------
(* Instances of RtDB2 for TLC: two robots, a key "ball" that is shared, a    *)
(* second shared key "pose" and a local key "log".  A millisecond has two    *)
(* microseconds and a second two milliseconds, so that both are cut and      *)
(* carried within a few ticks.                                               *)
EXTENDS RtDB2

EveryBatch == [k \in Keys |-> 1]
NoPhase    == [k \in Keys |-> 0]
\* "ball" in every second batch, "pose" in every third from the second on.
TwoThree   == [k \in Keys |-> IF k = "pose" THEN 3 ELSE 2]
LatePose   == [k \in Keys |-> IF k = "pose" THEN 1 ELSE 0]

\* The second clock is ahead by a second, a millisecond and a microsecond.
Skewed == [h \in Hosts |-> IF h = 0 THEN 0 ELSE 7]

\* How many values robot 0 puts; robot 1 puts one, or none.
TwoPuts == [h \in Hosts |-> IF h = 0 THEN 2 ELSE 0]
BothPut == [h \in Hosts |-> IF h = 0 THEN 2 ELSE 1]
OneEach == [h \in Hosts |-> 1]
=============================================================================
