----------------------------- MODULE AgentTable -----------------------------
(***************************************************************************)
(* The agent table of the comm process (src/src/comm/comm.h) and the pure  *)
(* arithmetic comm.cpp does on it: the membership automaton of one peer,   *)
(* the frame-counter bookkeeping and the RA-TDMA slot arithmetic.          *)
(* Integers are C ints unless a modulus is written out.                    *)
(***************************************************************************)
EXTENDS Integers, FiniteSets, CInt

CONSTANTS
  N,                 \* MAX_AGENTS
  MaxRemoveTicks,    \* MAX_REMOVE_TICKS
  CounterMod,        \* 2^32 for the unsigned frame counter
  TTUP,              \* TTUP_US, the nominal period
  CommDelay,         \* COMM_DELAY_US, the assumed travel time
  MinUpdateDelay     \* MIN_UPDATE_DELAY_US, corrections below are ignored

\* comm.h gives 8 agents and 10 ticks; every period in use is positive.
ASSUME TableConstants ==
  /\ N \in Nat \ {0}
  /\ MaxRemoveTicks \in Nat \ {0}
  /\ CounterMod \in Nat \ {0}
  /\ TTUP \in Nat \ {0}
  /\ CommDelay \in Nat
  /\ MinUpdateDelay \in Nat

Agents == 0 .. N - 1

States == {"NOT_RUNNING", "RUNNING", "INSERT", "REMOVE"}

(***************************************************************************)
(* update_stateTable, one peer: `heard' is the received flag.  The two     *)
(* inner loops over the other agents' tables only break out of themselves, *)
(* so no vision of another agent reaches the decision.                     *)
(***************************************************************************)
NextState(s, heard, ticks) ==
  CASE s = "RUNNING"     -> IF heard THEN "RUNNING" ELSE "REMOVE"
    [] s = "NOT_RUNNING" -> IF heard THEN "INSERT" ELSE "NOT_RUNNING"
    [] s = "INSERT"      -> IF heard THEN "RUNNING" ELSE "NOT_RUNNING"
    [] s = "REMOVE"      -> IF heard THEN "RUNNING"
                            ELSE IF ticks + 1 >= MaxRemoveTicks
                                 THEN "NOT_RUNNING" ELSE "REMOVE"

\* Faulty variants of NextTicks: the counter survives a frame, is not cleared
\* at the threshold, or never moves.
TicksKept(s, heard, ticks) ==
  IF s # "REMOVE" \/ heard THEN ticks
  ELSE IF ticks + 1 >= MaxRemoveTicks THEN 0 ELSE ticks + 1
TicksRunOver(s, heard, ticks) ==
  IF s # "REMOVE" THEN ticks ELSE IF heard THEN 0 ELSE ticks + 1
TicksFrozen(s, heard, ticks) == IF s = "REMOVE" /\ heard THEN 0 ELSE ticks

NextTicks(s, heard, ticks) ==
  IF s # "REMOVE" THEN ticks
  ELSE IF heard \/ ticks + 1 >= MaxRemoveTicks THEN 0 ELSE ticks + 1

\* The agents that own a slot of the round.
OnRoster(s) == s \in {"RUNNING", "REMOVE"}

Roster(state) == {i \in Agents : OnRoster(state[i])}

\* lostPackets is only written when the counter is not the successor; the
\* unsigned difference is stored in an int, so its top half reads negative.
AsInt(u) == IF 2 * u >= CounterMod /\ CounterMod > 1 THEN u - CounterMod ELSE u

LostAfter(lost, last, counter) ==
  IF (last + 1) % CounterMod # counter
  THEN AsInt((counter - (last + 1)) % CounterMod) ELSE lost

\* When, after its own frame, the agent in slot `mine' expects slot `theirs'.
ExpectedDiff(theirs, mine, running) ==
  LET d == CDiv((theirs - mine) * TTUP, running)
  IN  IF d < 0 THEN d + TTUP ELSE d

\* Faulty variant: the limit forgets its third.
MaxDeltaDoubled(running) == (TTUP \div running) * 2

MaxDelta(running) == ((TTUP \div running) * 2) \div 3
=============================================================================
