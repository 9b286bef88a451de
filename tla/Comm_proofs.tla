---------------------------- MODULE Comm_proofs ----------------------------
(***************************************************************************)
(* What holds of the comm process for every team size, removal threshold,  *)
(* period and set of inputs.  The state of one round is related across the *)
(* loops of the main thread; nothing is assumed about when the receive     *)
(* thread, the signals or the frames come.                                 *)
(***************************************************************************)
EXTENDS Comm, TLAPS

\* NextState stays in the four states.
LEMMA NextStateType ==
  ASSUME NEW s \in States, NEW heard_ \in BOOLEAN, NEW ticks \in Nat
  PROVE  NextState(s, heard_, ticks) \in States
BY DEF NextState, States

\* The removal counter stays below its threshold.
LEMMA NextTicksType ==
  ASSUME NEW s \in States, NEW heard_ \in BOOLEAN,
         NEW ticks \in 0 .. MaxRemoveTicks - 1
  PROVE  NextTicks(s, heard_, ticks) \in 0 .. MaxRemoveTicks - 1
BY TableConstants DEF NextTicks, States

\* The loss figure is an integer, whatever the two counters.
LEMMA LostAfterType ==
  ASSUME NEW lost \in Int, NEW last \in Int, NEW counter \in Int
  PROVE  LostAfter(lost, last, counter) \in Int
<1>1. (counter - (last + 1)) % CounterMod \in Int
  BY TableConstants
<1> QED
  BY <1>1, TableConstants DEF LostAfter, AsInt

\* The slot arithmetic is total as long as the divisor is positive.
LEMMA ExpectedDiffType ==
  ASSUME NEW theirs \in Int, NEW mine \in Int, NEW running \in Nat \ {0}
  PROVE  ExpectedDiff(theirs, mine, running) \in Int
<1> DEFINE a == (theirs - mine) * TTUP
<1>1. a \in Int /\ -a \in Int
  BY TableConstants
<1>2. CDiv(a, running) \in Int
  <2> HIDE DEF a
  <2> QED BY <1>1 DEF CDiv
<1> QED
  BY <1>2, TableConstants DEF ExpectedDiff

LEMMA MaxDeltaType ==
  ASSUME NEW running \in Nat \ {0}
  PROVE  MaxDelta(running) \in Nat
<1>1. TTUP \div running \in Nat
  BY TableConstants
<1> QED
  BY <1>1 DEF MaxDelta

LEMMA CounterType ==
  ASSUME NEW c \in Nat
  PROVE  c % CounterMod \in 0 .. CounterMod - 1
BY TableConstants
-----------------------------------------------------------------------------
(***************************************************************************)
(* Who writes what.  Each group of variables is left alone by every step   *)
(* but those of the few actions named with it.                             *)
(***************************************************************************)
LEMMA TableFrame ==
  [Next]_vars => \/ UNCHANGED tableVars
                 \/ UpdateAgent \/ UpdateMe \/ Renumber
BY DEF Next, Main, Receiver, Arrival, vars, LeaveLoop, Sleep, Postpone,
       StartRound, CloseRoster, GetBatch, Send, Reset, EndRound, Finish,
       RecvTop, RecvWoken, Store, Mark, Measure, TakeSlot, Expect, Adjust, Receive, Alarm,
       Interrupt, Stopped

LEMMA LinkFrame ==
  [Next]_vars => \/ UNCHANGED <<linkVars, stateTable>>
                 \/ Renumber \/ Arrival
BY DEF Next, Main, Receiver, vars, LeaveLoop, Sleep, Postpone,
       StartRound, UpdateAgent, UpdateMe, CloseRoster, GetBatch, Send, Reset,
       EndRound, Finish, RecvTop, RecvWoken, Store, Mark, Measure, TakeSlot, Expect, Adjust,
       Alarm, Interrupt, Stopped

LEMMA RoundFrame ==
  [Next]_vars => UNCHANGED roundVars \/ CloseRoster
BY DEF Next, Main, Receiver, Arrival, vars, LeaveLoop, Sleep, Postpone,
       StartRound, UpdateAgent, UpdateMe, Renumber, GetBatch, Send, Reset,
       EndRound, Finish, RecvTop, RecvWoken, Store, Mark, Measure, TakeSlot, Expect, Adjust,
       Receive, Alarm, Interrupt, Stopped

LEMMA FlagFrame ==
  [Next]_vars => \/ UNCHANGED <<received, heard>>
                 \/ UpdateAgent \/ Reset \/ Mark
                 \/ \E o \in StoreOutcomes : Store(o)
BY DEF Next, Main, Receiver, Arrival, vars, LeaveLoop, Sleep, Postpone,
       StartRound, UpdateMe, Renumber, CloseRoster, GetBatch, Send,
       EndRound, Finish, RecvTop, RecvWoken, Measure, TakeSlot, Expect, Adjust,
       Receive, Alarm, Interrupt, Stopped

LEMMA TimeFrame ==
  [Next]_vars => \/ UNCHANGED <<delay, timer, end, itimer, options>>
                 \/ Postpone \/ StartRound \/ Adjust \/ Alarm \/ Interrupt
BY DEF Next, Main, Receiver, Arrival, vars, LeaveLoop, Sleep,
       UpdateAgent, UpdateMe, Renumber, CloseRoster, GetBatch, Send, Reset,
       EndRound, Finish, RecvTop, RecvWoken, Store, Mark, Measure, TakeSlot,
       Expect, Receive, Stopped

\* The main thread's place and counters belong to it, but for the abort.
LEMMA PlaceFrame ==
  [Next]_vars => UNCHANGED mainVars \/ Main \/ Interrupt
BY DEF Next, Receiver, Arrival, vars, mainVars, RecvTop, RecvWoken, Store, Mark,
       Measure, TakeSlot, Expect, Adjust, Receive, Alarm, Stopped
-----------------------------------------------------------------------------
(***************************************************************************)
(* Types.  That the divisor is positive is part of them; for that the slot *)
(* counter of a renumbering must be positive once it has passed the local  *)
(* agent, which is always RUNNING.                                         *)
(***************************************************************************)
SlotCounter ==
  /\ state[Me] = "RUNNING"
  /\ mpc = "renumber" => mj <= mi /\ (Me < mi => mj >= 1)

TypeInv == TypeOK /\ SlotCounter

LEMMA InitType == Init => TypeInv
BY TableConstants, CommConstants
   DEF Init, TypeInv, TypeOK, TableOK, LinkOK, FlagOK, RoundOK, TimeOK, PlaceOK,
       SlotCounter, States, Agents, NoSync

LEMMA TableType == TypeInv /\ [Next]_vars => TableOK' /\ state'[Me] = "RUNNING"
<1> SUFFICES ASSUME TypeInv, [Next]_vars
             PROVE  TableOK' /\ state'[Me] = "RUNNING"
  OBVIOUS
<1>0. TableOK /\ mi \in 0 .. N /\ mj \in 0 .. N /\ Me \in Agents
      /\ state[Me] = "RUNNING" /\ (mpc = "renumber" => mj <= mi)
      /\ N \in Nat \ {0} /\ received \in [Agents -> BOOLEAN]
  BY TableConstants, CommConstants
     DEF TypeInv, TypeOK, PlaceOK, FlagOK, SlotCounter
<1>1. CASE UNCHANGED tableVars
  BY <1>0, <1>1 DEF tableVars, TableOK
<1>2. CASE UpdateAgent /\ mi = Me
  BY <1>0, <1>2 DEF UpdateAgent, TableOK
<1>3. CASE UpdateAgent /\ mi # Me
  <2>1. mi \in Agents
    BY <1>0, <1>3 DEF UpdateAgent, Agents
  <2>2. /\ NextState(state[mi], received[mi], removeCounter[mi]) \in States
        /\ NextTicks(state[mi], received[mi], removeCounter[mi])
             \in 0 .. MaxRemoveTicks - 1
    BY <1>0, <2>1, TableConstants, NextStateType, NextTicksType DEF TableOK
  <2>3. (IF received[mi] THEN 0
         ELSE IF silence[mi] > MaxRemoveTicks THEN silence[mi]
              ELSE silence[mi] + 1) \in 0 .. MaxRemoveTicks + 1
    BY <1>0, <2>1, TableConstants DEF TableOK
  <2> QED
    BY <1>0, <1>3, <2>1, <2>2, <2>3 DEF UpdateAgent, TableOK
<1>4. CASE UpdateMe
  BY <1>0, <1>4 DEF UpdateMe, TableOK, States
<1>5. CASE Renumber
  <2>1. mj \in 0 .. N - 1
    BY <1>0, <1>5 DEF Renumber
  <2> QED
    BY <1>0, <1>5, <2>1 DEF Renumber, TableOK
<1> QED
  BY <1>1, <1>2, <1>3, <1>4, <1>5, TableFrame

LEMMA LinkType == TypeInv /\ [Next]_vars => LinkOK'
<1> SUFFICES ASSUME TypeInv, [Next]_vars PROVE LinkOK'
  OBVIOUS
<1>0. LinkOK /\ state \in [Agents -> States] /\ mi \in 0 .. N /\ Me \in Agents
  BY CommConstants DEF TypeInv, TypeOK, TableOK, PlaceOK
<1>1. CASE UNCHANGED <<linkVars, stateTable>>
  BY <1>0, <1>1 DEF linkVars, LinkOK
<1>2. CASE Renumber
  <2>1. mi \in Agents
    BY <1>0, <1>2, TableConstants DEF Renumber, Agents
  <2>2. stateTable' \in [Agents -> [Agents -> States]]
    BY <1>0, <1>2, <2>1 DEF Renumber, LinkOK
  <2> QED
    BY <1>0, <1>2, <2>2 DEF Renumber, LinkOK, linkVars
<1>3. CASE Arrival
  <2> PICK a \in Agents, c \in Counters, v \in Visions : Receive(a, c, v)
    BY <1>3 DEF Arrival
  <2>1. CASE a = Me
    BY <1>0, <2>1 DEF Receive, LinkOK, linkVars
  <2>2. CASE a # Me
    <3>1. c \in 0 .. CounterMod - 1 /\ v \in [Agents -> States]
      BY CommConstants
    <3>2. LostAfter(lostPackets[a], lastFrameCounter[a], c) \in Int
      <4>1. lostPackets[a] \in Int /\ lastFrameCounter[a] \in Int /\ c \in Int
        BY <1>0, <3>1, TableConstants DEF LinkOK
      <4> QED
        BY <4>1, LostAfterType
    <3> QED
      BY <1>0, <2>2, <3>1, <3>2 DEF Receive, LinkOK
  <2> QED
    BY <2>1, <2>2
<1> QED
  BY <1>1, <1>2, <1>3, LinkFrame

LEMMA RoundType == TypeInv /\ [Next]_vars => RoundOK'
<1> SUFFICES ASSUME TypeInv, [Next]_vars PROVE RoundOK'
  OBVIOUS
<1>0. RoundOK /\ mj \in 0 .. N /\ Me \in 0 .. N - 1 /\ N \in Nat
      /\ (mpc = "renumber" => (Me < mi => mj >= 1))
  BY TableConstants, CommConstants
     DEF TypeInv, TypeOK, PlaceOK, SlotCounter, Agents
<1>1. CASE UNCHANGED roundVars
  BY <1>0, <1>1 DEF roundVars, RoundOK
<1>2. CASE CloseRoster
  <2>1. mj \in 1 .. N /\ mj \in Nat \ {0}
    BY <1>0, <1>2 DEF CloseRoster
  <2>2. MaxDelta(mj) \in Nat
    BY <2>1, MaxDeltaType
  <2>3. (frameCounter + 1) % CounterMod \in 0 .. CounterMod - 1
    <3>1. frameCounter + 1 \in Nat
      BY <1>0, TableConstants DEF RoundOK
    <3> QED
      BY <3>1, CounterType
  <2> QED
    BY <1>2, <2>1, <2>2, <2>3 DEF CloseRoster, RoundOK
<1> QED
  BY <1>1, <1>2, RoundFrame

LEMMA FlagType == TypeInv /\ [Next]_vars => FlagOK'
<1> SUFFICES ASSUME TypeInv, [Next]_vars PROVE FlagOK'
  OBVIOUS
<1>0. FlagOK /\ from \in Agents /\ Me \in Agents
  BY CommConstants DEF TypeInv, TypeOK, PlaceOK
<1>1. CASE UNCHANGED <<received, heard>>
  BY <1>0, <1>1 DEF FlagOK
<1>2. CASE UpdateAgent
  BY <1>0, <1>2 DEF UpdateAgent, FlagOK
<1>3. CASE Reset
  BY <1>0, <1>3 DEF Reset, FlagOK
<1>4. CASE Mark
  BY <1>0, <1>4 DEF Mark, FlagOK
<1>5. CASE \E o \in StoreOutcomes : Store(o)
  BY <1>0, <1>5 DEF Store, FlagOK
<1> QED
  BY <1>1, <1>2, <1>3, <1>4, <1>5, FlagFrame

LEMMA TimeType == TypeInv /\ [Next]_vars => TimeOK'
<1> SUFFICES ASSUME TypeInv, [Next]_vars PROVE TimeOK'
  OBVIOUS
<1>0. TimeOK /\ sync.delta \in Int /\ sync.expected \in Int
      /\ TTUP \in Int /\ CommDelay \in Int /\ MinUpdateDelay \in Nat
      /\ MaxInterrupts \in 0 .. 3
  BY TableConstants, CommConstants DEF TypeInv, TypeOK, PlaceOK
<1>1. CASE UNCHANGED <<delay, timer, end, itimer, options>>
  BY <1>0, <1>1 DEF TimeOK
<1>2. CASE Postpone
  BY <1>0, <1>2 DEF Postpone, TimeOK
<1>3. CASE StartRound
  BY <1>0, <1>3 DEF StartRound, TimeOK
<1>4. CASE Adjust
  BY <1>0, <1>4 DEF Adjust, TimeOK
<1>5. CASE Alarm
  BY <1>0, <1>5 DEF Alarm, TimeOK
<1>6. CASE Interrupt
  BY <1>0, <1>6 DEF Interrupt, TimeOK
<1> QED
  BY <1>1, <1>2, <1>3, <1>4, <1>5, <1>6, TimeFrame

LEMMA MainPlaceType ==
  TypeInv /\ [Next]_vars =>
    /\ mpc' \in {"top", "wake", "update", "renumber", "batch", "send", "reset",
                 "join", "finished", "aborted"}
    /\ mi' \in 0 .. N /\ mj' \in 0 .. N
    /\ mpc' = "renumber" => mj' <= mi' /\ (Me < mi' => mj' >= 1)
<1> SUFFICES ASSUME TypeInv, [Next]_vars
             PROVE  /\ mpc' \in {"top", "wake", "update", "renumber", "batch",
                                 "send", "reset", "join", "finished", "aborted"}
                    /\ mi' \in 0 .. N /\ mj' \in 0 .. N
                    /\ mpc' = "renumber" =>
                         mj' <= mi' /\ (Me < mi' => mj' >= 1)
  OBVIOUS
<1>0. /\ mpc \in {"top", "wake", "update", "renumber", "batch", "send", "reset",
                  "join", "finished", "aborted"}
      /\ mi \in 0 .. N /\ mj \in 0 .. N /\ N \in Nat /\ Me \in 0 .. N - 1
      /\ mpc = "renumber" => mj <= mi /\ (Me < mi => mj >= 1)
      /\ state[Me] = "RUNNING"
  BY TableConstants, CommConstants
     DEF TypeInv, TypeOK, PlaceOK, SlotCounter, Agents
<1>1. CASE UNCHANGED mainVars
  BY <1>0, <1>1 DEF mainVars
<1>2. CASE Renumber
  <2>1. OnRoster(state[mi]) => mj' = mj + 1
    BY <1>2 DEF Renumber
  <2>2. ~OnRoster(state[mi]) => mj' = mj /\ mi # Me
    BY <1>0, <1>2 DEF Renumber, OnRoster
  <2>3. mpc = "renumber" /\ mpc' = mpc /\ mi < N /\ mi' = mi + 1
    BY <1>2 DEF Renumber
  <2> QED
    BY <1>0, <2>1, <2>2, <2>3
<1>3. CASE UpdateAgent \/ UpdateMe \/ Reset \/ StartRound \/ Send
  BY <1>0, <1>3 DEF UpdateAgent, UpdateMe, Reset, StartRound, Send
<1>4. CASE \/ LeaveLoop \/ Sleep \/ Postpone \/ CloseRoster \/ EndRound \/ Finish
           \/ \E o \in BatchOutcomes : GetBatch(o)
  BY <1>0, <1>4 DEF LeaveLoop, Sleep, Postpone, CloseRoster, EndRound, Finish,
                    GetBatch
<1>5. CASE Interrupt
  BY <1>0, <1>5 DEF Interrupt
<1> QED
  BY <1>1, <1>2, <1>3, <1>4, <1>5, PlaceFrame DEF Main

\* The receive thread's locals.
LEMMA RecvPlaceType ==
  TypeInv /\ [Next]_vars =>
    /\ rpc' \in {"top", "recv", "store", "mark", "measure", "slot", "expect", "adjust",
                 "exited"}
    /\ from' \in Agents
    /\ sync' \in [theirs : 0 .. N - 1, mine : 0 .. N - 1, expected : Int, delta : Int]
<1> DEFINE Places == {"top", "recv", "store", "mark", "measure", "slot", "expect",
                      "adjust", "exited"}
           Locals == [theirs : 0 .. N - 1, mine : 0 .. N - 1, expected : Int, delta : Int]
<1> SUFFICES ASSUME TypeInv, [Next]_vars
             PROVE  rpc' \in Places /\ from' \in Agents /\ sync' \in Locals
  OBVIOUS
<1>0. rpc \in Places /\ from \in Agents /\ sync \in Locals /\ Me \in Agents
  BY CommConstants DEF TypeInv, TypeOK, PlaceOK
<1>1. CASE UNCHANGED recvVars
  BY <1>0, <1>1 DEF recvVars
<1>2. CASE RecvTop \/ RecvWoken \/ Mark
  BY <1>0, <1>2 DEF RecvTop, RecvWoken, Mark
<1>3. CASE \E o \in StoreOutcomes : Store(o)
  BY <1>0, <1>3 DEF Store
<1>4. CASE Arrival
  BY <1>0, <1>4 DEF Arrival, Receive
<1>5. CASE \E d \in SendToReceive : Measure(d)
  <2> PICK d \in SendToReceive : Measure(d)
    BY <1>5
  <2>1. dynamicID[from] \in 0 .. N - 1 /\ d \in Int /\ CommDelay \in Int
    BY <1>0, TableConstants, CommConstants DEF TypeInv, TypeOK, TableOK
  <2>2. d - CommDelay \in Int
    BY <2>1
  <2> QED
    BY <1>0, <2>1, <2>2 DEF Measure
<1>6. CASE TakeSlot
  <2>1. dynamicID[Me] \in 0 .. N - 1
    BY <1>0 DEF TypeInv, TypeOK, TableOK
  <2> QED
    BY <1>0, <1>6, <2>1 DEF TakeSlot
<1>7. CASE Expect
  <2> DEFINE e == ExpectedDiff(sync.theirs, sync.mine, RUNNING_AGENTS)
  <2>1. sync.theirs \in Int /\ sync.mine \in Int /\ sync.delta \in Int
        /\ RUNNING_AGENTS \in Nat \ {0}
    BY <1>0, TableConstants DEF TypeInv, TypeOK, RoundOK
  <2>2. e \in Int
    BY <2>1, ExpectedDiffType
  <2>3. sync' = [sync EXCEPT !.expected = e, !.delta = @ - e] /\ rpc' = "adjust"
        /\ from' = from
    BY <1>7 DEF Expect
  <2> HIDE DEF e
  <2>4. sync.delta - e \in Int
    BY <2>1, <2>2
  <2> QED
    BY <1>0, <2>2, <2>3, <2>4
<1>8. CASE Adjust
  <2>1. sync' = NoSync /\ 0 \in 0 .. N - 1
    BY <1>8, TableConstants DEF Adjust
  <2> QED
    BY <1>0, <1>8, <2>1 DEF Adjust, NoSync
<1>9. CASE Main \/ Alarm \/ Interrupt \/ UNCHANGED vars
  BY <1>9, <1>1 DEF Main, LeaveLoop, Sleep, Postpone, StartRound, UpdateAgent,
       UpdateMe, Renumber, CloseRoster, GetBatch, Send, Reset, EndRound, Finish,
       Alarm, Interrupt, vars
<1> QED
  BY <1>2, <1>3, <1>4, <1>5, <1>6, <1>7, <1>8, <1>9 DEF Next, Receiver, Stopped

LEMMA TypeStep == TypeInv /\ [Next]_vars => TypeInv'
BY TableType, LinkType, RoundType, FlagType, TimeType, MainPlaceType,
   RecvPlaceType DEF TypeInv, TypeOK, PlaceOK, SlotCounter

LEMMA TypeInvHolds == Spec => []TypeInv
BY InitType, TypeStep, PTL DEF Spec

\* Every variable keeps its type, and the divisor of the slot arithmetic, which
\* both threads use, is never zero (comm.cpp:102, 575-577).
THEOREM TypeCorrect == Spec => []TypeOK
<1>1. TypeInv => TypeOK
  BY DEF TypeInv
<1> QED
  BY <1>1, TypeInvHolds, PTL
-----------------------------------------------------------------------------
(***************************************************************************)
(* The grace period.                                                       *)
(***************************************************************************)
LEMMA GraceStep == TypeInv /\ GraceIsWhole /\ [Next]_vars => GraceIsWhole'
<1> SUFFICES ASSUME TypeInv, GraceIsWhole, [Next]_vars, NEW p \in Peers
             PROVE  /\ state'[p] = "RUNNING" => silence'[p] = 0
                    /\ state'[p] = "REMOVE" => silence'[p] = removeCounter'[p] + 1
                    /\ state'[p] # "REMOVE" => removeCounter'[p] = 0
  BY DEF GraceIsWhole, Peers
<1>0. /\ p \in Agents /\ p # Me /\ TableOK
      /\ state[p] = "RUNNING" => silence[p] = 0
      /\ state[p] = "REMOVE" => silence[p] = removeCounter[p] + 1
      /\ state[p] # "REMOVE" => removeCounter[p] = 0
  BY DEF TypeInv, TypeOK, GraceIsWhole, Peers
<1>1. CASE UNCHANGED <<state[p], silence[p], removeCounter[p]>>
  BY <1>0, <1>1
<1>2. CASE UpdateAgent /\ mi = p
  <2>1. /\ state'[p] = NextState(state[p], received[p], removeCounter[p])
        /\ removeCounter'[p] = NextTicks(state[p], received[p], removeCounter[p])
        /\ silence'[p] = IF received[p] THEN 0
                         ELSE IF silence[p] > MaxRemoveTicks THEN silence[p]
                              ELSE silence[p] + 1
    BY <1>0, <1>2 DEF UpdateAgent, TableOK
  <2>2. /\ removeCounter[p] \in 0 .. MaxRemoveTicks - 1 /\ silence[p] \in Nat
        /\ state[p] \in States /\ MaxRemoveTicks \in Nat \ {0}
    BY <1>0, TableConstants DEF TableOK
  <2>3. CASE state[p] = "RUNNING"
    BY <1>0, <2>1, <2>2, <2>3 DEF NextState, NextTicks
  <2>4. CASE state[p] = "REMOVE"
    BY <1>0, <2>1, <2>2, <2>4 DEF NextState, NextTicks
  <2>5. CASE state[p] \in {"INSERT", "NOT_RUNNING"}
    BY <1>0, <2>1, <2>2, <2>5 DEF NextState, NextTicks
  <2> QED
    BY <2>2, <2>3, <2>4, <2>5 DEF States
<1>3. CASE UpdateAgent /\ mi # p
  BY <1>0, <1>1, <1>3 DEF UpdateAgent, TableOK
<1>4. CASE UNCHANGED tableVars \/ UpdateMe \/ Renumber
  BY <1>0, <1>1, <1>4 DEF tableVars, UpdateMe, Renumber, TableOK
<1> QED
  BY <1>2, <1>3, <1>4, TableFrame

\* A removal always begins with a fresh counter: whatever the interleaving with
\* the receive thread, a member is given the whole grace period
\* (comm.cpp:165-181).
THEOREM GraceCorrect == Spec => []GraceIsWhole
<1>1. Init => GraceIsWhole
  BY DEF Init, GraceIsWhole, Peers
<1>2. TypeInv /\ GraceIsWhole /\ [Next]_vars => GraceIsWhole'
  BY GraceStep
<1> QED
  BY <1>1, <1>2, TypeInvHolds, PTL DEF Spec
-----------------------------------------------------------------------------
(***************************************************************************)
(* The slots.  While a renumbering is under way the agents it has passed   *)
(* hold the slots 0 .. mj - 1 in order; when it is over, so do all.        *)
(***************************************************************************)
Dealt(m, r) ==
  /\ \A a, b \in Roster(state) : a < b /\ b < m => dynamicID[a] < dynamicID[b]
  /\ \A a \in Roster(state) : a < m => dynamicID[a] < r
  /\ \A k \in 0 .. r - 1 : \E a \in Roster(state) : a < m /\ dynamicID[a] = k

SlotsInv ==
  /\ mpc = "renumber" => Dealt(mi, mj)
  /\ Settled => Dealt(N, RUNNING_AGENTS)

LEMMA SlotsInit == Init => SlotsInv
<1> SUFFICES ASSUME Init PROVE Dealt(N, RUNNING_AGENTS) /\ mpc # "renumber"
  BY DEF SlotsInv
<1>1. \A a \in Agents : a \in Roster(state) <=> a = Me
  BY DEF Init, Roster, OnRoster
<1>2. Roster(state) \subseteq Agents /\ Me \in Agents /\ Agents \subseteq Int
      /\ N \in Nat /\ \A a \in Agents : a < N /\ dynamicID[a] = 0
  BY TableConstants, CommConstants DEF Init, Roster, Agents
<1>3. RUNNING_AGENTS = 1 /\ mpc = "top"
  BY DEF Init
<1>4. \A a \in Roster(state) : a = Me /\ a < N /\ dynamicID[a] = 0 /\ a \in Int
  BY <1>1, <1>2
<1>5. \A a, b \in Roster(state) : ~(a < b)
  BY <1>4
<1>6. Me \in Roster(state) /\ Me < N /\ dynamicID[Me] = 0
  BY <1>1, <1>2
<1>7. \A k \in 0 .. 1 - 1 : k = 0
  OBVIOUS
<1> QED
  BY <1>3, <1>4, <1>5, <1>6, <1>7 DEF Dealt

\* One pass of the renumbering loop deals one more slot, or none.
LEMMA SlotsRenumber == TypeInv /\ SlotsInv /\ Renumber => SlotsInv'
<1> SUFFICES ASSUME TypeInv, SlotsInv, Renumber PROVE Dealt(mi, mj)'
  BY DEF SlotsInv, Settled, Renumber
<1>0. /\ Dealt(mi, mj) /\ state' = state /\ mi' = mi + 1
      /\ mi \in Agents /\ mi \in Int /\ mj \in Int
      /\ dynamicID \in [Agents -> Int]
      /\ \A a \in Roster(state) : a \in Agents /\ a \in Int
      /\ Roster(state)' = Roster(state)
  <2>1. mpc = "renumber" /\ mi < N /\ state' = state /\ mi' = mi + 1
    BY DEF Renumber
  <2>2. Dealt(mi, mj)
    BY <2>1 DEF SlotsInv
  <2>3. mi \in Agents /\ mi \in Int /\ mj \in Int
    BY <2>1, TableConstants DEF TypeInv, TypeOK, PlaceOK, Agents
  <2>4. dynamicID \in [Agents -> Int]
    BY TableConstants DEF TypeInv, TypeOK, TableOK
  <2>5. \A a \in Roster(state) : a \in Agents /\ a \in Int
    BY TableConstants DEF Roster, Agents
  <2>6. Roster(state)' = Roster(state)
    BY <2>1 DEF Roster
  <2> QED
    BY <2>1, <2>2, <2>3, <2>4, <2>5, <2>6
<1>1. CASE OnRoster(state[mi])
  <2>1. mj' = mj + 1 /\ mi \in Roster(state)
    BY <1>0, <1>1 DEF Renumber, Roster
  <2>2. dynamicID'[mi] = mj
        /\ \A a \in Roster(state) : a # mi => dynamicID'[a] = dynamicID[a]
    BY <1>0, <1>1 DEF Renumber
  <2>3. \A a, b \in Roster(state) :
          a < b /\ b < mi + 1 => dynamicID'[a] < dynamicID'[b]
    <3> SUFFICES ASSUME NEW a \in Roster(state), NEW b \in Roster(state),
                        a < b, b < mi + 1
                 PROVE  dynamicID'[a] < dynamicID'[b]
      OBVIOUS
    <3>1. a \in Int /\ b \in Int /\ a < mi /\ a # mi
      BY <1>0
    <3>2. dynamicID'[a] = dynamicID[a] /\ dynamicID[a] < mj
      BY <1>0, <2>2, <3>1 DEF Dealt
    <3>3. CASE b = mi
      BY <2>2, <3>2, <3>3
    <3>4. CASE b # mi
      <4>1. b < mi /\ dynamicID'[b] = dynamicID[b]
        BY <1>0, <2>2, <3>1, <3>4
      <4> QED
        BY <1>0, <3>2, <4>1 DEF Dealt
    <3> QED
      BY <3>3, <3>4
  <2>4. \A a \in Roster(state) : a < mi + 1 => dynamicID'[a] < mj + 1
    <3> SUFFICES ASSUME NEW a \in Roster(state), a < mi + 1
                 PROVE  dynamicID'[a] < mj + 1
      OBVIOUS
    <3>1. CASE a = mi
      BY <1>0, <2>2, <3>1
    <3>2. CASE a # mi
      <4>1. a < mi /\ dynamicID'[a] = dynamicID[a] /\ dynamicID[a] \in Int
        BY <1>0, <2>2, <3>2
      <4> QED
        BY <1>0, <4>1 DEF Dealt
    <3> QED
      BY <3>1, <3>2
  <2>5. \A k \in 0 .. mj : \E a \in Roster(state) : a < mi + 1 /\ dynamicID'[a] = k
    <3> SUFFICES ASSUME NEW k \in 0 .. mj
                 PROVE  \E a \in Roster(state) : a < mi + 1 /\ dynamicID'[a] = k
      OBVIOUS
    <3>1. CASE k = mj
      BY <1>0, <2>1, <2>2, <3>1
    <3>2. CASE k # mj
      <4>1. PICK a \in Roster(state) : a < mi /\ dynamicID[a] = k
        BY <1>0, <3>2 DEF Dealt
      <4> QED
        BY <1>0, <2>2, <4>1
    <3> QED
      BY <3>1, <3>2
  <2> QED
    BY <1>0, <2>1, <2>3, <2>4, <2>5 DEF Dealt
<1>2. CASE ~OnRoster(state[mi])
  <2>1. mj' = mj /\ dynamicID' = dynamicID /\ mi \notin Roster(state)
    BY <1>0, <1>2 DEF Renumber, Roster
  <2>2. \A a \in Roster(state) : a < mi + 1 <=> a < mi
    BY <1>0, <2>1
  <2> QED
    BY <1>0, <2>1, <2>2 DEF Dealt
<1> QED
  BY <1>1, <1>2

LEMMA SlotsStep == TypeInv /\ SlotsInv /\ [Next]_vars => SlotsInv'
<1> SUFFICES ASSUME TypeInv, SlotsInv, [Next]_vars PROVE SlotsInv'
  OBVIOUS
<1>1. CASE Renumber
  BY <1>1, SlotsRenumber
<1>2. CASE CloseRoster
  <2>1. Dealt(N, mj)
    BY <1>2 DEF CloseRoster, SlotsInv
  <2>2. state' = state /\ dynamicID' = dynamicID /\ RUNNING_AGENTS' = mj
        /\ mpc' = "batch"
    BY <1>2 DEF CloseRoster, tableVars
  <2> QED
    BY <2>1, <2>2 DEF SlotsInv, Dealt, Roster
<1>3. CASE UpdateMe
  <2>1. mpc' = "renumber" /\ mi' = 0 /\ mj' = 0
    BY <1>3 DEF UpdateMe
  <2>2. Roster(state)' \subseteq Nat
    BY TableConstants DEF Roster, Agents
  <2>3. \A k \in 0 .. 0 - 1 : FALSE
    OBVIOUS
  <2> QED
    BY <2>1, <2>2, <2>3 DEF SlotsInv, Dealt, Settled
<1>4. CASE StartRound \/ UpdateAgent
  BY <1>4 DEF StartRound, UpdateAgent, SlotsInv, Settled
<1>5. CASE /\ UNCHANGED <<state, dynamicID, RUNNING_AGENTS>>
           /\ mpc' # "renumber"
           /\ Settled' => Settled
  BY <1>5 DEF SlotsInv, Dealt, Roster
<1>6. CASE \/ LeaveLoop \/ Sleep \/ Postpone \/ Send \/ Reset \/ EndRound
           \/ Finish \/ \E o \in BatchOutcomes : GetBatch(o)
  BY <1>5, <1>6 DEF LeaveLoop, Sleep, Postpone, Send, Reset, EndRound, Finish,
                    GetBatch, Settled, tableVars, roundVars
<1>7. CASE UNCHANGED <<state, dynamicID, RUNNING_AGENTS, mpc, mi, mj>>
  BY <1>7 DEF SlotsInv, Dealt, Roster, Settled
<1>8. CASE Receiver \/ Arrival \/ Alarm \/ UNCHANGED vars
  BY <1>7, <1>8 DEF Receiver, RecvTop, RecvWoken, Store, Mark, Measure, TakeSlot, Expect, Adjust,
       Arrival, Receive, Alarm, vars, tableVars, roundVars, mainVars
<1>9. CASE Interrupt
  <2>1. UNCHANGED <<state, dynamicID, RUNNING_AGENTS, mi, mj>>
    BY <1>9 DEF Interrupt, tableVars, roundVars
  <2>2. mpc' = "aborted" \/ mpc' = mpc
    BY <1>9 DEF Interrupt
  <2> QED
    BY <1>7, <2>1, <2>2 DEF SlotsInv, Settled
<1> QED
  BY <1>1, <1>2, <1>3, <1>4, <1>6, <1>8, <1>9 DEF Next, Main, Stopped

\* Outside a renumbering the roster and the slots 0 .. RUNNING_AGENTS - 1 are
\* in one-to-one, order-preserving correspondence (comm.cpp:567-575).
THEOREM SlotsCorrect == Spec => []Slots
<1>1. TypeInv /\ SlotsInv => Slots
  <2> SUFFICES ASSUME TypeInv, Dealt(N, RUNNING_AGENTS)
               PROVE  Slots
    BY DEF SlotsInv, Slots
  <2>1. \A a \in Roster(state) : a < N
    BY TableConstants DEF Roster, Agents
  <2> QED
    BY <2>1 DEF Dealt, Slots
<1> QED
  BY SlotsInit, SlotsStep, <1>1, TypeInvHolds, PTL DEF Spec
-----------------------------------------------------------------------------
(***************************************************************************)
(* The shipped build.  The receive thread never gets to sync_ratdma, so    *)
(* every renumbering passes over the peers.                                *)
(***************************************************************************)
AloneInv ==
  /\ rpc \notin {"mark", "measure", "slot", "expect", "adjust"}
  /\ \A p \in Peers : state[p] = "NOT_RUNNING" /\ ~received[p]
  /\ RUNNING_AGENTS = 1 /\ dynamicID[Me] = 0
  /\ delay = 0 /\ itimer = TTUP
  /\ mpc = "renumber" => mj = (IF Me < mi THEN 1 ELSE 0)

\* The options are given once, on the command line and to the compiler.
LEMMA OptionsFrame == [Next]_vars => options' = options
BY DEF Next, Main, Receiver, Arrival, vars, LeaveLoop, Sleep, Postpone, StartRound,
   UpdateAgent, UpdateMe, Renumber, CloseRoster, GetBatch, Send, Reset, EndRound,
   Finish, RecvTop, RecvWoken, Store, Mark, Measure, TakeSlot, Expect, Adjust, Receive, Alarm,
   Interrupt, Stopped

LEMMA AloneStep ==
  ASSUME options.unsync, TypeInv, AloneInv, [Next]_vars
  PROVE  AloneInv'
<1>0. /\ mi \in 0 .. N /\ Me \in 0 .. N - 1 /\ N \in Nat
      /\ MinUpdateDelay \in Nat /\ state[Me] = "RUNNING" /\ Agents = 0 .. N - 1
      /\ TableOK /\ FlagOK
  BY TableConstants, CommConstants
     DEF TypeInv, TypeOK, PlaceOK, SlotCounter, Agents
<1>1. rpc' \notin {"mark", "measure", "slot", "expect", "adjust"}
  BY DEF Next, Main, Receiver, Arrival, vars, recvVars, LeaveLoop, Sleep, Postpone,
     StartRound, UpdateAgent, UpdateMe, Renumber, CloseRoster, GetBatch, Send, Reset,
     EndRound, Finish, RecvTop, RecvWoken, Store, Mark, Measure, TakeSlot, Expect, Adjust, Receive,
     Alarm, Interrupt, Stopped, AloneInv
<1>2. UNCHANGED <<received, heard>> \/ UpdateAgent \/ Reset
      \/ \E o \in StoreOutcomes : Store(o)
  BY FlagFrame DEF AloneInv, Mark
<1>3. \A p \in Peers : ~received'[p]
  BY <1>0, <1>2 DEF AloneInv, UpdateAgent, Reset, Store, Peers, FlagOK
<1>4. \A p \in Peers : state'[p] = "NOT_RUNNING"
  <2>1. CASE UNCHANGED tableVars \/ Renumber
    BY <2>1 DEF AloneInv, tableVars, Renumber
  <2>2. CASE UpdateAgent
    <3> SUFFICES ASSUME NEW p \in Peers PROVE state'[p] = "NOT_RUNNING"
      OBVIOUS
    <3>1. p \in Agents /\ state[p] = "NOT_RUNNING" /\ ~received[p]
      BY DEF AloneInv, Peers
    <3>2. CASE mi = p /\ mi # Me
      <4>1. state'[p] = NextState(state[p], received[p], removeCounter[p])
        BY <1>0, <2>2, <3>1, <3>2 DEF UpdateAgent, TableOK
      <4> QED
        BY <3>1, <4>1 DEF NextState
    <3>3. CASE mi # p \/ mi = Me
      BY <1>0, <2>2, <3>1, <3>3 DEF UpdateAgent, TableOK, Peers
    <3> QED
      BY <3>2, <3>3
  <2>3. CASE UpdateMe
    BY <1>0, <2>3 DEF AloneInv, UpdateMe, Peers, TableOK
  <2> QED
    BY <2>1, <2>2, <2>3, TableFrame
<1>5. delay' = 0 /\ itimer' = TTUP
  BY <1>0, TimeFrame DEF AloneInv, Postpone, SlowDown, StartRound, Adjust, Alarm,
                         Interrupt
<1>6. ASSUME Renumber
      PROVE  /\ dynamicID'[Me] = 0
             /\ mj' = (IF Me < mi' THEN 1 ELSE 0)
  <2>1. /\ mi \in Agents /\ mi' = mi + 1
        /\ mj = (IF Me < mi THEN 1 ELSE 0)
    BY <1>0, <1>6 DEF Renumber, AloneInv
  <2>2. OnRoster(state[mi]) <=> mi = Me
    BY <1>0, <2>1 DEF OnRoster, AloneInv, Peers
  <2>3. CASE mi = Me
    BY <1>0, <1>6, <2>1, <2>2, <2>3 DEF Renumber, TableOK
  <2>4. CASE mi # Me
    BY <1>0, <1>6, <2>1, <2>2, <2>4 DEF Renumber, AloneInv
  <2> QED
    BY <2>3, <2>4
<1>7. dynamicID'[Me] = 0
  BY <1>6, TableFrame DEF AloneInv, tableVars, UpdateAgent, UpdateMe
<1>8. RUNNING_AGENTS' = 1
  BY <1>0, RoundFrame DEF AloneInv, roundVars, CloseRoster
<1>9. mpc' = "renumber" => mj' = (IF Me < mi' THEN 1 ELSE 0)
  <2>1. CASE UNCHANGED mainVars
    BY <2>1 DEF AloneInv, mainVars
  <2>2. CASE Interrupt
    BY <2>2 DEF Interrupt, AloneInv
  <2>3. CASE Renumber
    BY <1>6, <2>3
  <2>4. CASE UpdateMe
    BY <1>0, <2>4 DEF UpdateMe
  <2>5. CASE Main /\ ~Renumber /\ ~UpdateMe
    <3>1. mpc' # "renumber"
      BY <2>5 DEF Main, LeaveLoop, Sleep, Postpone, StartRound, UpdateAgent,
         CloseRoster, GetBatch, Send, Reset, EndRound, Finish
    <3> QED
      BY <3>1
  <2> QED
    BY <2>1, <2>2, <2>3, <2>4, <2>5, PlaceFrame
<1> QED
  BY <1>1, <1>3, <1>4, <1>5, <1>7, <1>8, <1>9 DEF AloneInv

\* With UNSYNC defined, as comm.h ships it, no frame ever changes the view of
\* the team: the process is and stays alone (comm.h:21, comm.cpp:344-346).
THEOREM AloneCorrect == Spec => []ShippedAlone
<1>1. Init => (options.unsync => AloneInv)
  BY CommConstants DEF Init, AloneInv, Peers
<1>2. TypeInv /\ (options.unsync => AloneInv) /\ [Next]_vars => (options.unsync => AloneInv)'
  BY AloneStep, OptionsFrame
<1>3. (options.unsync => AloneInv) => ShippedAlone
  BY DEF AloneInv, ShippedAlone
<1> QED
  BY <1>1, <1>2, <1>3, TypeInvHolds, PTL DEF Spec
-----------------------------------------------------------------------------
(***************************************************************************)
(* The refinement: the pass of update_stateTable over a peer is the        *)
(* abstract observation of it, and nothing else moves the roster.          *)
(***************************************************************************)
LEMMA MembershipInit == Init => M!Init
<1> SUFFICES ASSUME Init PROVE Roster(state) = {Me} /\ silence = [i \in Agents |-> 0]
  BY DEF M!Init
<1>1. \A i \in Agents : OnRoster(state[i]) <=> i = Me
  BY DEF Init, OnRoster
<1> QED
  BY <1>1, CommConstants DEF Init, Roster

LEMMA MembershipStep ==
  TypeInv /\ GraceIsWhole /\ [Next]_vars => [M!Next]_(M!vars)
<1> SUFFICES ASSUME TypeInv, GraceIsWhole, [Next]_vars
             PROVE  M!Next \/ UNCHANGED <<Roster(state), silence>>
  BY DEF M!vars
<1>0. TableOK /\ FlagOK /\ mi \in 0 .. N /\ Me \in Agents /\ state[Me] = "RUNNING"
  BY CommConstants DEF TypeInv, TypeOK, PlaceOK, SlotCounter
<1>1. CASE UNCHANGED tableVars \/ Renumber
  BY <1>1 DEF tableVars, Renumber, Roster
<1>2. CASE UpdateMe
  <2>1. state' = state
    BY <1>0, <1>2 DEF UpdateMe, TableOK
  <2> QED
    BY <1>2, <2>1 DEF UpdateMe, Roster
<1>3. CASE UpdateAgent /\ mi = Me
  BY <1>3 DEF UpdateAgent, Roster
<1>4. CASE UpdateAgent /\ mi # Me
  <2>1. mi \in Agents \ {Me} /\ mi \in Peers /\ received[mi] \in BOOLEAN
    BY <1>0, <1>4, TableConstants DEF UpdateAgent, Agents, Peers, FlagOK
  <2>2. silence' = [silence EXCEPT ![mi] =
                      IF received[mi] THEN 0
                      ELSE IF @ > MaxRemoveTicks THEN @ ELSE @ + 1]
    BY <1>4 DEF UpdateAgent
  <2>3. silence'[mi] = IF received[mi] THEN 0
                       ELSE IF silence[mi] > MaxRemoveTicks THEN silence[mi]
                            ELSE silence[mi] + 1
    BY <1>0, <2>1, <2>2 DEF TableOK
  <2>4. state'[mi] = NextState(state[mi], received[mi], removeCounter[mi])
        /\ \A k \in Agents : k # mi => state'[k] = state[k]
    BY <1>0, <1>4, <2>1 DEF UpdateAgent, TableOK
  <2>5. /\ removeCounter[mi] \in 0 .. MaxRemoveTicks - 1 /\ silence[mi] \in Nat
        /\ state[mi] \in States /\ MaxRemoveTicks \in Nat \ {0}
        /\ state[mi] = "RUNNING" => silence[mi] = 0
        /\ state[mi] = "REMOVE" => silence[mi] = removeCounter[mi] + 1
    BY <1>0, <2>1, TableConstants DEF TableOK, GraceIsWhole
  <2>6. \/ /\ mi \in Roster(state) => silence'[mi] <= MaxRemoveTicks
           /\ Roster(state)' = Roster(state)
        \/ /\ received[mi]
           /\ Roster(state)' = Roster(state) \union {mi}
        \/ /\ silence'[mi] > MaxRemoveTicks
           /\ Roster(state)' = Roster(state) \ {mi}
    <3>1. CASE OnRoster(state[mi]) /\ OnRoster(state'[mi])
      <4>1. silence'[mi] <= MaxRemoveTicks
        BY <2>3, <2>4, <2>5, <3>1 DEF NextState, OnRoster
      <4>2. Roster(state)' = Roster(state)
        BY <2>1, <2>4, <3>1 DEF Roster
      <4> QED
        BY <4>1, <4>2
    <3>2. CASE ~OnRoster(state[mi]) /\ ~OnRoster(state'[mi])
      BY <2>1, <2>4, <3>2 DEF Roster
    <3>3. CASE ~OnRoster(state[mi]) /\ OnRoster(state'[mi])
      <4>1. received[mi]
        BY <2>4, <2>5, <3>3 DEF NextState, OnRoster, States
      <4>2. Roster(state)' = Roster(state) \union {mi}
        BY <2>1, <2>4, <3>3 DEF Roster
      <4> QED
        BY <4>1, <4>2
    <3>4. CASE OnRoster(state[mi]) /\ ~OnRoster(state'[mi])
      <4>1. silence'[mi] > MaxRemoveTicks
        BY <2>3, <2>4, <2>5, <3>4 DEF NextState, OnRoster
      <4>2. Roster(state)' = Roster(state) \ {mi}
        BY <2>1, <2>4, <3>4 DEF Roster
      <4> QED
        BY <4>1, <4>2
    <3> QED
      BY <3>1, <3>2, <3>3, <3>4
  <2>7. M!Observe(mi, received[mi])
    BY <2>2, <2>6 DEF M!Observe
  <2> QED
    BY <2>1, <2>7 DEF M!Next
<1> QED
  BY <1>1, <1>2, <1>3, <1>4, TableFrame

\* The state table implements Membership with grace MaxRemoveTicks, for every
\* interleaving of the threads and every arrival of frames (comm.cpp:141-188).
THEOREM CommImplementsMembership == Spec => ImplementsMembership
<1>1. Init => GraceIsWhole
  BY DEF Init, GraceIsWhole, Peers
<1> QED
  BY MembershipInit, MembershipStep, GraceStep, <1>1, TypeInvHolds, PTL
     DEF Spec, ImplementsMembership, M!Spec
-----------------------------------------------------------------------------
(***************************************************************************)
(* Timing.  What sync_ratdma has loaded one after the other need not be of *)
(* one round, but of the slots it has loaded one is 0 and the other is not *)
(* when it sets the timer, and that is enough.                             *)
(***************************************************************************)
\* The expected difference to slot 0 leaves at least the N-th part of the period.
LEMMA ExpectedBelowPeriod ==
  ASSUME NEW mine \in 1 .. N - 1, NEW running \in 1 .. N, TTUP \div N > 0
  PROVE  TTUP - ExpectedDiff(0, mine, running) >= TTUP \div N
<1> DEFINE a == mine * TTUP
           q == a \div running
           share == TTUP \div N
<1>1. /\ N \in Nat /\ N > 0 /\ TTUP \in Nat /\ TTUP > 0
      /\ mine \in Nat /\ mine >= 1 /\ running \in Nat /\ running >= 1 /\ running <= N
  BY TableConstants
<1>2. a \in Nat /\ a >= TTUP
  <2>1. (mine - 1) * TTUP >= 0 /\ mine * TTUP = (mine - 1) * TTUP + TTUP
    BY <1>1
  <2> QED
    BY <1>1, <2>1
<1>3. share \in Nat /\ N * share <= TTUP
  BY <1>1
<1>4. q \in Nat /\ running * q <= a /\ a < running * (q + 1)
  <2> HIDE DEF a
  <2> QED
    BY <1>1, <1>2
<1>5. q >= share
  <2> SUFFICES ASSUME q < share PROVE FALSE
    BY <1>3, <1>4
  <2> HIDE DEF q, share
  <2>1. running * (q + 1) <= N * share
    <3>1. q + 1 <= share /\ q + 1 \in Nat
      BY <1>3, <1>4
    <3>2. running * (q + 1) <= N * (q + 1)
      BY <1>1, <3>1
    <3>3. N * (q + 1) <= N * share
      BY <1>1, <1>3, <3>1
    <3>4. running * (q + 1) \in Int /\ N * (q + 1) \in Int /\ N * share \in Int
      BY <1>1, <1>3, <3>1
    <3> QED
      BY <3>2, <3>3, <3>4
  <2>2. running * (q + 1) \in Int /\ N * share \in Int
    BY <1>1, <1>3, <1>4
  <2> HIDE DEF a
  <2> QED
    BY <1>1, <1>2, <1>3, <1>4, <2>1, <2>2
<1>6. ExpectedDiff(0, mine, running) = IF -q < 0 THEN -q + TTUP ELSE -q
  <2>1. (0 - mine) * TTUP = -a /\ -(-a) = a /\ -a < 0
    BY <1>1, <1>2
  <2> HIDE DEF a
  <2>2. CDiv(-a, running) = -q
    BY <1>2, <2>1 DEF CDiv
  <2> HIDE DEF q
  <2> QED
    BY <2>1, <2>2 DEF ExpectedDiff
<1> HIDE DEF a, q, share
<1> QED
  BY <1>1, <1>3, <1>4, <1>5, <1>6 DEF share

TimerInv ==
  /\ TimerArmed
  /\ rpc = "adjust" /\ sync.theirs = 0 /\ sync.mine # 0 =>
       sync.expected + CommDelay < TTUP

LEMMA TimerStep ==
  ASSUME TTUP \div N > CommDelay, TypeInv, TimerInv, [Next]_vars
  PROVE  TimerInv'
<1> USE DEF TimerInv, TimerArmed
<1>1. /\ itimer \in Int /\ delay \in Nat /\ MinUpdateDelay \in Nat
      /\ TTUP \in Nat /\ CommDelay \in Nat
      /\ sync \in [theirs : 0 .. N - 1, mine : 0 .. N - 1, expected : Int, delta : Int]
      /\ RUNNING_AGENTS \in 1 .. N
  BY TableConstants DEF TypeInv, TypeOK, TimeOK, PlaceOK, RoundOK
<1>2. CASE Postpone
  <2>1. MinUpdateDelay \div 2 <= MinUpdateDelay /\ MinUpdateDelay \div 2 \in Nat
    BY <1>1
  <2>2. delay > MinUpdateDelay /\ itimer' = delay - (MinUpdateDelay \div 2)
    BY <1>2 DEF Postpone, SlowDown
  <2>3. itimer' > 0
    BY <1>1, <2>1, <2>2
  <2> QED
    BY <1>2, <2>3 DEF Postpone, recvVars
<1>3. CASE Adjust
  BY <1>1, <1>3 DEF Adjust
<1>4. CASE Expect
  <2>1. itimer' = itimer
    BY <1>4 DEF Expect
  <2>2. ASSUME sync.theirs = 0, sync.mine # 0
        PROVE  ExpectedDiff(0, sync.mine, RUNNING_AGENTS) + CommDelay < TTUP
    <3>1. sync.mine \in 1 .. N - 1 /\ sync.mine \in Int /\ RUNNING_AGENTS \in Nat \ {0}
      BY <1>1, <2>2, TableConstants
    <3>2. ExpectedDiff(0, sync.mine, RUNNING_AGENTS) \in Int
      <4>1. 0 \in Int
        OBVIOUS
      <4> QED
        BY <3>1, <4>1, ExpectedDiffType
    <3>3. TTUP \div N \in Int
      BY TableConstants
    <3>4. TTUP - ExpectedDiff(0, sync.mine, RUNNING_AGENTS) >= TTUP \div N
      BY <1>1, <3>1, <3>3, ExpectedBelowPeriod
    <3> QED
      BY <1>1, <3>2, <3>3, <3>4
  <2>3. /\ sync'.theirs = sync.theirs /\ sync'.mine = sync.mine
        /\ sync'.expected = ExpectedDiff(sync.theirs, sync.mine, RUNNING_AGENTS)
    BY <1>1, <1>4 DEF Expect
  <2> QED
    BY <2>1, <2>2, <2>3
<1>5. CASE ~Postpone /\ ~Adjust /\ ~Expect
  <2>1. itimer' = itimer
    BY <1>5, TimeFrame DEF StartRound, Alarm, Interrupt
  <2>2. rpc' = "adjust" => UNCHANGED <<rpc, sync>>
    BY <1>5 DEF Next, Main, Receiver, Arrival, vars, recvVars, LeaveLoop, Sleep,
       StartRound, UpdateAgent, UpdateMe, Renumber, CloseRoster, GetBatch, Send, Reset,
       EndRound, Finish, RecvTop, RecvWoken, Store, Mark, Measure, TakeSlot, Receive,
       Alarm, Interrupt, Stopped
  <2> QED
    BY <2>1, <2>2
<1> QED
  BY <1>2, <1>3, <1>4, <1>5

\* The timer is never set to a first expiry of zero or less, whatever the two threads
\* do to each other, if the travel time is shorter than a slot of the fullest round.
\* With the period of comm.h and 8 agents a slot has 2500 microseconds and the travel
\* takes 2000; from 63 rounds a second on it is the other way round
\* (comm.cpp:102-126, 547-557, comm.h:14-16).
THEOREM TimerCorrect ==
  ASSUME TTUP \div N > CommDelay
  PROVE  Spec => []TimerArmed
<1>1. Init => TimerInv
  BY TableConstants DEF Init, TimerInv, TimerArmed
<1>2. TypeInv /\ TimerInv /\ [Next]_vars => TimerInv'
  BY TimerStep
<1>3. TimerInv => TimerArmed
  BY DEF TimerInv
<1> QED
  BY <1>1, <1>2, <1>3, TypeInvHolds, PTL DEF Spec

\* The limit that admits a delay is itself two thirds of the period at most.
DelayInv == DelayBelowPeriod /\ 3 * MAX_DELTA <= 2 * TTUP

LEMMA MaxDeltaBound ==
  ASSUME NEW running \in Nat \ {0}
  PROVE  3 * MaxDelta(running) <= 2 * TTUP
<1> DEFINE q == TTUP \div running
<1>1. q \in Nat /\ q <= TTUP /\ TTUP \in Nat
  BY TableConstants
<1>2. MaxDelta(running) = (q * 2) \div 3
  BY DEF MaxDelta
<1> HIDE DEF q
<1> QED
  BY <1>1, <1>2

\* Dynamic agent 0 puts its round off by less than two thirds of a period, whatever the
\* differences it measures and however the limit moves meanwhile (comm.cpp:110-113, 547).
THEOREM DelayCorrect == Spec => []DelayBelowPeriod
<1>1. Init => DelayInv
  BY TableConstants DEF Init, DelayInv, DelayBelowPeriod
<1>2. ASSUME TypeInv, DelayInv, [Next]_vars PROVE DelayInv'
  <2>0. /\ TTUP \in Nat \ {0} /\ sync.delta \in Int /\ MAX_DELTA \in Nat /\ delay \in Nat
    BY <1>2, TableConstants DEF TypeInv, TypeOK, PlaceOK, RoundOK, TimeOK
  <2>1. 3 * MAX_DELTA' <= 2 * TTUP
    <3>1. CASE UNCHANGED roundVars
      BY <1>2, <3>1 DEF roundVars, DelayInv
    <3>2. CASE CloseRoster
      <4>1. RoundOK'
        BY <1>2, RoundType
      <4>2. mj \in Nat \ {0} /\ MAX_DELTA' = MaxDelta(mj)
        BY <3>2, <4>1, TableConstants DEF CloseRoster, RoundOK
      <4> QED
        BY <4>2, MaxDeltaBound
    <3> QED
      BY <1>2, <3>1, <3>2, RoundFrame
  <2>2. 3 * delay' < 2 * TTUP
    <3>1. CASE Adjust
      BY <1>2, <2>0, <3>1 DEF Adjust, DelayInv, DelayBelowPeriod
    <3>2. CASE Postpone
      BY <2>0, <3>2 DEF Postpone
    <3>3. CASE ~Adjust /\ ~Postpone
      BY <1>2, <3>3, TimeFrame DEF StartRound, Alarm, Interrupt, DelayInv,
         DelayBelowPeriod
    <3> QED
      BY <3>1, <3>2, <3>3
  <2> QED
    BY <2>1, <2>2 DEF DelayInv, DelayBelowPeriod
<1>3. DelayInv => DelayBelowPeriod
  BY DEF DelayInv
<1> QED
  BY <1>1, <1>2, <1>3, TypeInvHolds, PTL DEF Spec
-----------------------------------------------------------------------------
(***************************************************************************)
(* Flags.  They are looked at before they are cleared, and between the two *)
(* a round may be broken off only where the batch has failed.              *)
(***************************************************************************)
\* The flag of p is as new as the history says, but for the part of the round in which
\* it has been looked at and not yet cleared.
FreshInv ==
  \A p \in Peers :
    (\/ mpc \in {"top", "wake"}
     \/ mpc = "update" /\ mi <= p
     \/ mpc = "reset" /\ mi > p) => (received[p] => heard[p])

LEMMA FreshStep ==
  ASSUME BatchOutcomes \subseteq {"ok"}, TypeInv, FreshInv, [Next]_vars
  PROVE  FreshInv'
<1> SUFFICES ASSUME NEW p \in Peers,
                    \/ mpc' \in {"top", "wake"}
                    \/ mpc' = "update" /\ mi' <= p
                    \/ mpc' = "reset" /\ mi' > p,
                    received'[p]
             PROVE  heard'[p]
  BY DEF FreshInv
<1>1. /\ p \in 0 .. N - 1 /\ p # Me /\ N \in Nat /\ mi \in 0 .. N /\ from \in Agents
      /\ received \in [Agents -> BOOLEAN] /\ heard \in [Agents -> BOOLEAN]
      /\ p \in Agents
  BY TableConstants DEF Peers, Agents, TypeInv, TypeOK, PlaceOK, FlagOK
<1>2. \/ mpc \in {"top", "wake"}
      \/ mpc = "update" /\ mi <= p
      \/ mpc = "reset" /\ mi > p
      => (received[p] => heard[p])
  BY DEF FreshInv
<1>3. CASE Mark \/ \E o \in StoreOutcomes : Store(o)
  <2>1. /\ UNCHANGED mainVars
        /\ received'[p] => received[p] \/ heard'[p]
        /\ heard[p] => heard'[p]
    BY <1>1, <1>3 DEF Mark, Store, mainVars
  <2> QED
    BY <1>2, <2>1 DEF mainVars
<1>4. CASE UpdateAgent
  <2>1. mpc = "update" /\ mpc' = mpc /\ mi' = mi + 1 /\ received' = received
    BY <1>4 DEF UpdateAgent
  <2>2. mi <= p /\ mi # p
    BY <1>1, <2>1
  <2>3. heard'[p] = heard[p]
    BY <1>1, <1>4, <2>2 DEF UpdateAgent
  <2> QED
    BY <1>2, <2>1, <2>2, <2>3
<1>5. CASE Reset
  <2>1. mpc = "reset" /\ mpc' = mpc /\ mi' = mi + 1 /\ heard' = heard
    BY <1>5 DEF Reset
  <2>2. received'[p] => received[p] /\ mi # p
    BY <1>1, <1>5 DEF Reset
  <2> QED
    BY <1>1, <1>2, <2>1, <2>2
<1>6. CASE UNCHANGED <<received, heard>>
  <2>1. CASE Main
    <3>1. \A o \in BatchOutcomes : GetBatch(o) => mpc' = "send"
      BY DEF GetBatch
    <3>2. CASE \E o \in BatchOutcomes : GetBatch(o)
      BY <3>1, <3>2
    <3>3. CASE EndRound
      BY <1>1, <1>2, <1>6, <3>3 DEF EndRound
    <3>4. CASE Sleep \/ Postpone \/ StartRound
      BY <1>1, <1>2, <1>6, <3>4 DEF Sleep, Postpone, StartRound
    <3>5. CASE UpdateAgent \/ Reset
      BY <1>4, <1>5, <3>5
    <3>6. CASE LeaveLoop \/ UpdateMe \/ Renumber \/ CloseRoster \/ Send \/ Finish
      BY <1>1, <3>6 DEF LeaveLoop, UpdateMe, Renumber, CloseRoster, Send, Finish
    <3> QED
      BY <2>1, <3>2, <3>3, <3>4, <3>5, <3>6 DEF Main
  <2>2. CASE Interrupt
    BY <1>2, <1>6, <2>2 DEF Interrupt
  <2>3. CASE UNCHANGED mainVars
    BY <1>2, <1>6, <2>3 DEF mainVars
  <2> QED
    BY <2>1, <2>2, <2>3, PlaceFrame
<1> QED
  BY <1>3, <1>4, <1>5, <1>6, FlagFrame

\* If every batch fits its frame, a flag that the update of the state table finds set is
\* that of a frame handled since the last update, for any number of agents and wherever
\* in the round the receive thread sets it (comm.cpp:84, 564, 645-648).
THEOREM FlagCorrect ==
  ASSUME BatchOutcomes \subseteq {"ok"}
  PROVE  Spec => []FlagIsFresh
<1>1. Init => FreshInv
  BY DEF Init, FreshInv, Peers
<1>2. TypeInv /\ FreshInv /\ [Next]_vars => FreshInv'
  BY FreshStep
<1>3. TypeInv /\ FreshInv => FlagIsFresh
  BY TableConstants DEF FreshInv, FlagIsFresh, Peers, Agents
<1> QED
  BY <1>1, <1>2, <1>3, TypeInvHolds, PTL DEF Spec
=============================================================================
