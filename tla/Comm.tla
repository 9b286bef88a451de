-------------------------------- MODULE Comm --------------------------------
(***************************************************************************)
(* One comm process (src/src/comm/comm.cpp): the main thread, which once a *)
(* period renews its view of the team and broadcasts a frame, the receive  *)
(* thread, and the two signals, all over the unprotected globals of the    *)
(* process.  The team is open: any frame a team member may send can arrive *)
(* at any time, so loss, duplication and reordering are included.          *)
(*                                                                         *)
(* A step of a thread is what it does between two accesses to data that    *)
(* the other thread writes.  The build is -O3, which loads a field once in *)
(* straight-line code: what sync_ratdma has loaded or computed it keeps in *)
(* registers, and the field delta of the table is never read back (nor is  *)
(* it modelled).                                                           *)
(***************************************************************************)
EXTENDS AgentTable

CONSTANTS
  Me,             \* myNumber
  Options,        \* the settings considered of -nosend and of UNSYNC, which
                  \* comm.h defines as it is shipped
  BatchOutcomes,  \* what DB_get_batch and the size test may come to
  StoreOutcomes,  \* what the size test and DB_put_batch may come to
  Counters,       \* frame counters that may arrive
  Visions,        \* state tables that may arrive
  SendToReceive,  \* receiveTimeStamp - lastSendTimeStamp, in microseconds
  MaxInterrupts,  \* bound on the number of SIGINTs
  MaxTimer        \* bound on the number of SIGALRMs of one round

ASSUME CommConstants ==
  /\ Me \in Agents
  /\ Options \subseteq [nosend : BOOLEAN, unsync : BOOLEAN]
  /\ BatchOutcomes \subseteq {"ok", "failed"}
  /\ StoreOutcomes \subseteq {"ok", "failed"}
  /\ Counters \subseteq 0 .. CounterMod - 1
  /\ Visions \subseteq [Agents -> States]
  /\ SendToReceive \subseteq Int
  /\ MaxInterrupts \in 0 .. 3
  /\ MaxTimer \in Nat

VARIABLES
  \* the table agent[], written by the main thread only
  state,             \* membership state of each agent
  dynamicID,         \* slot of each agent in the round
  removeCounter,     \* silent rounds in REMOVE
  \* ... by the receive thread only
  lastFrameCounter, lostPackets,
  \* ... by both; of stateTable, each thread writes rows of its own
  stateTable, received,
  \* other globals
  RUNNING_AGENTS, MAX_DELTA, delay, timer, end,
  itimer,            \* the first expiry last given to setitimer
  \* locals
  options, frameCounter,
  mpc, mi, mj,       \* main thread: place, loop index i, slot counter j
  rpc, from,         \* receive thread: place, agentNumber
  sync,              \* ... and what sync_ratdma has at hand: the slots of the
                     \* sender and of this agent, expectedDiff and delta
  \* history
  silence,           \* rounds in a row whose update found nothing received
  heard              \* a frame was handled since the last update

tableVars == <<state, dynamicID, removeCounter, silence>>
linkVars  == <<lastFrameCounter, lostPackets>>
roundVars == <<RUNNING_AGENTS, MAX_DELTA, frameCounter>>
mainVars  == <<mpc, mi, mj>>
recvVars  == <<rpc, from, sync>>

vars == <<tableVars, linkVars, roundVars, mainVars, recvVars, stateTable,
          received, delay, timer, end, itimer, options, heard>>

NoSync == [theirs |-> 0, mine |-> 0, expected |-> 0, delta |-> 0]

Init ==
  /\ state = [i \in Agents |-> IF i = Me THEN "RUNNING" ELSE "NOT_RUNNING"]
  /\ dynamicID = [i \in Agents |-> 0]
  /\ removeCounter = [i \in Agents |-> 0]
  /\ lastFrameCounter = [i \in Agents |-> 0]
  /\ lostPackets = [i \in Agents |-> 0]
  /\ stateTable = [i \in Agents |-> [k \in Agents |-> "NOT_RUNNING"]]
  /\ received = [i \in Agents |-> FALSE]
  /\ RUNNING_AGENTS = 1
  /\ MAX_DELTA = 0
  /\ delay = 0
  /\ timer = 0
  /\ end = 0
  /\ itimer = TTUP
  /\ options \in Options
  /\ frameCounter = 0
  /\ mpc = "top" /\ mi = 0 /\ mj = 0
  /\ rpc = "top" /\ from = Me /\ sync = NoSync
  /\ silence = [i \in Agents |-> 0]
  /\ heard = [i \in Agents |-> FALSE]

-----------------------------------------------------------------------------
(* The main thread. *)

\* while (!end): leave the loop, closing the socket on the way out ...
LeaveLoop ==
  /\ mpc = "top" /\ end # 0
  /\ mpc' = "join"
  /\ UNCHANGED <<tableVars, linkVars, roundVars, mi, mj, recvVars, stateTable,
                 received, delay, timer, end, itimer, options, heard>>

\* ... or sleep: a second and round again with -nosend, else one period.
Sleep ==
  /\ mpc = "top" /\ end = 0 /\ ~options.nosend
  /\ mpc' = "wake"
  /\ UNCHANGED <<tableVars, linkVars, roundVars, mi, mj, recvVars, stateTable,
                 received, delay, timer, end, itimer, options, heard>>

\* Faulty variant: postpones without a delay to make good.
SlowDownAlways == ~options.unsync /\ dynamicID[Me] = 0 /\ timer = 1

SlowDown == ~options.unsync /\ delay > MinUpdateDelay /\ dynamicID[Me] = 0 /\ timer = 1

\* Dynamic agent 0 lengthens its round by the delay it has measured.
Postpone ==
  /\ mpc = "wake" /\ SlowDown
  /\ itimer' = delay - (MinUpdateDelay \div 2)
  /\ delay' = 0
  /\ mpc' = "top"
  /\ UNCHANGED <<tableVars, linkVars, roundVars, mi, mj, recvVars, stateTable,
                 received, timer, end, options, heard>>

StartRound ==
  /\ mpc = "wake" /\ ~SlowDown
  /\ timer' = 0
  /\ mpc' = "update" /\ mi' = 0
  /\ UNCHANGED <<tableVars, linkVars, roundVars, mj, recvVars, stateTable,
                 received, delay, end, itimer, options, heard>>

\* update_stateTable, the pass of the loop for agent mi.
UpdateAgent ==
  /\ mpc = "update" /\ mi < N
  /\ IF mi = Me
     THEN UNCHANGED <<state, removeCounter, silence, heard>>
     ELSE /\ state' = [state EXCEPT ![mi] =
                         NextState(@, received[mi], removeCounter[mi])]
          /\ removeCounter' = [removeCounter EXCEPT ![mi] =
                                 NextTicks(state[mi], received[mi], @)]
          /\ silence' = [silence EXCEPT ![mi] =
                           IF received[mi] THEN 0
                           ELSE IF @ > MaxRemoveTicks THEN @ ELSE @ + 1]
          /\ heard' = [heard EXCEPT ![mi] = FALSE]
  /\ mi' = mi + 1
  /\ UNCHANGED <<dynamicID, linkVars, roundVars, mpc, mj, recvVars, stateTable,
                 received, delay, timer, end, itimer, options>>

\* Faulty variant: j is not cleared before the renumbering.
UpdateMeKeepsJ ==
  /\ mpc = "update" /\ mi = N
  /\ state' = [state EXCEPT ![Me] = "RUNNING"]
  /\ mpc' = "renumber" /\ mi' = 0
  /\ UNCHANGED <<mj, dynamicID, removeCounter, silence, linkVars, roundVars,
                 recvVars, stateTable, received, delay, timer, end,
                 itimer, options, heard>>

UpdateMe ==
  /\ mpc = "update" /\ mi = N
  /\ state' = [state EXCEPT ![Me] = "RUNNING"]
  /\ mpc' = "renumber" /\ mi' = 0 /\ mj' = 0
  /\ UNCHANGED <<dynamicID, removeCounter, silence, linkVars, roundVars,
                 recvVars, stateTable, received, delay, timer, end,
                 itimer, options, heard>>

\* Slots are dealt in agent order; the sender's own row is what it will send.
Renumber ==
  /\ mpc = "renumber" /\ mi < N
  /\ IF OnRoster(state[mi])
     THEN /\ dynamicID' = [dynamicID EXCEPT ![mi] = mj]
          /\ mj' = mj + 1
     ELSE UNCHANGED <<dynamicID, mj>>
  /\ stateTable' = [stateTable EXCEPT ![Me][mi] = state[mi]]
  /\ mi' = mi + 1
  /\ UNCHANGED <<state, removeCounter, silence, linkVars, roundVars, mpc,
                 recvVars, received, delay, timer, end, itimer, options,
                 heard>>

\* The new divisor and limit; the frame header takes the next counter.
CloseRoster ==
  /\ mpc = "renumber" /\ mi = N
  /\ RUNNING_AGENTS' = mj
  /\ MAX_DELTA' = MaxDelta(mj)
  /\ frameCounter' = (frameCounter + 1) % CounterMod
  /\ mpc' = "batch"
  /\ UNCHANGED <<tableVars, linkVars, mi, mj, recvVars, stateTable, received,
                 delay, timer, end, itimer, options, heard>>

\* An exception or a batch over BUFFER_SIZE goes straight back to the loop
\* head: no frame, and none of the resets.
GetBatch(outcome) ==
  /\ mpc = "batch"
  /\ mpc' = IF outcome = "ok" THEN "send" ELSE "top"
  /\ UNCHANGED <<tableVars, linkVars, roundVars, mi, mj, recvVars, stateTable,
                 received, delay, timer, end, itimer, options, heard>>

\* sendData (whose failure is only printed) and the send time stamp.
Send ==
  /\ mpc = "send"
  /\ mpc' = "reset" /\ mi' = 0
  /\ UNCHANGED <<tableVars, linkVars, roundVars, mj, recvVars, stateTable,
                 received, delay, timer, end, itimer, options, heard>>

\* Faulty variant: the flags survive the round.
ResetNothing ==
  /\ mpc = "reset" /\ mi < N
  /\ mi' = mi + 1
  /\ UNCHANGED <<tableVars, linkVars, roundVars, mpc, mj, recvVars, stateTable,
                 received, delay, timer, end, itimer, options, heard>>

\* Reset values for the next round, one agent at a time.
Reset ==
  /\ mpc = "reset" /\ mi < N
  /\ received' = [received EXCEPT ![mi] = FALSE]
  /\ mi' = mi + 1
  /\ UNCHANGED <<tableVars, linkVars, roundVars, mpc, mj, recvVars, stateTable,
                 delay, timer, end, itimer, options, heard>>

EndRound ==
  /\ mpc = "reset" /\ mi = N
  /\ mpc' = "top"
  /\ UNCHANGED <<tableVars, linkVars, roundVars, mi, mj, recvVars, stateTable,
                 received, delay, timer, end, itimer, options, heard>>

\* pthread_join, then DB_free and the end of the process.
Finish ==
  /\ mpc = "join" /\ rpc = "exited"
  /\ mpc' = "finished"
  /\ UNCHANGED <<tableVars, linkVars, roundVars, mi, mj, recvVars, stateTable,
                 received, delay, timer, end, itimer, options, heard>>

Main ==
  \/ LeaveLoop \/ Sleep \/ Postpone \/ StartRound \/ UpdateAgent \/ UpdateMe
  \/ Renumber \/ CloseRoster \/ (\E o \in BatchOutcomes : GetBatch(o))
  \/ Send \/ Reset \/ EndRound \/ Finish
-----------------------------------------------------------------------------
(* The receive thread. *)

Running == mpc \notin {"finished", "aborted"}

\* Faulty variant: a loop that never looks at end.
RecvTopForever ==
  /\ Running /\ rpc = "top"
  /\ rpc' = "recv"
  /\ UNCHANGED <<tableVars, linkVars, roundVars, mainVars, from, sync,
                 stateTable, received, delay, timer, end, itimer,
                 options, heard>>

\* while (!end)
RecvTop ==
  /\ Running /\ rpc = "top"
  /\ rpc' = IF end = 0 THEN "recv" ELSE "exited"
  /\ UNCHANGED <<tableVars, linkVars, roundVars, mainVars, from, sync,
                 stateTable, received, delay, timer, end, itimer,
                 options, heard>>

\* closeSocket has shut the socket down: receiveData returns an error.
RecvWoken ==
  /\ mpc = "join" /\ rpc = "recv"
  /\ rpc' = "top"
  /\ UNCHANGED <<tableVars, linkVars, roundVars, mainVars, from, sync,
                 stateTable, received, delay, timer, end, itimer,
                 options, heard>>

\* A frame of agent a.  Our own, looped back, is skipped.  The counter and the
\* sender's table are taken before the size of the frame is looked at.
Receive(a, counter, vision) ==
  /\ Running /\ mpc # "join" /\ rpc = "recv"
  /\ IF a = Me
     THEN /\ rpc' = "top"
          /\ UNCHANGED <<from, linkVars, stateTable>>
     ELSE /\ rpc' = "store" /\ from' = a
          /\ lostPackets' = [lostPackets EXCEPT ![a] =
                               LostAfter(@, lastFrameCounter[a], counter)]
          /\ lastFrameCounter' = [lastFrameCounter EXCEPT ![a] = counter]
          /\ stateTable' = [stateTable EXCEPT ![a] = vision]
  /\ UNCHANGED <<tableVars, roundVars, mainVars, sync, received, delay, timer,
                 end, itimer, options, heard>>

\* Faulty variant: the call of sync_ratdma is not compiled out.
StoreThenSync(outcome) ==
  /\ Running /\ rpc = "store"
  /\ rpc' = IF outcome = "ok" THEN "mark" ELSE "top"
  /\ UNCHANGED <<tableVars, linkVars, roundVars, mainVars, from, sync,
                 stateTable, received, delay, timer, end, itimer,
                 options, heard>>

\* A frame of the wrong size, or one DB_put_batch throws on, is dropped here.
\* The shipped build is then done with the frame: sync_ratdma is compiled out.
Store(outcome) ==
  /\ Running /\ rpc = "store"
  /\ IF outcome = "ok"
     THEN /\ rpc' = IF options.unsync THEN "top" ELSE "mark"
          /\ heard' = IF options.unsync THEN [heard EXCEPT ![from] = TRUE] ELSE heard
     ELSE rpc' = "top" /\ UNCHANGED heard
  /\ UNCHANGED <<tableVars, linkVars, roundVars, mainVars, from, sync,
                 stateTable, received, delay, timer, end, itimer,
                 options>>

\* sync_ratdma: the flag, and the return for agents without a slot.
Mark ==
  /\ Running /\ rpc = "mark"
  /\ received' = [received EXCEPT ![from] = TRUE]
  /\ heard' = [heard EXCEPT ![from] = TRUE]
  /\ rpc' = IF OnRoster(state[from]) THEN "measure" ELSE "top"
  /\ UNCHANGED <<tableVars, linkVars, roundVars, mainVars, from, sync,
                 stateTable, delay, timer, end, itimer, options>>

\* Real against expected difference of the two slots: the slot of the sender,
Measure(sinceSend) ==
  /\ Running /\ rpc = "measure"
  /\ IF sinceSend - CommDelay < 0
     THEN rpc' = "top" /\ UNCHANGED sync
     ELSE /\ sync' = [sync EXCEPT !.delta = sinceSend - CommDelay,
                                 !.theirs = dynamicID[from]]
          /\ rpc' = "slot"
  /\ UNCHANGED <<tableVars, linkVars, roundVars, mainVars, from, stateTable,
                 received, delay, timer, end, itimer, options, heard>>

\* ... then the slot of this agent,
TakeSlot ==
  /\ Running /\ rpc = "slot"
  /\ sync' = [sync EXCEPT !.mine = dynamicID[Me]]
  /\ rpc' = "expect"
  /\ UNCHANGED <<tableVars, linkVars, roundVars, mainVars, from, stateTable,
                 received, delay, timer, end, itimer, options, heard>>

\* ... then the number of slots.
Expect ==
  /\ Running /\ rpc = "expect"
  /\ LET e == ExpectedDiff(sync.theirs, sync.mine, RUNNING_AGENTS)
     IN  sync' = [sync EXCEPT !.expected = e, !.delta = @ - e]
  /\ rpc' = "adjust"
  /\ UNCHANGED <<tableVars, linkVars, roundVars, mainVars, from, stateTable,
                 received, delay, timer, end, itimer, options, heard>>

\* Dynamic agent 0 measures how late the others are, the others follow it.
Adjust ==
  /\ Running /\ rpc = "adjust"
  /\ delay' = IF /\ sync.mine = 0
                 /\ sync.delta > delay /\ sync.delta < MAX_DELTA
                 /\ sync.delta > MinUpdateDelay
              THEN sync.delta ELSE delay
  /\ itimer' = IF sync.mine # 0 /\ sync.theirs = 0
               THEN TTUP - sync.expected - CommDelay ELSE itimer
  /\ rpc' = "top" /\ sync' = NoSync
  /\ UNCHANGED <<tableVars, linkVars, roundVars, mainVars, from,
                 stateTable, received, timer, end, options, heard>>

Receiver ==
  \/ RecvTop \/ RecvWoken
  \/ \E o \in StoreOutcomes : Store(o)
  \/ Mark \/ (\E d \in SendToReceive : Measure(d)) \/ TakeSlot \/ Expect \/ Adjust

Arrival == \E a \in Agents, c \in Counters, v \in Visions : Receive(a, c, v)
-----------------------------------------------------------------------------
(* Signals. *)

Alarm ==
  /\ Running /\ timer < MaxTimer
  /\ timer' = timer + 1
  /\ UNCHANGED <<tableVars, linkVars, roundVars, mainVars, recvVars, stateTable,
                 received, delay, end, itimer, options, heard>>

\* The third SIGINT aborts.
Interrupt ==
  /\ Running /\ end < MaxInterrupts
  /\ end' = end + 1
  /\ mpc' = IF end' = 3 THEN "aborted" ELSE mpc
  /\ UNCHANGED <<tableVars, linkVars, roundVars, mi, mj, recvVars, stateTable,
                 received, delay, timer, itimer, options, heard>>

Stopped == ~Running /\ UNCHANGED vars

Next == Main \/ Receiver \/ Arrival \/ Alarm \/ Interrupt \/ Stopped

Spec == Init /\ [][Next]_vars

\* Both threads are SCHED_FIFO at one priority and block only in usleep and
\* recv, so each of them goes on; whether frames arrive is not theirs.
FairSpec == Spec /\ WF_vars(Main) /\ WF_vars(Receiver)
-----------------------------------------------------------------------------
Peers == Agents \ {Me}

TableOK ==
  /\ state \in [Agents -> States]
  /\ dynamicID \in [Agents -> 0 .. N - 1]
  /\ removeCounter \in [Agents -> 0 .. MaxRemoveTicks - 1]
  /\ silence \in [Agents -> 0 .. MaxRemoveTicks + 1]

LinkOK ==
  /\ lastFrameCounter \in [Agents -> 0 .. CounterMod - 1]
  /\ lostPackets \in [Agents -> Int]
  /\ stateTable \in [Agents -> [Agents -> States]]

FlagOK ==
  /\ received \in [Agents -> BOOLEAN]
  /\ heard \in [Agents -> BOOLEAN]

RoundOK ==
  /\ RUNNING_AGENTS \in 1 .. N
  /\ MAX_DELTA \in Nat
  /\ frameCounter \in 0 .. CounterMod - 1

TimeOK ==
  /\ delay \in Nat
  /\ timer \in Nat
  /\ end \in 0 .. 3
  /\ itimer \in Int
  /\ options \in [nosend : BOOLEAN, unsync : BOOLEAN]

PlaceOK ==
  /\ mpc \in {"top", "wake", "update", "renumber", "batch", "send", "reset",
              "join", "finished", "aborted"}
  /\ mi \in 0 .. N
  /\ mj \in 0 .. N
  /\ rpc \in {"top", "recv", "store", "mark", "measure", "slot", "expect", "adjust",
              "exited"}
  /\ from \in Agents
  /\ sync \in [theirs : 0 .. N - 1, mine : 0 .. N - 1, expected : Int, delta : Int]

\* The type of every variable; RUNNING_AGENTS, which both threads divide by, is
\* positive (comm.cpp:102, 577).
TypeOK == TableOK /\ LinkOK /\ FlagOK /\ RoundOK /\ TimeOK /\ PlaceOK

\* No renumbering of the team is under way.
Settled == mpc \in {"top", "wake", "batch", "send", "reset", "join", "finished"}

(***************************************************************************)
(* Safety.  Outside a renumbering the members of the roster occupy the     *)
(* slots 0 .. RUNNING_AGENTS - 1, one each and in agent order, whatever    *)
(* the receive thread does meanwhile: two agents that agree on the roster  *)
(* agree on every slot, and no slot of the period is left empty            *)
(* (comm.cpp:567-575).                                                     *)
(***************************************************************************)
Slots ==
  Settled =>
    /\ \A a, b \in Roster(state) : a < b => dynamicID[a] < dynamicID[b]
    /\ \A a \in Roster(state) : dynamicID[a] < RUNNING_AGENTS
    /\ \A k \in 0 .. RUNNING_AGENTS - 1 :
         \E a \in Roster(state) : dynamicID[a] = k

\* removeCounter counts the silent rounds of a peer under removal from the
\* first one, never a leftover of an earlier removal: a member that answered
\* in its last round has the whole grace period before it (comm.cpp:165-181).
GraceIsWhole ==
  \A p \in Peers :
    /\ state[p] = "RUNNING" => silence[p] = 0
    /\ state[p] = "REMOVE" => silence[p] = removeCounter[p] + 1
    /\ state[p] # "REMOVE" => removeCounter[p] = 0

\* The roster of this process is a Membership with that grace period: a peer
\* enters on a received frame only, and leaves exactly when MaxRemoveTicks + 1
\* rounds in a row went by without one.
M == INSTANCE Membership WITH Grace <- MaxRemoveTicks, roster <- Roster(state)
ImplementsMembership == M!Spec

\* In the shipped build (comm.h:21) the flag that feeds the state table is
\* never set, so however many frames arrive the process stays alone in its
\* view of the team: every peer NOT_RUNNING, one slot, its own.
ShippedAlone ==
  options.unsync => /\ \A p \in Peers : state[p] = "NOT_RUNNING" /\ ~received[p]
            /\ RUNNING_AGENTS = 1 /\ dynamicID[Me] = 0
            /\ delay = 0 /\ itimer = TTUP

\* The timer is only ever armed with a positive first expiry (zero would
\* disarm it, a negative one is refused by setitimer), although the slot
\* numbers, the divisor and the delay behind it are read in the middle of a
\* renumbering (comm.cpp:102-126, 547-557).
TimerArmed == itimer > 0

\* Dynamic agent 0 never puts off its round by two thirds of a period or more,
\* even if the limit that admitted the delay has shrunk since (comm.cpp:110-113).
DelayBelowPeriod == 3 * delay < 2 * TTUP

\* Where the update looks at a peer, a set flag means a frame handled since
\* the previous update: no frame keeps a peer alive for two rounds
\* (comm.cpp:645-648).
FlagIsFresh ==
  \A p \in Peers : mpc = "update" /\ mi = p /\ received[p] => heard[p]

\* comm.h:75 describes the flag as "received from agent in the last Ttup?":
\* a peer whose frame was handled since the last update is seen by the next.
FlagIsKept ==
  \A p \in Peers : mpc = "update" /\ mi = p /\ heard[p] => received[p]

\* comm.cpp:119, "only sync from dynamic agent 0": the timer is only set after
\* a frame of the first agent of the roster.
SyncsFromFirst ==
  [][itimer' # itimer /\ rpc = "adjust" =>
       \A a \in Roster(state) : from <= a]_vars

(***************************************************************************)
(* Liveness.  A SIGINT ends the process: the main thread gets out of its   *)
(* loop, with and without -nosend, and the receive thread, which may sit   *)
(* in recv for ever, is woken by closeSocket, so the join returns          *)
(* (comm.cpp:531, 656-658).                                                *)
(***************************************************************************)
ShutdownCompletes == end # 0 ~> ~Running

\* A peer that crashes is given up in the end, as long as rounds get through
\* to their reset: once no frame of it is handled any more, it becomes
\* NOT_RUNNING for good.
CrashDetected ==
  \A p \in Peers :
    /\ []<>(mpc = "reset")
    /\ <>[](rpc \in {"top", "recv"} \/ from # p)
    => <>[](state[p] = "NOT_RUNNING")
=============================================================================
