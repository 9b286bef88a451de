# Verification of cambada-rtdb2

RtDB2 is the real-time database of a team of robots. The processes of one robot
share data through key-value stores on shared memory (LMDB); a process called
`comm` broadcasts the shared keys of the robot to the team once a period and
writes what it hears from the others into the local copies of their stores.

Paths below are relative to the repository (`src/comm/comm.cpp` is
`src/src/comm/comm.cpp` in `PROJECT.json`).

## 1. Inventory

| component | state | operations | interacts with |
|---|---|---|---|
| comm process (`src/comm/comm.cpp`, `comm.h`) | `agent[]` (state, slot, flags, counters), `RUNNING_AGENTS`, `MAX_DELTA`, `delay`, `timer`, `end` | `main` round, `update_stateTable`, `receiveDataThread`, `sync_ratdma`, `signal_catch`, start and end | two threads and two signals over unprotected globals; adapter; socket |
| RtDB2 store access (`src/rtdb2/RtDB2.cpp`, `RtDB2.h`) | local and remote stores, `sync_` list, `batch_counter_` | `put`, `put_root`, `get`, `get_batch`, `put_batch`, time stamp in and out | configuration, LMDB store, serializer |
| LMDB store (`src/rtdb2/storage`) | one environment per agent, opened lazily | `insert`, `fetch`, `fetch_all_data`, `insert_batch`, `dump` | LMDB transactions between processes |
| configuration (`RtDB2Configuration.cpp`) | defaults, key details, id maps | parse with warnings, associate, look-ups with defaults | XML file |
| adapter (`src/rtdb/rtdb2_adapter.*`) | map of `RtDB2` objects per agent, `__agent` | `DB_init`, `DB_put`, `DB_get`, `DB_comm_put`, `DB_get_batch`, `DB_put_batch`, `DB_free` | comm, robot software |
| RTDB version 1 (`src/rtdb/rtdb_api.c`) | System V segments: definitions, and areas of records with two banks each | `DB_init`, `DB_put`, `DB_get`, `DB_free`, `DB_comm_*` | parallel processes, no lock |
| sockets (`multicast.cpp`, `MulticastSocket.*`) | socket, addresses | open, send, receive, close, compression | kernel |
| network configuration (`NetworkConfig.cpp`) | chosen network's settings | `get_network_config` | file |
| xrtdb (`src/rtdb/parser`) | agents, items, schemas, assignments | parse, verify, ask, write `rtdb_user.h` and `rtdb2_configuration.xml` | files, the user |
| compressors, serializer, dictionary generator, python tools | none, or a dictionary | encode and decode | libraries |

What makes each of them correct, and what makes it hard:

* **comm process.** Membership: a peer gets a slot on evidence that it sends and
  loses it only after a whole grace period. Slots of the round are dealt without
  gaps or doubles. Hard: the receive thread reads and writes the same table at any
  point of the main thread's loops; rounds are cut short by exceptions; the flag that
  drives it all is set in one thread and cleared in the other.
* **RtDB2.** A copy of a key is a value its owner wrote, only shared keys leave
  the robot, at their period, and the age that `get` reports is the true age up to
  the modelled delay although no two clocks agree. Hard: frames are lost, doubled
  and reordered; putting and collecting run in different processes.
* **LMDB store.** A batch is all or nothing for every reader. Hard: readers and
  writers in several processes, environments created lazily.
* **RTDB version 1.** Whoever is attached finds what the configuration says, and a
  reader gets one value that was written, with its own time stamp. Hard: no lock,
  only two banks; a slow reader is lapped; who is first and who is last is read off
  the number of attachments; killed processes leave segments behind.
* **adapter.** Every agent number reaches its own store. Hard: `SECOND_RTDB`.
* **xrtdb and configuration.** A key is shared exactly where the configuration
  means it, and the number a program was compiled with still names it. Hard: two files
  that are replaced one by one, questions to the user, edits by hand, warnings that
  count only in the end.
* **network configuration and start.** comm runs on the network it was asked for, and
  can be stopped at any moment. Hard: settings left behind by other networks, a
  result nobody looks at, a signal before its handler is there.

`PROJECT.json` lists the hazards one by one, each at its line, with the properties
that would notice.

## 2. Plan

Done, in this order: `AgentTable`, `Comm`, `Membership` and their proofs; `Life`,
`RtDB2` and their proofs; version 1 (`Segments`, `RtDB1`); the tools (`Xrtdb`,
`KeyConfig`, `ToolChain`); the start of comm (`NetworkConfig`, `CommStart`); then the
proofs of every safety property of all of them.

Left:

1. `LmdbStore`: environments opened lazily, against an atomic map. It would take
   the hazards at `RtDB2StorageLMDB.cpp:82` and `:101` in.
2. `CommTeam`: several comm processes on the operators of `AgentTable` with `UNSYNC`
   off, and whether their rosters agree. The shipped build does not use them.

`src/rtdb/CMakeLists.txt` builds the adapter only, so the comm process of today
runs on RtDB2; version 1 stays in the tree with the same interface.

## 3. Modules and the code

| module | models | its state | its actions or operators |
|---|---|---|---|
| `CInt` | division and remainder of C | - | `CDiv`, `CMod`: quotient cut towards zero |
| `AgentTable` | `comm.h`, and what `comm.cpp` computes on it | - | `NextState` and `NextTicks` are `update_stateTable` for one peer; `LostAfter` the frame-counter bookkeeping; `ExpectedDiff`, `MaxDelta` the slot arithmetic |
| `Comm` | one comm process at work | `agent[]` field by field, the globals, the place of each thread (`mpc`, `rpc`) and the locals that live across a step | main thread: `LeaveLoop` ... `Finish`; receive thread: `RecvTop`, `Receive`, `Store`, `Mark`, `Measure`, `TakeSlot`, `Expect`, `Adjust`; signals: `Alarm`, `Interrupt` |
| `Membership` | what the state table promises (abstract) | `roster`, `silence` | `Observe` |
| `Comm_proofs` | - | - | the theorems about `Comm` |
| `NetworkConfig` | `get_network_config` | - | `TakeLine`: what one line does to what has been found so far |
| `CommStart` | start and end of comm | the file, what is found in it, `TTUP_US`, the socket's address, the place of each thread, `end` | `ReadLine`, `Configure`, `Schedule`, `OpenSocket`, `StartThread`, `CloseSocket`, `Join`; `Interrupt`; `ThreadTop`, `Received` |
| `Life` | `put_timestamp`, `get_timestamp` | - | `PutTimestamp`, `GetTimestamp` |
| `RtDB2` | the databases of all hosts and the batches between them | `local`, `remote`, `counter`, and one variable for each thing in the making: `writing` (a put), `fetched` (a batch), `storing` (an arrival), `inbox` (frames) | `Put`, `CommPut`, `Insert`; `Fetch`, `Send`, `BatchFails`; `Receive`, `InsertBatch`; `Restart`; `Tick`; operator `Get` |
| `Life_proofs`, `RtDB2_proofs`, `RtDB2Order_proofs` | - | - | the theorems about them |
| `Segments` | the shared memory of version 1: `DB_initialization`, `_DB_free`, `read_configuration` | `seg`, `def`, `hdr`; per process `pc`, `got`, `conf` | `Start`, `Load`, `Attach`, `Check`; `Leave`, `Detach`; `Crash` |
| `RtDB1` | version 1 at work | `mem` word by word, `op` | `DBPut`, `DBCommPut`, `PutCell`, `PutEnd`; `DBGet`, `GetCell`; every step of `Segments` |
| `Xrtdb` | the functions the grammar calls, `main` and both printers | the four lists, the open block, the two files, `map` | one action per function; `NoUserFile` ... `PrintRtDB2File`; `NoAnswer` |
| `Segments_proofs`, `RtDB1_proofs` | - | - | the theorems about them |
| `KeyConfig` | `RtDB2Configuration` | - | `Parse`, which is `AfterGeneral` and `AfterKeys`, and the look-ups |
| `ToolChain` | `Xrtdb`, an editor, and `KeyConfig` over the same file | `config`, `edits` | `Generate`, `Edit`, `Load` |
| `CommStart_proofs`, `ToolChain_proofs` | - | - | the theorems about them |
| `MCComm`, `MCRtDB2`, `MCRtDB1`, `MCToolChain`, `MCCommStart` | - | - | values for the constants of the runs |

Definitions that begin with "Faulty variant" are not part of a model. Each is what
an action or operator would be after a plausible mistake, and shows that the
property next to it can fail.

### Comm

The main thread is cut at the accesses to data the receive thread writes, and the
other way round. One pass of the loop in `update_stateTable` is one step
(`UpdateAgent`), and so is one pass of the renumbering (`Renumber`) and of the
reset (`Reset`), because a frame may be handled between any two of them. The rest
of a round is one step for each way it can end: `Postpone` and `StartRound` are the
two branches after `usleep`, `GetBatch("failed")` stands for the exceptions and the
size test, all of which leave by `continue`.

The receive thread takes a frame (`Receive`: own frames are skipped, counter and
table of the sender are copied before the size is compared), stores its records
(`Store`) and runs `sync_ratdma`: the flag and the roster test (`Mark`), the real
difference and the slot of the sender (`Measure`), the own slot (`TakeSlot`), the
number of slots and with it the expected difference (`Expect`), and the two reactions
(`Adjust`). The main thread may deal the slots anew between any two of them. Each
slot is loaded once and used for the difference and for the decision (`sync` keeps
it), as the optimised build does: nothing between the uses in `comm.cpp:102-120` lets
the compiler load it again. In the shipped build, `comm.h:21` defines `UNSYNC` and
these steps do not exist. The variable `options`, which never changes, holds the build
(`unsync`) and the command line (`nosend`); the constant `Options` says which of them
a run starts from.

The team is open: any frame of any agent may arrive at any time, which includes
lost, doubled and late frames and peers that crash or restart. `SendToReceive`
holds the time between the last own frame and the one that arrives: both are wall
clock readings, so it is chosen freely instead of derived from the order of steps.

`silence` and `heard` are history variables. No guard reads them.

### CommStart

What `Comm` takes for granted. A line of `comm_network.conf` is a record of what is
in it. `get_network_config` reads line by line (`ReadLine`), and `Configure` is what
`main` then makes of it: the result is kept in `ok` and nobody looks at it. Each later
call that may fail is a step with both outcomes. SIGINT has its default action up to
`signal`, and `signal_catch` afterwards, which counts and ends the process the third
time. `Received` is `recvfrom` returning, with a frame or because of `shutdown`.

### RtDB2

One LMDB transaction is one step. What a process does before or after it is a step
of its own: a value is stamped (`Put`, `CommPut`) and inserted later (`Insert`), a
batch is fetched (`Fetch`) and later filtered, given ages, counted and broadcast
(`Send`), an arrival is stamped (`Receive`) and inserted later (`InsertBatch`).
`put_core` chooses the store from the key: a shared key goes to
`remote[h][dst]`, a local one to `local[h]` whatever `dst` is.

Times are microseconds and are really split into seconds and microseconds, as
`gettimeofday` gives them. `Skew` is what the clock of a host shows at time 0, so
no two hosts agree on the time. A frame may be in one receiver's inbox and not in
another's, may be taken twice or out of order (unless `Ordered`), and arrives
within `MaxTransit`.

`Restart` kills the comm process of a host and starts it again. The stores are in
shared memory and survive, the batch counter does not.

`log`, `skipped` and the fields `host`, `born` and `by` of an item are history; no
guard reads their content (the length of `log` numbers the values and bounds them).

### Segments and RtDB1

`Segments` is the life of the shared memory of one agent. `shmget` and `shmat` of one
segment are one step, and so are `shmdt`, `shmctl` and the removal; between those
steps the other processes run. `Load` is the branch of the process that finds itself
alone on the definitions, `Check` that of the one that finds itself alone on the local
area. The sizes of areas are computed as the code does, with what the segment of
definitions still holds added in. `Crash` kills a process anywhere: the kernel
detaches its segments and removes none.

`RtDB1` adds the records. A put writes its bank word by word, the two halves of the
time stamp last (`PutCell`), and turns `read_bank` (`PutEnd`); a get reads word by
word (`GetCell`), and looks `read_bank` up again for the time stamp, as
`rtdb_api.c:494-498` do. `mem` holds, for an address, which put wrote it.

`Serial` keeps starts, ends and deaths of processes apart. Without it the code is
wrong in a way that has no line to blame: two processes that start at once may both
find another attached, and then nobody lays the areas out
(`ReadyMeansConfigured` falls after 6 states). Puts and gets of the others do go on
while a process starts, stops or dies.

### Xrtdb, KeyConfig and ToolChain

The grammar calls a function per clause, and the actions are those functions in any
order the grammar allows; `RaiseError` is every other file. `main` then asks about
and writes `rtdb_user.h`, gives up without assignments, and asks about and writes
`rtdb2_configuration.xml`, where every item that is met again while it counts as
local is another question. A question without an answer (end of input) is an
assertion, which the release build keeps: the process ends there, and what it has
removed or opened stays removed or half written (`Broken`).

`KeyConfig` takes the file as the lists of elements that the scanner finds.
A warning does not stop the reading but fails it in the end (`warned`).

`ToolChain` puts the three people of the matter together: who runs xrtdb over an
earlier run's files, who edits the XML by hand (`Edit`: any attribute changed, added
or removed, any element misspelt, removed or repeated, a section repeated), and the
process that reads it.

## 4. Runs

Every bound below is a constant of the module, set in the `.cfg`. Deadlock is
checked in all `comm_*` runs, where `Stopped` is the terminated process. The others
allow it, because their systems come to rest: puts, time and edits are bounded,
xrtdb and the start of comm come to an end.

| run | question | bounds |
|---|---|---|
| `comm_sync` | `TypeOK`, `Slots`, `GraceIsWhole`, and `ImplementsMembership`: is the table a `Membership` under every interleaving? | 3 agents, grace 2, all outcomes of batches and stores |
| `comm_timing` | Is the timer always armed (`TimerArmed`), the delay limited (`DelayBelowPeriod`), and a flag never older than a round (`FlagIsFresh`)? | 3 agents seen by the last of them, grace 1, every batch fits |
| `comm_live` | Does SIGINT end the process (`ShutdownCompletes`), a dead peer leave (`CrashDetected`), and the shipped build stay alone (`ShippedAlone`)? | 2 agents, both builds, with and without `-nosend`, up to 3 SIGINTs |
| `net` | Are the settings those of the network (`SettingsAsWritten`), does comm run where it was asked to (`RunsWhereAsked`), and does SIGINT end it whenever it comes (`InterruptEnds`)? | every file of up to 4 lines out of 8, two networks and no name |
| `rt_sharing` | `TypeOK`, who may hold what (`LocalStaysLocal`, `OnlyOwnData`) and how old it seems (`AgesAccurate`) | 2 hosts, one key of each kind, one put each, one frame waiting per host, 3 us, unordered network |
| `rt_live` | Does every key get through in its period (`NoKeyStarves`, `Converges`), never go back (`NeverBack`), and is a copy a cut of its owner's history (`CopyIsCut`)? | 3 keys, periods 2 and 3, counter modulo 5, 2 puts |
| `v1` | `TypeOK`; is the memory what the file says (`ReadyMeansConfigured`, `RecordsApart`, `OthersUndisturbed`), does it go when all have gone (`CleanExit`) and recover from killed processes (`FailureHeals`); how recent is what a get returns (`ReadIsRecent`, `LifeIsRecent`)? | 2 processes, 4 files, 2 agents, a header of 5 words, 2 puts of each record, 2 processes killed |
| `tool_chain` | `TypeOK`; is no item made local unasked (`NothingWithheld`), do the numbers fit the names (`IdsResolve`), is a configuration read as a whole (`AllOrNothing`) and as written (`DetailsAsWritten`)? | one agent, 2 items whose names differ in case, 2 schemas, 2 assignments, one edit |
| `comm_lost_flag`, `comm_sync_source`, `rt_comm_put`, `tool_prompt` | findings, section 6 | as above |

Why the bounds are enough to be worth something:

* Three agents let one process be first, middle or last of a roster, with a roster
  that has gaps before and after it: `Slots` compares two members with the agent in
  between, the grace period concerns one peer at a time. The proofs lift the number.
* A grace of 2 rounds has a first, a middle and a last silent round; the counter is
  left over, cleared or run over within it. `comm_timing` needs no more than 1: it
  asks about slots, not about the counter.
* The period is 12 units, divisible by every number of agents in use. An arrival 9
  units after the own frame is 8, 4, 2 or 0 units late depending on the slots the
  thread finds, so it is on both sides of `MAX_DELTA` (8, 4 or 2 units). `comm_timing`
  is seen by agent 2, whose slot changes when a lower one comes or goes.
* A millisecond has 2 microseconds and a second 2 milliseconds. The three ticks of
  `rt_sharing` cross a millisecond and, with the skew of 7 (a second, a millisecond
  and a microsecond), a second; both cuts, and a microsecond part below zero, occur.
* Period 2 and 3 with a phase on one of them and a counter modulo 5 make the counter
  wrap in the middle of a period of each. Two of the three keys have one schedule,
  which is what `CopyIsCut` compares.
* One frame per inbox bounds how many frames overlap, not which: a frame may still
  be taken twice, lost, or stay behind while newer batches are made.
* Four lines are a network with a setting, another one and a `default`: enough for
  a setting before and after either mark, a repeated one and a repeated network.
* Two puts lap a reader: the second goes back to the bank the reader began in. A
  record of two words can be torn. Two killed processes are one in a start and one in
  the start that finds its remains.
* Two schemas that both name both items, in any order and either way, give an item
  up to four mentions; a third adds a repetition.

## 5. Fairness

* `Comm`: weak fairness of `Main` and of `Receiver`. Both threads are `SCHED_FIFO`
  at one priority and block only in `usleep` and `recv`. The arrival of frames is
  not fair. `CrashDetected` has two premises: rounds keep getting through to their
  reset (else a stale flag keeps the peer alive, section 6), and from some moment on
  no frame of that peer is handled.
* `CommStart`: weak fairness of `Main`, of `ThreadTop`, and of `Received` once the
  socket is shut down, because `shutdown` makes `recvfrom` return. That another frame
  arrives is not assumed, so that a receive thread that waits for ever is a behaviour.
* `RtDB2`: weak fairness of `Insert`, `Receive` and `InsertBatch`, a process or a
  thread in the middle of an operation. Sending is not fair. `Converges` has the
  premise `LinkWorks`: again and again a frame in which the key is due reaches the
  receiver. Without it a link may lose just every second frame, and a key with
  period 2 never arrives; nothing in the code prevents that.

`RtDB1` and `ToolChain` state no fairness: their properties are safety.

## 6. Findings

1. `comm_lost_flag`. `comm.h:75` calls the flag "received from agent in the last
   Ttup?". It is cleared for all peers at the end of the round
   (`comm.cpp:645-648`), long after the update looked at it (`comm.cpp:564`): a
   frame handled in between counts for no round, and the peer looks silent.
2. `comm_sync_source`. `comm.cpp:119` says "only sync from dynamic agent 0". Between
   the update and the renumbering (`comm.cpp:564-575`) a newcomer is `RUNNING` with
   the slot 0 it was initialised with, and the timer is set after its frame.
3. `rt_comm_put`. `rtdb2_adapter.h:81-82` refuses `DB_comm_put` for the running
   agent; `put_core` (`RtDB2.h:79-84`) ignores the destination of a key that is not
   shared, so `DB_comm_put(other, key, ...)` overwrites the agent's own value.
   Version 1 refused this as well (`rtdb_api.c:532-535`).
4. `tool_prompt`. `rtdb_ini_creator.c:249` tells the user that an item is local for
   some agents and shared for others, and asks. Line 236 takes any second mention of
   an item that counts as local for such a conflict: an item that two schemas, or one
   schema assigned twice, both call local is asked about as well.

Other things the models showed, for which no run is kept:

* A round that ends in `continue` (exception, batch too big, `comm.cpp:589-614`) does
  not clear the flags: one frame counts for two rounds or more. `FlagIsFresh` holds in
  `comm_timing` because every batch fits there, and falls with `BatchOutcomes`
  `{"ok", "failed"}`.
* Version 1. The time stamp of a get may belong to another bank than its value
  (`rtdb_api.c:494-498`). After all processes were killed the next start adds the
  sizes to those still there (`rtdb_api.c:297-308`), `shmget` refuses, and the failed
  start takes the definitions away, so that the second succeeds; a configuration that
  has grown meanwhile fails for ever. An agent that shares nothing needs a segment of
  no bytes and never starts. A start over remains sets `read_bank` to 0, whatever bank
  is newest; a process that is killed or leaves while another one starts makes that
  one lay the areas out from an `rtdb_conf` it has not filled in.
* Start of comm. If no network is named and none is marked as the default, the
  settings of all of them have been taken, one over the other, and comm runs on the
  mixture; the usage text (`comm.cpp:362`) speaks of the default network. The
  default network inherits what the networks before it have said. A frequency of 1, or
  a negative one, gives an interval that `setitimer` refuses, unchecked.
* Tools. `rtdb.conf` documents `period = <number>`, and the grammar wants an
  identifier. A refusal, or a file that cannot be opened, still ends with 0.
  `rtdb_user.h` is replaced before the missing assignments are noticed. Of two items
  whose names differ in case only the first in the order of `strcmp` counts for both.
  A key's period of 0, or one that is no number, passes and is a division by zero in
  `RtDB2.cpp:122`. A string look-up does not fold the case that the file's names are
  folded to.
* From 63 Hz on, with 8 agents, a slot is shorter than the travel time that
  `comm.cpp:122` takes off, and the value it hands to `setitimer` may be 0 or less:
  the timer of that process is off (`TimerCorrect` says that it is not before).
* A batch within a frame header of `BUFFER_SIZE` passes the test (`comm.cpp:611`) and
  does not fit `sendBuffer` together with the header.

## 7. Theorems

All are proved for every value of the constants that the named assumptions of the
modules admit: `TableConstants`, `CommConstants`, `LifeConstants`, `RtDB2Constants`,
`SegmentsConstants`, `XrtdbConstants`, `KeyConfigConstants`, `ToolChainConstants` and
those of `NetworkConfig` and `CommStart`. They say that numbers are numbers, that
periods, units and thresholds are positive, and that files are made of lines, records
or elements; TLC evaluates them on every run. The bounds of the runs are ordinary
constants, so the theorems hold for every bound. What a theorem supposes beyond that
stands in its statement and below.

**comm** (`Comm_proofs`).

* `TypeCorrect`. `TypeOK` alone is not inductive: that the divisor
  `RUNNING_AGENTS` is positive needs that the process itself is on the roster,
  so the invariant adds the slot counter `mj` at each place of the renumbering and
  `state[Me] = "RUNNING"` (`TypeInv`).
* `GraceCorrect`. `GraceIsWhole` is inductive relative to `TypeInv`.
* `SlotsCorrect`. The invariant `SlotsInv` says of every place in the renumbering
  what is already dealt: the members below `mi` occupy the slots below `mj`.
  The receive thread changes nothing it speaks of.
* `AloneCorrect`. With `options.unsync` the receive thread never reaches the step that sets
  a flag; the invariant carries this through the table to the slots.
* `CommImplementsMembership`. Each step of `Comm` maps to `Observe` or to a
  stutter; the step of a peer under removal needs `GraceIsWhole` to know
  that its counter and its silence agree.
* `TimerCorrect` supposes that a slot is longer than the travel time
  (`TTUP \div N > CommDelay`). With the numbers of `comm.h` (8 agents, 2000 us) that
  is every frequency below 63 Hz; from there on a process that follows the first one
  can set its timer to 0, which disarms it. The invariant bounds what `Expect` may
  have left for `Adjust`: the thread may compute with its own slot of one round, the
  other's of another and the number of slots of a third, and still the expected
  difference leaves a slot's time. It rests on the arithmetic of C division (`CInt`).
* `DelayCorrect`. The delay is below the `MAX_DELTA` it was compared with, which may be
  another one by the time the main thread waits; but every `MAX_DELTA` is at most two
  thirds of the period, and that is part of the invariant.
* `FlagCorrect` supposes that every batch gets out (`BatchOutcomes` is `{"ok"}`).
  Without it the property is false, see section 6.

**Start of comm** (`CommStart_proofs`). `StartTypes`, `NetworkAsWritten` and
`GroupAsAsked` are read off one invariant. Its part `Reading(file, name, l, network)`
says what `get_network_config` has found after `l` lines in terms of the lines
themselves: which network is open, whether it is the chosen one, and for each
setting the last line that gives it. `ReadLine` adds one line, so no induction but
that of the steps is needed, and the theorems hold for files of any length.

**RtDB2.**

* `Life_proofs!StampExact`, `AgeExact`. A stamp is exactly the clock less the age
  although seconds and microseconds are lowered separately; the age read back is
  cut once, towards zero.
* `RtDB2_proofs`. `TypeInv` gives every store, batch and frame its range of keys;
  `SharingCorrect` is read off it. `Origins` says of every record, in a store or on
  its way, who put it, and relates its stamp or its age to the moment it was put;
  a frame's age is right at the moment it was sent, an arrival's stamp is right up to
  the travel time. `OwnDataCorrect`, `TypeCorrect` and `AgesCorrect` follow from it. The
  properties themselves are not inductive: they say nothing of what is on its way.
* `RtDB2Order_proofs!NoKeyWaits`. Past its phase, a key has been passed over by no more
  batches than the counter is away from its last turn, `(counter - Phase - 1) %
  Period` (`WaitInv`). That is inductive through the wrap of the counter, a restart
  and batches that fail.
* `CopyCorrect`, `NeverBackHolds` suppose `InOrder`: the network keeps the order, a
  host has one put in the making at a time, and nobody calls `DB_comm_put`. Two
  processes that put at once may stamp in one order and insert in the other, and a
  network that reorders undoes both (section 9). `OrderInv` follows a value all the
  way: for each receiver, the owner's store, the batch it has fetched, the frames in
  the line, the arrival that is being stored and the copy are each a cut of the
  owner's history and no later than the one before.

**Version 1** (`Segments_proofs`, `RtDB1_proofs`).

* `NothingLeft` supposes nothing, not even `Serial`: each process that is up holds its
  segments in the order it attached them (`Shape`), a segment without processes
  is removed by the last one, so that with nobody killed none can stay.
* All others suppose `Serial`. `SerialInv` says who may be busy at once (`OneBusy`),
  what the one that loads or lays out has written so far, which sizes the segments
  have, and that the memory only holds what some put wrote.
* `NoOverlap`. The areas are laid out by a loop over the records; that the offset of a
  record is past the banks of every earlier one is proved by induction over the
  records. `NoDisturbance` is an action property read off the same invariant.
* `ReadyIsConfigured` also supposes `SelfListed`: the own number is that of an agent of
  the file. The code indexes its tables with it unchecked.
* `FailureHealed`. After a failed start there are no definitions, or some that have
  been loaded into an empty segment (`HealInv`), and what is left of the other segments
  is large enough for those.
* `ValueRecent`, `AgeRecent`. `RecentInv` relates the banks and what a reader has seen:
  the bank to read is the newest put in all its words, a put in the making works on
  the other one, and in the bank of a get there is nothing older than its start, and
  nothing newer unless a put was completed and another begun since. The proof found `ReadIsRecent`
  to be too strong as it was first stated: a put that began before the get and died
  with its process counted for one that ran meanwhile. It now asks for one put
  completed and another begun since.

**Tools** (`ToolChain_proofs`). `Inv` has three parts.

* `ListsInv` types what the grammar has collected; `TypeCorrect` follows.
* `MapInv` says that after `met` mentions the map holds exactly the items mentioned
  so far, and that one of them is local only if no mention shared it or the last
  answer about it was no. `NothingLost` follows with the lemma that the mentions
  are those of the assigned schemas (`AssignedSharing`).
* `FilesInv` ties the two files to what they were written from, until a hand is laid
  on them, and the configuration to the file it was read from.

`WholeOrNothing` and `ReadAsWritten` then rest on what `Parse` makes of any file
(`ParseRefuses`, `ParseReads`), proved by induction over its elements, and on the lemma that
an edit makes an element of an element (`FileEdited`). `NumbersLeadToKeys` adds
that the sorting by name puts every item at a place of its own (`KeyPlaces`) and that
no two elements have one number. `ToolChainConstants` supposes of the strings only
that `atoi` reads a number as it was printed and that `to_lower` leaves "true" and
"false" alone.

Induction over data. The library's theorems for it cannot be used by the installed
provers. What the proofs about layouts, lines and elements need is derived from
the least element of a set of numbers (`SmallestNat`, `SetInduction`, and `Steps`: a
function that is given by its first value and its steps exists), which is why the
models write their loops as recursive functions.

## 8. Only model-checked

All liveness: `ShutdownCompletes`, `CrashDetected`, `Converges` and `InterruptEnds` are
out of reach of the prover, and so is the fairness they rest on. The runs of section 6
show counterexamples, for which there is nothing to prove.

## 9. Not modelled

* The threads of comm race on plain globals. The models assume that each field is
  loaded once in a function that does not call out between its uses, and that a store
  of an `int` is not torn, which is what the optimised build does.
* Only frames of the agents `0 .. MAX_AGENTS - 1` arrive: no member of a team sends
  another number. For those the code skips its table (`comm.cpp:297, 308`) but
  not the store and the synchronisation.
* Sizes of batches and frames; `-compress`, which packs and unpacks a frame in
  `sendData` and `receiveData`, and `-record`, which writes frames to files.
* Clocks run at the same speed and are never stepped. An age read after a step of the
  clock is off by that step.
* Ages and seconds are unbounded integers. In the code an age of more than 24 days
  does not fit; the arithmetic in `double` is exact for the integers in question.
* Errors of LMDB (a full map, a failed transaction) are not checked by the code and
  not modelled; neither are environments that are opened lazily, the copy `fetch`
  makes after its transaction, and the look-up of a store under `SECOND_RTDB`, which
  always misses.
* `CopyIsCut` and `NeverBack` are checked for a network that keeps the order. The
  code has no defence against a frame that is overtaken: the frame counter is used
  for statistics only.
* Serialization, compression and the dictionary carry values unchanged; their
  failure is `BatchFails`.
* Version 1: `shmat` failing, `DB_init_all`, `DB_free_all`, `DB_set_config_file`,
  `SECOND_RTDB`, and processes that start or stop at the very same time (`Serial`).
  The agents of the file are numbered from 0 on, as the tools write them.
* xrtdb: the names and wording of fields and files; a schema that is first declared
  after an assignment, which leaves assignments with a dangling pointer
  (`rtdb_functions.c:475`); more than 1000 assigned items, for which the array has no
  room; `getSizeof`, which nothing calls.
* `comm_network.conf`: a value that does not follow `=` and a blank is not seen by
  `sscanf` (such a line says nothing); a default network before the first `NETWORK`
  has a name that is not initialised (`Null` in the model).
* The generator of dictionaries, `MulticastSocket` and the line tools, the signal
  helper and the Python tools are offline, or hold no state that others depend on.
