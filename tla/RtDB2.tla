-------------------------------- MODULE RtDB2 --------------------------------
(***************************************************************************)
(* The real-time databases of a team (src/src/rtdb2/RtDB2.cpp, RtDB2.h):   *)
(* on every host a local store, a shared store of its own and a store for  *)
(* what each other agent shares, the processes that put values, and the    *)
(* batches comm carries from host to host.  A store operation is one LMDB  *)
(* transaction and so one step; everything around it can be overtaken.     *)
(*                                                                         *)
(* The network is the environment: it may lose a frame for any of its      *)
(* receivers, delay it up to MaxTransit and, unless Ordered, double and    *)
(* reorder it.  Every host has a clock of its own.                         *)
(***************************************************************************)
EXTENDS Life, SequencesExt

CONSTANTS
  Hosts,         \* the agents, one host each
  Keys,
  SharedKeys,    \* KeyDetail.shared
  Period, Phase, \* KeyDetail.period and .phase_shift
  BatchMod,      \* the unsigned batch counter wraps at 2^32
  CommDelay,     \* COMM_DELAY_MS
  Skew,          \* what a host's clock shows at time 0, in microseconds
  Ordered,       \* the network keeps the order of frames and doubles none
  MaxTransit,    \* longest way of a frame into put_batch, in microseconds
  Senders,       \* the hosts whose comm is not run with -nosend
  Restarting,    \* the hosts whose comm may be killed and started again
  CommLives,     \* ages given to DB_comm_put, {} if it is not used
  Writers,       \* bound: processes in the middle of a put, per host
  MaxPuts,       \* bound: puts of each host
  MaxInbox,      \* bound: frames waiting at a host
  MaxTime        \* bound: microseconds

ASSUME RtDB2Constants ==
  /\ SharedKeys \subseteq Keys
  /\ Period \in [Keys -> Nat \ {0}]
  /\ Phase \in [Keys -> Nat]
  /\ BatchMod \in Nat \ {0}
  /\ CommDelay \in Nat
  /\ Skew \in [Hosts -> Nat]
  /\ Ordered \in BOOLEAN
  /\ MaxTransit \in Nat
  /\ Senders \subseteq Hosts /\ Restarting \subseteq Hosts
  /\ CommLives \subseteq Nat
  /\ MaxPuts \in [Hosts -> Nat]
  /\ Writers \in Nat /\ MaxInbox \in Nat /\ MaxTime \in Nat

VARIABLES
  local,     \* per host, local_: its keys that stay on the host
  remote,    \* per host and agent, remote_: what that agent shares
  writing,   \* per host, puts that are stamped and not yet inserted
  fetched,   \* per host, the records a get_batch has fetched: {} or {store}
  counter,   \* per host, batch_counter_
  storing,   \* per host, the batch put_batch has stamped: {} or {batch}
  inbox,     \* per host, frames on their way to it
  now,       \* real time, in microseconds
  \* history
  log,       \* per host, the keys put so far; a value is its place in the log
  skipped    \* per host and key, batches in a row that went without the key

vars == <<local, remote, writing, fetched, counter, storing, inbox, now, log,
          skipped>>

Clock(h) == TimeOfDay(now + Skew[h])

\* LMDB's put: records over those of a store.  (TLC's own @@ means the same, but
\* the prover has no definition of it.)
Over(items, store) ==
  [k \in DOMAIN items \union DOMAIN store |->
     IF k \in DOMAIN items THEN items[k] ELSE store[k]]

Record(k, item) == [j \in {k} |-> item]

(***************************************************************************)
(* An item is a value with its stamp, and for the properties the host and  *)
(* the moment it was put, and whether by DB_put or by DB_comm_put.         *)
(***************************************************************************)
NewItem(h, life, by) ==
  [val |-> Len(log[h]) + 1, stamp |-> PutTimestamp(Clock(h), life),
   host |-> h, born |-> now, by |-> by]

Init ==
  /\ local = [h \in Hosts |-> <<>>]
  /\ remote = [h \in Hosts |-> [a \in Hosts |-> <<>>]]
  /\ writing = [h \in Hosts |-> {}]
  /\ fetched = [h \in Hosts |-> {}]
  /\ counter = [h \in Hosts |-> 0]
  /\ storing = [h \in Hosts |-> {}]
  /\ inbox = [h \in Hosts |-> <<>>]
  /\ now = 0
  /\ log = [h \in Hosts |-> <<>>]
  /\ skipped = [h \in Hosts |-> [k \in Keys |-> 0]]
-----------------------------------------------------------------------------
(* put_core, up to and from the insertion. *)

Stamp(h, k, dst, life, by) ==
  /\ Cardinality(writing[h]) < Writers
  /\ Len(log[h]) < MaxPuts[h]
  /\ writing' = [writing EXCEPT ![h] =
                   @ \union {[key |-> k, dst |-> dst,
                              item |-> NewItem(h, life, by)]}]
  /\ log' = [log EXCEPT ![h] = Append(@, k)]
  /\ UNCHANGED <<local, remote, fetched, counter, storing, inbox, now, skipped>>

\* DB_put: the value is new, the destination the agent itself.
Put(h, k) == Stamp(h, k, h, 0, "put")

\* Faulty variant of CommPut: no look at the destination.
CommPutAnywhere(h, k, dst, life) == Stamp(h, k, dst, life, "comm_put")

\* DB_comm_put: a value of the given age for the copy of another agent.
CommPut(h, k, dst, life) == dst # h /\ Stamp(h, k, dst, life, "comm_put")

\* The store is chosen by the key; dst only counts for shared keys.
Insert(h, w) ==
  /\ w \in writing[h]
  /\ writing' = [writing EXCEPT ![h] = @ \ {w}]
  /\ IF w.key \in SharedKeys
     THEN /\ remote' = [remote EXCEPT ![h][w.dst] = Over(Record(w.key, w.item), @)]
          /\ UNCHANGED local
     ELSE /\ local' = [local EXCEPT ![h] = Over(Record(w.key, w.item), @)]
          /\ UNCHANGED remote
  /\ UNCHANGED <<fetched, counter, storing, inbox, now, log, skipped>>
-----------------------------------------------------------------------------
(* get_batch and the way to the other hosts. *)

\* Faulty variant of Collected: the local store goes out as well.
CollectedAll(h) == Over(local[h], remote[h][h])

\* What a batch is made of: exclude_local is not given, so it is true.
Collected(h) == remote[h][h]

\* fetch_all_data.
Fetch(h) ==
  /\ h \in Senders
  /\ fetched[h] = {}
  /\ fetched' = [fetched EXCEPT ![h] = {Collected(h)}]
  /\ UNCHANGED <<local, remote, writing, counter, storing, inbox, now, log,
                 skipped>>

\* Faulty variant of Due: the batch of the phase itself is missed.
DueAfterPhase(k, c) == c > Phase[k] /\ (c - Phase[k]) % Period[k] = 0

Due(k, c) == c >= Phase[k] /\ (c - Phase[k]) % Period[k] = 0

\* The records of a store that this batch carries, with ages for stamps.
Batch(h, store) ==
  [k \in {k \in DOMAIN store : Due(k, counter[h])} |->
     [val |-> store[k].val, life |-> GetTimestamp(Clock(h), store[k].stamp),
      host |-> store[k].host, born |-> store[k].born, by |-> store[k].by]]

\* Faulty variant of NextCount: no wrap.
NextCountUnbounded(c) == c + 1

NextCount(c) == (c + 1) % BatchMod

\* The batch is made, and broadcast to the hosts `to' that it reaches; none of
\* them if comm gives the frame up.
Send(h, store, to) ==
  /\ store \in fetched[h]
  /\ \A r \in to : Len(inbox[r]) < MaxInbox
  /\ fetched' = [fetched EXCEPT ![h] = {}]
  /\ counter' = [counter EXCEPT ![h] = NextCount(@)]
  /\ inbox' = [r \in Hosts |->
                 IF r \in to
                 THEN Append(inbox[r], [from |-> h, sent |-> now,
                                        data |-> Batch(h, store)])
                 ELSE inbox[r]]
  /\ skipped' = [skipped EXCEPT ![h] = [k \in Keys |->
                   IF \/ k \notin DOMAIN store
                      \/ k \in DOMAIN Batch(h, store)
                      \/ counter[h] < Phase[k] THEN 0
                   ELSE IF @[k] >= Period[k] THEN @[k] ELSE @[k] + 1]]
  /\ UNCHANGED <<local, remote, writing, storing, now, log>>

\* serialize or compress fails: the counter stays and an empty frame goes out,
\* which no receiver can decompress.
BatchFails(h) ==
  /\ fetched[h] # {}
  /\ fetched' = [fetched EXCEPT ![h] = {}]
  /\ UNCHANGED <<local, remote, writing, counter, storing, inbox, now, log,
                 skipped>>
-----------------------------------------------------------------------------
(* put_batch, up to and from insert_batch. *)

Stamped(h, data) ==
  [k \in DOMAIN data |->
     [val |-> data[k].val,
      stamp |-> PutTimestamp(Clock(h), CommDelay + data[k].life),
      host |-> data[k].host, born |-> data[k].born, by |-> data[k].by]]

\* The receive thread takes the i-th frame, which may arrive once more.
Receive(h, i, again) ==
  /\ storing[h] = {}
  /\ i \in DOMAIN inbox[h]
  /\ Ordered => i = 1 /\ ~again
  /\ storing' = [storing EXCEPT ![h] =
                   {[from |-> inbox[h][i].from,
                     items |-> Stamped(h, inbox[h][i].data)]}]
  /\ inbox' = IF again THEN inbox ELSE [inbox EXCEPT ![h] = RemoveAt(@, i)]
  /\ UNCHANGED <<local, remote, writing, fetched, counter, now, log, skipped>>

\* Faulty variants of Merge: the store becomes the batch, or keeps what it has.
MergeReplaces(store, items) == items
MergeKeeps(store, items) == Over(store, items)

\* The records of the batch are written over those of the store.
Merge(store, items) == Over(items, store)

\* Faulty variant of InsertBatch: a transaction for every record.
InsertOneByOne(h, b) ==
  /\ b \in storing[h]
  /\ \E k \in DOMAIN b.items :
       /\ remote' = [remote EXCEPT ![h][b.from] = Over(Record(k, b.items[k]), @)]
       /\ storing' = [storing EXCEPT ![h] =
                        {[b EXCEPT !.items = [j \in DOMAIN @ \ {k} |-> @[j]]]}]
  /\ UNCHANGED <<local, writing, fetched, counter, inbox, now, log, skipped>>

InsertBatch(h, b) ==
  /\ b \in storing[h]
  /\ storing' = [storing EXCEPT ![h] = {}]
  /\ remote' = [remote EXCEPT ![h][b.from] = Merge(@, b.items)]
  /\ UNCHANGED <<local, writing, fetched, counter, inbox, now, log, skipped>>
-----------------------------------------------------------------------------
\* comm is killed and started again: the stores are in shared memory and stay,
\* batches in the making or in the storing are gone, the counter starts anew.
Restart(h) ==
  /\ h \in Restarting
  /\ fetched' = [fetched EXCEPT ![h] = {}]
  /\ storing' = [storing EXCEPT ![h] = {}]
  /\ counter' = [counter EXCEPT ![h] = 0]
  /\ UNCHANGED <<local, remote, writing, inbox, now, log, skipped>>
-----------------------------------------------------------------------------
\* No frame waits longer than MaxTransit.
Tick ==
  /\ now < MaxTime
  /\ \A h \in Hosts : \A i \in DOMAIN inbox[h] : now - inbox[h][i].sent < MaxTransit
  /\ now' = now + 1
  /\ UNCHANGED <<local, remote, writing, fetched, counter, storing, inbox, log,
                 skipped>>

Next ==
  \/ \E h \in Hosts, k \in Keys : Put(h, k)
  \/ \E h, dst \in Hosts, k \in Keys, life \in CommLives : CommPut(h, k, dst, life)
  \/ \E h \in Hosts : \E w \in writing[h] : Insert(h, w)
  \/ \E h \in Hosts : Fetch(h)
  \/ \E h \in Hosts : \E s \in fetched[h], to \in SUBSET (Hosts \ {h}) : Send(h, s, to)
  \/ \E h \in Hosts : BatchFails(h)
  \/ \E h \in Hosts : \E i \in DOMAIN inbox[h], again \in BOOLEAN : Receive(h, i, again)
  \/ \E h \in Hosts : \E b \in storing[h] : InsertBatch(h, b)
  \/ \E h \in Hosts : Restart(h)
  \/ Tick

Spec == Init /\ [][Next]_vars

\* get: a host's own keys are looked up in its local store first.  The set is
\* empty where get returns RTDB2_KEY_NOT_FOUND.
Get(h, a, k) ==
  IF a = h /\ k \in DOMAIN local[h] THEN {local[h][k]}
  ELSE IF k \in DOMAIN remote[h][a] THEN {remote[h][a][k]} ELSE {}

\* The age get reports, in milliseconds.
ReportedAge(h, item) == GetTimestamp(Clock(h), item.stamp)
-----------------------------------------------------------------------------
Putters == {"put", "comm_put"}

Item  == [val : Nat, stamp : Time, host : Hosts, born : Nat, by : Putters]
Datum == [val : Nat, life : Int, host : Hosts, born : Nat, by : Putters]

\* A store maps some of the keys.
IsStore(f, S) == DOMAIN f \subseteq Keys /\ f \in [DOMAIN f -> S]

StoresOK ==
  /\ \A h \in Hosts : IsStore(local[h], Item)
  /\ \A h, a \in Hosts : IsStore(remote[h][a], Item)

PendingOK ==
  /\ \A h \in Hosts : writing[h] \subseteq [key : Keys, dst : Hosts, item : Item]
  /\ \A h \in Hosts : \A s \in fetched[h] : IsStore(s, Item)
  /\ \A h \in Hosts : \A b \in storing[h] : b.from \in Hosts /\ IsStore(b.items, Item)

FramesOK ==
  \A h \in Hosts : \A i \in DOMAIN inbox[h] :
    /\ inbox[h][i].from \in Hosts \ {h}
    /\ inbox[h][i].sent \in 0 .. now
    /\ IsStore(inbox[h][i].data, Datum)

\* The types of the stores and of everything on its way between them.
TypeOK ==
  /\ StoresOK /\ PendingOK /\ FramesOK
  /\ now \in Nat
  /\ counter \in [Hosts -> 0 .. BatchMod - 1]
  /\ log \in [Hosts -> Seq(Keys)]
  /\ skipped \in [Hosts -> [Keys -> Nat]]

\* A key configured as local never leaves its host, in a frame or into a store
\* other hosts read, and a shared one is never put where comm does not look
\* for it (RtDB2.h:79-84, RtDB2.cpp:105-112).
LocalStaysLocal ==
  /\ \A h \in Hosts : DOMAIN local[h] \cap SharedKeys = {}
  /\ \A h, a \in Hosts : DOMAIN remote[h][a] \subseteq SharedKeys
  /\ \A h \in Hosts : \A i \in DOMAIN inbox[h] :
       DOMAIN inbox[h][i].data \subseteq SharedKeys

\* Nothing is relayed: what a host sends, and what others hold as its data, it
\* has put itself, although DB_comm_put lets a host write into its copies of
\* other agents' stores (RtDB2.cpp:92-96, 105-108).
OnlyOwnData ==
  /\ \A h \in Hosts : \A i \in DOMAIN inbox[h] :
       \A k \in DOMAIN inbox[h][i].data :
         /\ inbox[h][i].data[k].host = inbox[h][i].from
         /\ inbox[h][i].data[k].by = "put"
  /\ \A h, a \in Hosts : \A k \in DOMAIN remote[h][a] :
       remote[h][a][k].host = IF remote[h][a][k].by = "put" THEN a ELSE h

\* Ages need no common clock.  For a value of its own a host reads the true age,
\* cut to milliseconds; for another's, the true age with the assumed travel time
\* in place of the real one, cut twice (RtDB2.cpp:74-85, 130-137, 153-177).
AgesAccurate ==
  \A h, a \in Hosts, k \in Keys : \A item \in Get(h, a, k) :
    item.by = "put" =>
      LET age  == now - item.born
          told == ReportedAge(h, item)
      IN  IF a = h
          THEN told * Milli <= age /\ age < (told + 1) * Milli
          ELSE /\ told * Milli <= age + CommDelay * Milli
               /\ age + CommDelay * Milli - MaxTransit < (told + 2) * Milli

SameSchedule(k, j) ==
  k \in SharedKeys /\ j \in SharedKeys /\ Period[k] = Period[j] /\ Phase[k] = Phase[j]

\* With one process putting and frames in order, a copy is a cut of its owner's
\* history in the keys of one schedule: who sees a value sees every value put
\* before it, or a later one of the same key, also if frames are lost
\* (RtDB2StorageLMDB.cpp:110-155).
CopyIsCut ==
  \A h, a \in Hosts : \A k \in DOMAIN remote[h][a] :
    \A v \in 1 .. remote[h][a][k].val :
      SameSchedule(k, log[a][v]) =>
        /\ log[a][v] \in DOMAIN remote[h][a]
        /\ remote[h][a][log[a][v]].val >= v

\* Every present key goes out once in each period of sent batches, wherever its
\* phase lies, whichever batches fail and however often comm is restarted; only
\* the batches before its phase, after a start or a wrap of the counter, do
\* not count (RtDB2.cpp:117-127, 149).
NoKeyStarves == \A h \in Hosts, k \in SharedKeys : skipped[h][k] < Period[k]

\* With one process putting, and a network that keeps the order, a copy never
\* falls back to an older value nor loses a key (RtDB2.cpp:92-100).
NeverBack ==
  [][\A h, a \in Hosts : \A k \in DOMAIN remote[h][a] :
       /\ k \in DOMAIN remote'[h][a]
       /\ remote'[h][a][k].val >= remote[h][a][k].val]_vars

\* rtdb2_adapter.h:81-82 refuses DB_comm_put on the running agent, "Impossible to
\* write in the running agent!": what the agent reads as its own was put by
\* DB_put.
CommPutSparesSelf ==
  \A h \in Hosts, k \in Keys : \A item \in Get(h, h, k) : item.by = "put"

(***************************************************************************)
(* Liveness.  Puts and the receive thread go on.  Of the links it is asked *)
(* that they do not lose for ever just the frames in which a key is due;   *)
(* which host sends how often is then a matter of the link as well.        *)
(***************************************************************************)
FairSpec ==
  /\ Spec
  /\ \A h \in Hosts :
       /\ WF_vars(\E w \in writing[h] : Insert(h, w))
       /\ WF_vars(\E i \in DOMAIN inbox[h] : Receive(h, i, FALSE))
       /\ WF_vars(\E b \in storing[h] : InsertBatch(h, b))

LinkWorks(a, r, k) ==
  []<><<\E s \in fetched[a], to \in SUBSET (Hosts \ {a}) :
          r \in to /\ Due(k, counter[a]) /\ Send(a, s, to)>>_vars

\* Whatever is put under a shared key, everybody a link leads to gets it, or a
\* later value, at any period and phase.
Converges ==
  \A a \in Senders, k \in SharedKeys : \A r \in Hosts \ {a} :
    LinkWorks(a, r, k) =>
      \A v \in 1 .. MaxPuts[a] :
        (\E item \in Get(a, a, k) : item.val >= v)
          ~> (\E item \in Get(r, a, k) : item.val >= v)
=============================================================================
