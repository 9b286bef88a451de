---------------------------- MODULE RtDB2_proofs ----------------------------
(***************************************************************************)
(* Theorems about RtDB2, for every number of hosts, keys and frames, every *)
(* clock, schedule and delay.  TypeInv says where which keys may be;       *)
(* Origins says of every record, in a store or on its way, who put it and  *)
(* how its stamp or age relates to the moment it was put.                  *)
(***************************************************************************)
EXTENDS RtDB2, Life_proofs, SequenceTheorems

(***************************************************************************)
(* Stores.                                                                 *)
(***************************************************************************)
Stores(D, S) == UNION {[E -> S] : E \in SUBSET D}

\* Membership in Stores, without its union.
LEMMA StoresChar ==
  ASSUME NEW D, NEW S, NEW f
  PROVE  f \in Stores(D, S) <=> DOMAIN f \subseteq D /\ f \in [DOMAIN f -> S]
BY DEF Stores

\* A member of Stores is a store in the sense of RtDB2.
LEMMA StoresIsStore ==
  ASSUME NEW D \in SUBSET Keys, NEW S, NEW f \in Stores(D, S)
  PROVE  IsStore(f, S)
BY StoresChar DEF IsStore

\* Writing one store over another, and one record into a store.
LEMMA OverStore ==
  ASSUME NEW D, NEW S, NEW f \in Stores(D, S), NEW g \in Stores(D, S)
  PROVE  /\ Over(g, f) \in Stores(D, S)
         /\ \A k \in DOMAIN Over(g, f) :
              \/ k \in DOMAIN g /\ Over(g, f)[k] = g[k]
              \/ k \in DOMAIN f /\ Over(g, f)[k] = f[k]
<1>1. /\ DOMAIN f \subseteq D /\ \A k \in DOMAIN f : f[k] \in S
      /\ DOMAIN g \subseteq D /\ \A k \in DOMAIN g : g[k] \in S
  BY StoresChar
<1>2. DOMAIN Over(g, f) = DOMAIN g \union DOMAIN f
  BY DEF Over
<1>3. Over(g, f) \in [DOMAIN g \union DOMAIN f -> S]
  BY <1>1 DEF Over
<1> QED  BY <1>1, <1>2, <1>3, StoresChar DEF Over

LEMMA OneRecord ==
  ASSUME NEW D, NEW S, NEW k \in D, NEW v \in S
  PROVE  /\ Record(k, v) \in Stores(D, S)
         /\ \A j \in DOMAIN Record(k, v) : Record(k, v)[j] = v
BY StoresChar DEF Record

\* What is left of a sequence of frames after one is taken.
LEMMA Taken ==
  ASSUME NEW S, NEW s \in Seq(S), NEW i \in DOMAIN s
  PROVE  /\ RemoveAt(s, i) \in Seq(S)
         /\ \A j \in DOMAIN RemoveAt(s, i) : \E n \in DOMAIN s : RemoveAt(s, i)[j] = s[n]
<1>1. i \in 1 .. Len(s) /\ Len(s) \in Nat
  OBVIOUS
<1> DEFINE p == SubSeq(s, 1, i - 1)
           q == SubSeq(s, i + 1, Len(s))
<1>2. p \in Seq(S) /\ Len(p) = i - 1 /\ \A j \in 1 .. i - 1 : p[j] = s[j]
  BY <1>1
<1>3. q \in Seq(S) /\ Len(q) = Len(s) - i /\ \A j \in 1 .. Len(s) - i : q[j] = s[i + j]
  BY <1>1
<1>4. RemoveAt(s, i) = p \o q
  BY DEF RemoveAt
<1> HIDE DEF p, q
<1>5. /\ p \o q \in Seq(S) /\ Len(p \o q) = Len(s) - 1
      /\ \A j \in 1 .. Len(s) - 1 :
           (p \o q)[j] = IF j <= i - 1 THEN p[j] ELSE q[j - (i - 1)]
  BY SMTT(30), <1>1, <1>2, <1>3
<1>6. ASSUME NEW j \in 1 .. Len(s) - 1
      PROVE  \E n \in 1 .. Len(s) : (p \o q)[j] = s[n]
  <2>1. CASE j <= i - 1
    BY <1>1, <1>2, <1>5, <2>1
  <2>2. CASE ~(j <= i - 1)
    <3>1. j - (i - 1) \in 1 .. Len(s) - i /\ j + 1 \in 1 .. Len(s)
      BY <1>1, <2>2
    <3>2. (p \o q)[j] = s[i + (j - (i - 1))] /\ i + (j - (i - 1)) = j + 1
      BY <1>1, <1>3, <1>5, <2>2, <3>1
    <3> QED  BY <3>1, <3>2
  <2> QED  BY <2>1, <2>2
<1>7. DOMAIN (p \o q) = 1 .. Len(s) - 1 /\ DOMAIN s = 1 .. Len(s)
  BY <1>1, <1>5
<1> QED  BY <1>4, <1>5, <1>6, <1>7

(***************************************************************************)
(* Types, with the keys each store may hold.                               *)
(***************************************************************************)
Write    == [key : Keys, dst : Hosts, item : Item]
Arriving == [from : Hosts, items : Stores(SharedKeys, Item)]
Frame    == [from : Hosts, sent : Nat, data : Stores(SharedKeys, Datum)]

StoreTypes ==
  /\ local \in [Hosts -> Stores(Keys \ SharedKeys, Item)]
  /\ remote \in [Hosts -> [Hosts -> Stores(SharedKeys, Item)]]

MovingTypes ==
  /\ writing \in [Hosts -> SUBSET Write]
  /\ fetched \in [Hosts -> SUBSET Stores(SharedKeys, Item)]
  /\ storing \in [Hosts -> SUBSET Arriving]
  /\ inbox \in [Hosts -> Seq(Frame)]

CountTypes ==
  /\ counter \in [Hosts -> 0 .. BatchMod - 1]
  /\ now \in Nat
  /\ log \in [Hosts -> Seq(Keys)]
  /\ skipped \in [Hosts -> [Keys -> Nat]]

TypeInv == StoreTypes /\ MovingTypes /\ CountTypes

\* A clock shows real time and its skew (RtDB2.cpp:154-155).
LEMMA ClockShows ==
  ASSUME NEW h \in Hosts, now \in Nat
  PROVE  Clock(h) \in Time /\ Micros(Clock(h)) = now + Skew[h]
<1>1. now + Skew[h] \in Nat
  BY RtDB2Constants
<1> QED  BY <1>1, ClockExact DEF Clock

\* A new item carries the moment it was new on the clock of its host.
LEMMA NewItemMade ==
  ASSUME NEW h \in Hosts, NEW life \in Nat, NEW by \in Putters,
         now \in Nat, log \in [Hosts -> Seq(Keys)]
  PROVE  /\ NewItem(h, life, by) \in Item
         /\ NewItem(h, life, by).host = h
         /\ NewItem(h, life, by).born = now
         /\ NewItem(h, life, by).by = by
         /\ Micros(NewItem(h, life, by).stamp) = now + Skew[h] - life * Milli
<1>1. Clock(h) \in Time /\ Micros(Clock(h)) = now + Skew[h]
  BY ClockShows
<1>2. /\ PutTimestamp(Clock(h), life) \in Time
      /\ Micros(PutTimestamp(Clock(h), life)) = Micros(Clock(h)) - life * Milli
  BY <1>1, StampExact
<1>3. Len(log[h]) + 1 \in Nat
  OBVIOUS
<1>4. NewItem(h, life, by) = [val |-> Len(log[h]) + 1,
                                stamp |-> PutTimestamp(Clock(h), life),
                                host |-> h, born |-> now, by |-> by]
  BY DEF NewItem
<1>5. NewItem(h, life, by) \in Item
  BY <1>2, <1>3, <1>4 DEF Item
<1>6. NewItem(h, life, by).stamp = PutTimestamp(Clock(h), life)
  BY <1>4
<1>7. Micros(NewItem(h, life, by).stamp) = Micros(PutTimestamp(Clock(h), life))
  BY <1>6
<1>8. Micros(PutTimestamp(Clock(h), life)) = now + Skew[h] - life * Milli
  BY <1>1, <1>2, RtDB2Constants, UnitsAreNat
<1> QED  BY <1>4, <1>5, <1>7, <1>8

\* An age is an integer for every clock and stamp.
LEMMA AgeIsInt ==
  ASSUME NEW clock \in Time, NEW stamp \in Time
  PROVE  GetTimestamp(clock, stamp) \in Int
<1>1. Micros(clock) \in Int /\ Micros(stamp) \in Int
  BY MicrosIsInt
<1> QED  BY <1>1, AgeExact, CutAndRest, UnitsAreNat

\* A batch has the keys of the store that are due, and an age for each stamp.
LEMMA BatchMade ==
  ASSUME NEW h \in Hosts, NEW store \in Stores(SharedKeys, Item), now \in Nat
  PROVE  /\ Batch(h, store) \in Stores(SharedKeys, Datum)
         /\ \A k \in DOMAIN Batch(h, store) :
              /\ k \in DOMAIN store
              /\ Batch(h, store)[k].life = GetTimestamp(Clock(h), store[k].stamp)
              /\ Batch(h, store)[k].host = store[k].host
              /\ Batch(h, store)[k].born = store[k].born
              /\ Batch(h, store)[k].by = store[k].by
<1> DEFINE E == {k \in DOMAIN store : Due(k, counter[h])}
           D(k) == [val |-> store[k].val,
                    life |-> GetTimestamp(Clock(h), store[k].stamp),
                    host |-> store[k].host, born |-> store[k].born,
                    by |-> store[k].by]
<1>1. Batch(h, store) = [k \in E |-> D(k)]
  BY DEF Batch
<1>2. DOMAIN store \subseteq SharedKeys /\ \A k \in DOMAIN store : store[k] \in Item
  BY StoresChar
<1>3. ASSUME NEW k \in E PROVE D(k) \in Datum
  <2>1. store[k] \in Item /\ Clock(h) \in Time
    BY <1>2, ClockShows
  <2>2. GetTimestamp(Clock(h), store[k].stamp) \in Int
    BY <2>1, AgeIsInt DEF Item
  <2> QED  BY <2>1, <2>2 DEF Item, Datum
<1>4. E \subseteq SharedKeys
  BY <1>2
<1>5. DOMAIN Batch(h, store) = E /\ \A k \in E : Batch(h, store)[k] = D(k)
  BY <1>1
<1>6. Batch(h, store) \in [E -> Datum]
  BY <1>1, <1>3
<1> HIDE DEF E, D
<1>7. Batch(h, store) \in Stores(SharedKeys, Datum)
  BY <1>4, <1>5, <1>6, StoresChar
<1> QED  BY <1>5, <1>7 DEF E, D

\* A batch that arrives has a stamp for each age, the travel time added.
LEMMA StampedMade ==
  ASSUME NEW h \in Hosts, NEW data \in Stores(SharedKeys, Datum), now \in Nat
  PROVE  /\ Stamped(h, data) \in Stores(SharedKeys, Item)
         /\ DOMAIN Stamped(h, data) = DOMAIN data
         /\ \A k \in DOMAIN data :
              /\ data[k] \in Datum
              /\ Micros(Stamped(h, data)[k].stamp)
                   = now + Skew[h] - (CommDelay + data[k].life) * Milli
              /\ Stamped(h, data)[k].host = data[k].host
              /\ Stamped(h, data)[k].born = data[k].born
              /\ Stamped(h, data)[k].by = data[k].by
<1> DEFINE I(k) == [val |-> data[k].val,
                    stamp |-> PutTimestamp(Clock(h), CommDelay + data[k].life),
                    host |-> data[k].host, born |-> data[k].born,
                    by |-> data[k].by]
<1>1. Stamped(h, data) = [k \in DOMAIN data |-> I(k)]
  BY DEF Stamped
<1>2. DOMAIN data \subseteq SharedKeys /\ \A k \in DOMAIN data : data[k] \in Datum
  BY StoresChar
<1>3. ASSUME NEW k \in DOMAIN data
      PROVE  /\ I(k) \in Item
             /\ Micros(I(k).stamp) = now + Skew[h] - (CommDelay + data[k].life) * Milli
  <2>1. data[k] \in Datum /\ Clock(h) \in Time /\ Micros(Clock(h)) = now + Skew[h]
    BY <1>2, ClockShows
  <2>2. CommDelay + data[k].life \in Int
    BY <2>1, RtDB2Constants DEF Datum
  <2>3. /\ PutTimestamp(Clock(h), CommDelay + data[k].life) \in Time
        /\ Micros(PutTimestamp(Clock(h), CommDelay + data[k].life))
             = Micros(Clock(h)) - (CommDelay + data[k].life) * Milli
    BY <2>1, <2>2, StampExact
  <2>4. I(k) \in Item
    BY <2>1, <2>3 DEF Item, Datum
  <2>5. I(k).stamp = PutTimestamp(Clock(h), CommDelay + data[k].life)
    OBVIOUS
  <2>6. Micros(I(k).stamp) = Micros(PutTimestamp(Clock(h), CommDelay + data[k].life))
    BY <2>5
  <2>7. Micros(PutTimestamp(Clock(h), CommDelay + data[k].life))
          = now + Skew[h] - (CommDelay + data[k].life) * Milli
    BY <2>1, <2>2, <2>3, RtDB2Constants, UnitsAreNat
  <2> QED  BY <2>4, <2>6, <2>7
<1>4. /\ DOMAIN Stamped(h, data) = DOMAIN data
      /\ \A k \in DOMAIN data : Stamped(h, data)[k] = I(k)
  BY <1>1
<1>5. Stamped(h, data) \in [DOMAIN data -> Item]
  BY <1>1, <1>3
<1>6. Stamped(h, data) \in Stores(SharedKeys, Item)
  BY <1>2, <1>4, <1>5, StoresChar
<1>7. \A k \in DOMAIN data :
        /\ Micros(Stamped(h, data)[k].stamp)
             = now + Skew[h] - (CommDelay + data[k].life) * Milli
  BY <1>3, <1>4
<1> QED  BY <1>2, <1>4, <1>6, <1>7

(***************************************************************************)
(* TypeInv is inductive: one lemma per action that moves data.             *)
(***************************************************************************)
\* put_core up to the insertion: a new item is a well-formed one.
LEMMA StampTypes ==
  ASSUME TypeInv, NEW h \in Hosts, NEW k \in Keys, NEW dst \in Hosts,
         NEW life \in Nat, NEW by \in Putters, Stamp(h, k, dst, life, by)
  PROVE  TypeInv'
<1> DEFINE w == [key |-> k, dst |-> dst, item |-> NewItem(h, life, by)]
<1>1. w \in Write
  BY NewItemMade DEF TypeInv, CountTypes, Write
<1>2. writing' = [writing EXCEPT ![h] = @ \union {w}]
  BY DEF Stamp
<1> HIDE DEF w
<1>3. writing' \in [Hosts -> SUBSET Write]
  BY <1>1, <1>2 DEF TypeInv, MovingTypes
<1>4. log' = [log EXCEPT ![h] = Append(@, k)]
  BY DEF Stamp
<1>5. log' \in [Hosts -> Seq(Keys)]
  BY <1>4 DEF TypeInv, CountTypes
<1> QED  BY <1>3, <1>5 DEF Stamp, TypeInv, StoreTypes, MovingTypes, CountTypes

\* The insertion: the key decides the store, so it stays in the store's range.
LEMMA InsertTypes ==
  ASSUME TypeInv, NEW h \in Hosts, NEW w \in writing[h], Insert(h, w)
  PROVE  TypeInv'
<1>1. w \in Write
  BY DEF TypeInv, MovingTypes
<1>2. writing' \in [Hosts -> SUBSET Write]
  BY DEF Insert, TypeInv, MovingTypes
<1>3. StoreTypes'
  <2>1. CASE w.key \in SharedKeys
    <3>1. Record(w.key, w.item) \in Stores(SharedKeys, Item)
      BY <1>1, <2>1, OneRecord DEF Write
    <3>2. w.dst \in Hosts /\ remote[h][w.dst] \in Stores(SharedKeys, Item)
      BY <1>1 DEF Write, TypeInv, StoreTypes
    <3>3. Over(Record(w.key, w.item), remote[h][w.dst]) \in Stores(SharedKeys, Item)
      BY <3>1, <3>2, OverStore
    <3>4. /\ remote' = [remote EXCEPT ![h][w.dst] = Over(Record(w.key, w.item), @)]
          /\ UNCHANGED local
      BY <2>1 DEF Insert
    <3> QED  BY <3>2, <3>3, <3>4 DEF TypeInv, StoreTypes
  <2>2. CASE w.key \notin SharedKeys
    <3>1. Record(w.key, w.item) \in Stores(Keys \ SharedKeys, Item)
      BY <1>1, <2>2, OneRecord DEF Write
    <3>2. local[h] \in Stores(Keys \ SharedKeys, Item)
      BY DEF TypeInv, StoreTypes
    <3>3. Over(Record(w.key, w.item), local[h]) \in Stores(Keys \ SharedKeys, Item)
      BY <3>1, <3>2, OverStore
    <3>4. /\ local' = [local EXCEPT ![h] = Over(Record(w.key, w.item), @)]
          /\ UNCHANGED remote
      BY <2>2 DEF Insert
    <3> QED  BY <3>3, <3>4 DEF TypeInv, StoreTypes
  <2> QED  BY <2>1, <2>2
<1> QED  BY <1>2, <1>3 DEF Insert, TypeInv, MovingTypes, CountTypes

\* What is fetched is a store of shared keys.
LEMMA FetchTypes ==
  ASSUME TypeInv, NEW h \in Hosts, Fetch(h)
  PROVE  TypeInv'
<1>1. remote[h][h] \in Stores(SharedKeys, Item)
  BY DEF TypeInv, StoreTypes
<1>2. fetched' \in [Hosts -> SUBSET Stores(SharedKeys, Item)]
  BY <1>1 DEF Fetch, Collected, TypeInv, MovingTypes
<1> QED  BY <1>2 DEF Fetch, TypeInv, StoreTypes, MovingTypes, CountTypes

\* get_batch: the frame is well-formed and the counter stays below its modulus.
LEMMA SendTypes ==
  ASSUME TypeInv, NEW h \in Hosts, NEW s \in fetched[h],
         NEW to \in SUBSET (Hosts \ {h}), Send(h, s, to)
  PROVE  TypeInv'
<1> DEFINE f == [from |-> h, sent |-> now, data |-> Batch(h, s)]
<1>1. f \in Frame
  <2>1. s \in Stores(SharedKeys, Item) /\ now \in Nat
    BY DEF TypeInv, MovingTypes, CountTypes
  <2> QED  BY <2>1, BatchMade DEF Frame
<1>2. inbox' = [r \in Hosts |-> IF r \in to THEN Append(inbox[r], f) ELSE inbox[r]]
  BY DEF Send
<1> HIDE DEF f
<1>3. inbox' \in [Hosts -> Seq(Frame)]
  BY <1>1, <1>2 DEF TypeInv, MovingTypes
<1>4. fetched' \in [Hosts -> SUBSET Stores(SharedKeys, Item)]
  BY DEF Send, TypeInv, MovingTypes
<1>5. counter' \in [Hosts -> 0 .. BatchMod - 1]
  <2>1. counter[h] \in Nat /\ BatchMod \in Nat \ {0}
    BY RtDB2Constants DEF TypeInv, CountTypes
  <2>2. NextCount(counter[h]) \in 0 .. BatchMod - 1
    BY <2>1, Z3 DEF NextCount
  <2> QED  BY <2>2 DEF Send, TypeInv, CountTypes
<1>6. skipped' \in [Hosts -> [Keys -> Nat]]
  <2> DEFINE n == [k \in Keys |->
                     IF \/ k \notin DOMAIN s
                        \/ k \in DOMAIN Batch(h, s)
                        \/ counter[h] < Phase[k] THEN 0
                     ELSE IF skipped[h][k] >= Period[k] THEN skipped[h][k]
                     ELSE skipped[h][k] + 1]
  <2>1. skipped[h] \in [Keys -> Nat]
    BY DEF TypeInv, CountTypes
  <2>2. n \in [Keys -> Nat]
    BY <2>1
  <2>3. skipped' = [skipped EXCEPT ![h] = n]
    BY DEF Send
  <2> HIDE DEF n
  <2> QED  BY <2>2, <2>3 DEF TypeInv, CountTypes
<1> QED  BY <1>3, <1>4, <1>5, <1>6 DEF Send, TypeInv, StoreTypes, MovingTypes, CountTypes

\* put_batch up to insert_batch: stamps take the place of ages.
LEMMA ReceiveTypes ==
  ASSUME TypeInv, NEW h \in Hosts, NEW i \in DOMAIN inbox[h],
         NEW again \in BOOLEAN, Receive(h, i, again)
  PROVE  TypeInv'
<1> DEFINE f == inbox[h][i]
           b == [from |-> f.from, items |-> Stamped(h, f.data)]
<1>1. inbox[h] \in Seq(Frame) /\ f \in Frame /\ now \in Nat
  BY DEF TypeInv, MovingTypes, CountTypes
<1>2. b \in Arriving
  BY <1>1, StampedMade DEF Frame, Arriving
<1>3. storing' = [storing EXCEPT ![h] = {b}]
  BY DEF Receive
<1> HIDE DEF f, b
<1>4. storing' \in [Hosts -> SUBSET Arriving]
  BY <1>2, <1>3 DEF TypeInv, MovingTypes
<1>5. inbox' \in [Hosts -> Seq(Frame)]
  <2>1. RemoveAt(inbox[h], i) \in Seq(Frame)
    BY <1>1, Taken
  <2> QED  BY <2>1 DEF Receive, TypeInv, MovingTypes
<1> QED  BY <1>4, <1>5 DEF Receive, TypeInv, StoreTypes, MovingTypes, CountTypes

\* insert_batch: the batch has shared keys only, and so has the merged store.
LEMMA InsertBatchTypes ==
  ASSUME TypeInv, NEW h \in Hosts, NEW b \in storing[h], InsertBatch(h, b)
  PROVE  TypeInv'
<1>1. b.from \in Hosts /\ b.items \in Stores(SharedKeys, Item)
  BY DEF TypeInv, MovingTypes, Arriving
<1>2. remote[h][b.from] \in Stores(SharedKeys, Item)
  BY <1>1 DEF TypeInv, StoreTypes
<1>3. Over(b.items, remote[h][b.from]) \in Stores(SharedKeys, Item)
  BY <1>1, <1>2, OverStore
<1>4. remote' = [remote EXCEPT ![h][b.from] = Over(b.items, @)]
  BY DEF InsertBatch, Merge
<1>5. StoreTypes'
  <2>1. UNCHANGED local
    BY DEF InsertBatch
  <2> QED  BY <1>1, <1>3, <1>4, <2>1 DEF TypeInv, StoreTypes
<1>6. storing' \in [Hosts -> SUBSET Arriving]
  BY DEF InsertBatch, TypeInv, MovingTypes
<1> QED  BY <1>5, <1>6 DEF InsertBatch, TypeInv, MovingTypes, CountTypes

\* A batch that fails and a restart only give things up.
LEMMA RestTypes ==
  ASSUME TypeInv, NEW h \in Hosts, BatchFails(h) \/ Restart(h)
  PROVE  TypeInv'
<1>1. CASE BatchFails(h)
  <2>1. fetched' \in [Hosts -> SUBSET Stores(SharedKeys, Item)]
    BY <1>1 DEF BatchFails, TypeInv, MovingTypes
  <2> QED  BY <1>1, <2>1 DEF BatchFails, TypeInv, StoreTypes, MovingTypes, CountTypes
<1>2. CASE Restart(h)
  <2>1. /\ fetched' \in [Hosts -> SUBSET Stores(SharedKeys, Item)]
        /\ storing' \in [Hosts -> SUBSET Arriving]
    BY <1>2 DEF Restart, TypeInv, MovingTypes
  <2>2. counter' \in [Hosts -> 0 .. BatchMod - 1]
    BY <1>2, RtDB2Constants DEF Restart, TypeInv, CountTypes
  <2> QED  BY <1>2, <2>1, <2>2 DEF Restart, TypeInv, StoreTypes, MovingTypes, CountTypes
<1> QED  BY <1>1, <1>2

\* Time moves nothing but itself.
LEMMA TickTypes ==
  ASSUME TypeInv, Tick \/ UNCHANGED vars
  PROVE  TypeInv'
<1>1. /\ now' = now \/ now' = now + 1
      /\ UNCHANGED <<local, remote, writing, fetched, counter, storing, inbox,
                     log, skipped>>
  BY DEF Tick, vars
<1>2. now' \in Nat
  BY <1>1 DEF TypeInv, CountTypes
<1>3. StoreTypes'
  BY <1>1 DEF TypeInv, StoreTypes
<1>4. MovingTypes'
  BY <1>1 DEF TypeInv, MovingTypes
<1>5. CountTypes'
  BY <1>1, <1>2 DEF TypeInv, CountTypes
<1> QED  BY <1>3, <1>4, <1>5 DEF TypeInv

\* Empty stores are well-formed.
LEMMA InitTypes == Init => TypeInv
<1> SUFFICES ASSUME Init PROVE TypeInv
  OBVIOUS
<1>1. \A D, S : << >> \in Stores(D, S)
  <2> TAKE D, S
  <2>1. << >> \in Seq(S) /\ Len(<< >>) = 0
    OBVIOUS
  <2>2. DOMAIN << >> = 1 .. 0 /\ << >> \in [1 .. 0 -> S]
    BY <2>1, LenProperties
  <2>3. 1 .. 0 = {}
    OBVIOUS
  <2> QED  BY <2>2, <2>3, StoresChar
<1>2. StoreTypes
  BY <1>1 DEF Init, StoreTypes
<1>3. MovingTypes
  BY DEF Init, MovingTypes
<1>4. CountTypes
  BY RtDB2Constants DEF Init, CountTypes
<1> QED  BY <1>2, <1>3, <1>4 DEF TypeInv

\* Types and the range of keys of every store, for all of RtDB2.
THEOREM TypeInvHolds == Spec => []TypeInv
<1>1. TypeInv /\ [Next]_vars => TypeInv'
  <2> SUFFICES ASSUME TypeInv, [Next]_vars PROVE TypeInv'
    OBVIOUS
  <2>1. ASSUME NEW h \in Hosts, NEW k \in Keys, Put(h, k) PROVE TypeInv'
    BY <2>1, StampTypes DEF Put, Putters
  <2>2. ASSUME NEW h \in Hosts, NEW dst \in Hosts, NEW k \in Keys,
               NEW life \in CommLives, CommPut(h, k, dst, life)
        PROVE  TypeInv'
    <3>1. life \in Nat
      BY RtDB2Constants
    <3> QED  BY <2>2, <3>1, StampTypes DEF CommPut, Putters
  <2>3. ASSUME NEW h \in Hosts, NEW w \in writing[h], Insert(h, w) PROVE TypeInv'
    BY <2>3, InsertTypes
  <2>4. ASSUME NEW h \in Hosts, Fetch(h) PROVE TypeInv'
    BY <2>4, FetchTypes
  <2>5. ASSUME NEW h \in Hosts, NEW s \in fetched[h],
               NEW to \in SUBSET (Hosts \ {h}), Send(h, s, to)
        PROVE  TypeInv'
    BY <2>5, SendTypes
  <2>6. ASSUME NEW h \in Hosts, NEW i \in DOMAIN inbox[h], NEW again \in BOOLEAN,
               Receive(h, i, again)
        PROVE  TypeInv'
    BY <2>6, ReceiveTypes
  <2>7. ASSUME NEW h \in Hosts, NEW b \in storing[h], InsertBatch(h, b) PROVE TypeInv'
    BY <2>7, InsertBatchTypes
  <2>8. ASSUME NEW h \in Hosts, BatchFails(h) \/ Restart(h) PROVE TypeInv'
    BY <2>8, RestTypes
  <2>9. ASSUME Tick \/ UNCHANGED vars PROVE TypeInv'
    BY <2>9, TickTypes
  <2> QED
    BY <2>1, <2>2, <2>3, <2>4, <2>5, <2>6, <2>7, <2>8, <2>9 DEF Next
<1> QED  BY <1>1, InitTypes, PTL DEF Spec

\* A local key stays on its host and a shared one in the stores comm reads: the
\* keys are in the types of the stores (RtDB2.h:79-84, RtDB2.cpp:105-112).
THEOREM SharingCorrect == Spec => []LocalStaysLocal
<1>1. TypeInv => LocalStaysLocal
  <2> SUFFICES ASSUME TypeInv PROVE LocalStaysLocal
    OBVIOUS
  <2>1. \A h \in Hosts : DOMAIN local[h] \cap SharedKeys = {}
    <3> TAKE h \in Hosts
    <3>1. local[h] \in Stores(Keys \ SharedKeys, Item)
      BY DEF TypeInv, StoreTypes
    <3>2. DOMAIN local[h] \subseteq Keys \ SharedKeys
      BY <3>1, StoresChar
    <3> QED  BY <3>2
  <2>2. \A h, a \in Hosts : DOMAIN remote[h][a] \subseteq SharedKeys
    <3> TAKE h, a \in Hosts
    <3>1. remote[h][a] \in Stores(SharedKeys, Item)
      BY DEF TypeInv, StoreTypes
    <3> QED  BY <3>1, StoresChar
  <2>3. \A h \in Hosts : \A i \in DOMAIN inbox[h] :
          DOMAIN inbox[h][i].data \subseteq SharedKeys
    <3> TAKE h \in Hosts
    <3> TAKE i \in DOMAIN inbox[h]
    <3>1. inbox[h] \in Seq(Frame)
      BY DEF TypeInv, MovingTypes
    <3>2. inbox[h][i] \in Frame
      BY <3>1
    <3>3. inbox[h][i].data \in Stores(SharedKeys, Datum)
      BY <3>2 DEF Frame
    <3> QED  BY <3>3, StoresChar
  <2> QED  BY <2>1, <2>2, <2>3 DEF LocalStaysLocal
<1> QED  BY <1>1, TypeInvHolds, PTL

(***************************************************************************)
(* Where records come from and how old they are at time t.                 *)
(***************************************************************************)

\* Put by DB_put on host h: the stamp is the host's clock at that moment.
Own(h, r, t) ==
  /\ r.host = h /\ r.by = "put"
  /\ Micros(r.stamp) = r.born + Skew[h] /\ r.born <= t

\* Put by DB_comm_put on host h.
Given(h, r) == r.host = h /\ r.by = "comm_put"

\* Put on host a, received by host h.  The stamp claims that the record was new
\* at `claim', the travel time left out; that is the true moment or a bit later.
Copied(h, a, r, t) ==
  LET claim == Micros(r.stamp) - Skew[h] + CommDelay * Milli
  IN  /\ r.host = a /\ r.by = "put"
      /\ r.born <= claim /\ claim < r.born + MaxTransit + Milli
      /\ claim - CommDelay * Milli <= t

\* Put on host a and sent at time t with its age.
Carried(a, r, t) ==
  /\ r.host = a /\ r.by = "put"
  /\ r.life * Milli <= t - r.born /\ t - r.born < (r.life + 1) * Milli
  /\ r.life \in Nat

\* In host h's store for agent a.
Kept(h, a, r, t) == IF a = h THEN Own(h, r, t) ELSE Given(h, r) \/ Copied(h, a, r, t)

LocalOrigin ==
  \A h \in Hosts : \A k \in DOMAIN local[h] :
    Own(h, local[h][k], now) \/ Given(h, local[h][k])

RemoteOrigin ==
  \A h, a \in Hosts : \A k \in DOMAIN remote[h][a] : Kept(h, a, remote[h][a][k], now)

WritingOrigin ==
  \A h \in Hosts : \A w \in writing[h] :
    IF w.dst = h THEN Own(h, w.item, now) ELSE Given(h, w.item)

FetchedOrigin ==
  \A h \in Hosts : \A s \in fetched[h] : \A k \in DOMAIN s : Own(h, s[k], now)

StoringOrigin ==
  \A h \in Hosts : \A b \in storing[h] :
    b.from # h /\ \A k \in DOMAIN b.items : Copied(h, b.from, b.items[k], now)

FrameOrigin(h, f) ==
  /\ f.from # h /\ f.sent <= now /\ now <= f.sent + MaxTransit
  /\ \A k \in DOMAIN f.data : Carried(f.from, f.data[k], f.sent)

InboxOrigin == \A h \in Hosts : \A i \in DOMAIN inbox[h] : FrameOrigin(h, inbox[h][i])

Origins ==
  /\ LocalOrigin /\ RemoteOrigin /\ WritingOrigin
  /\ FetchedOrigin /\ StoringOrigin /\ InboxOrigin

\* The age a record is sent with is its true age, cut to milliseconds.
LEMMA CarriedMade ==
  ASSUME NEW h \in Hosts, NEW store \in Stores(SharedKeys, Item), now \in Nat,
         \A k \in DOMAIN store : Own(h, store[k], now)
  PROVE  \A k \in DOMAIN Batch(h, store) : Carried(h, Batch(h, store)[k], now)
<1> SUFFICES ASSUME NEW k \in DOMAIN Batch(h, store)
             PROVE  Carried(h, Batch(h, store)[k], now)
  OBVIOUS
<1> DEFINE r == store[k]
           d == Batch(h, store)[k]
<1>1. /\ k \in DOMAIN store /\ d.life = GetTimestamp(Clock(h), r.stamp)
      /\ d.host = r.host /\ d.born = r.born /\ d.by = r.by
  BY BatchMade
<1>2. r \in Item /\ Own(h, r, now)
  BY <1>1, StoresChar
<1>3. r.stamp \in Time /\ r.born \in Nat /\ Skew[h] \in Nat
  BY <1>2, RtDB2Constants DEF Item
<1>4. Clock(h) \in Time /\ Micros(Clock(h)) = now + Skew[h]
  BY ClockShows
<1>5. Micros(r.stamp) = r.born + Skew[h] /\ r.born <= now
  BY <1>2 DEF Own
<1>6. GetTimestamp(Clock(h), r.stamp) = CDiv(Micros(Clock(h)) - Micros(r.stamp), Milli)
  BY <1>3, <1>4, AgeExact
<1>7. Micros(Clock(h)) - Micros(r.stamp) = now - r.born /\ now - r.born \in Nat
  BY <1>3, <1>4, <1>5
<1>8. d.life = CDiv(now - r.born, Milli)
  BY <1>1, <1>6, <1>7
<1>9. /\ d.life \in Nat /\ d.life * Milli <= now - r.born
      /\ now - r.born < (d.life + 1) * Milli
  BY <1>7, <1>8, CutBounds, UnitsAreNat
<1>10. d.host = h /\ d.by = "put" /\ d.born = r.born
  BY <1>1, <1>2 DEF Own
<1> HIDE DEF d, r
<1>11. Carried(h, d, now)
  BY <1>9, <1>10 DEF Carried
<1> QED  BY <1>11 DEF d

\* The stamp a received record gets is right but for the time of travel.
LEMMA CopiedMade ==
  ASSUME NEW h \in Hosts, NEW a \in Hosts, NEW data \in Stores(SharedKeys, Datum),
         NEW sent \in Nat, now \in Nat, sent <= now, now <= sent + MaxTransit,
         \A k \in DOMAIN data : Carried(a, data[k], sent)
  PROVE  \A k \in DOMAIN Stamped(h, data) : Copied(h, a, Stamped(h, data)[k], now)
<1> SUFFICES ASSUME NEW k \in DOMAIN Stamped(h, data)
             PROVE  Copied(h, a, Stamped(h, data)[k], now)
  OBVIOUS
<1> DEFINE d == data[k]
           r == Stamped(h, data)[k]
<1>1. /\ k \in DOMAIN data /\ d \in Datum
      /\ Micros(r.stamp) = now + Skew[h] - (CommDelay + d.life) * Milli
      /\ r.host = d.host /\ r.born = d.born /\ r.by = d.by
  BY StampedMade
<1>2. Carried(a, d, sent)
  BY <1>1
<1>3. /\ d.host = a /\ d.by = "put" /\ d.life \in Nat
      /\ d.life * Milli <= sent - d.born /\ sent - d.born < (d.life + 1) * Milli
  BY <1>2 DEF Carried
<1>4. /\ Skew[h] \in Nat /\ CommDelay \in Nat /\ MaxTransit \in Nat
      /\ Milli \in Nat /\ d.born \in Nat
  BY <1>1, RtDB2Constants, UnitsAreNat DEF Datum
<1> HIDE DEF d, r
<1> DEFINE l == d.life * Milli
           c == CommDelay * Milli
<1>5. l \in Nat /\ c \in Nat
  BY <1>3, <1>4
<1>6. (CommDelay + d.life) * Milli = c + l /\ (d.life + 1) * Milli = l + Milli
  BY <1>3, <1>4, Z3
<1>7. /\ Micros(r.stamp) = now + Skew[h] - (c + l)
      /\ l <= sent - d.born /\ sent - d.born < l + Milli
  BY <1>1, <1>3, <1>6
<1> HIDE DEF l, c
<1>8. Micros(r.stamp) - Skew[h] + c = now - l
  BY <1>4, <1>5, <1>7
<1>9. /\ d.born <= now - l /\ now - l < d.born + MaxTransit + Milli
      /\ now - l - c <= now
  BY <1>4, <1>5, <1>7
<1>10. Copied(h, a, r, now)
  BY <1>1, <1>3, <1>8, <1>9 DEF Copied, c
<1> QED  BY <1>10 DEF r

\* Later the same is true.
LEMMA StillTrue ==
  ASSUME NEW r \in Item, NEW h \in Hosts, NEW t \in Nat, NEW u \in Nat, t <= u
  PROVE  /\ Own(h, r, t) => Own(h, r, u)
         /\ \A a : Copied(h, a, r, t) => Copied(h, a, r, u)
         /\ \A a : Kept(h, a, r, t) => Kept(h, a, r, u)
<1>1. r.born \in Nat /\ Micros(r.stamp) \in Int /\ Skew[h] \in Nat
  BY MicrosIsInt, RtDB2Constants DEF Item
<1>2. CommDelay * Milli \in Nat
  BY RtDB2Constants, UnitsAreNat
<1>3. Own(h, r, t) => Own(h, r, u)
  BY <1>1 DEF Own
<1>4. ASSUME NEW a, Copied(h, a, r, t) PROVE Copied(h, a, r, u)
  BY <1>1, <1>2, <1>4 DEF Copied
<1> QED  BY <1>3, <1>4 DEF Kept

(***************************************************************************)
(* Origins is kept by every action.                                        *)
(***************************************************************************)
\* What an action does not touch keeps its origin.
LEMMA Untouched ==
  ASSUME Origins, UNCHANGED now
  PROVE  /\ UNCHANGED local => LocalOrigin'
         /\ UNCHANGED remote => RemoteOrigin'
         /\ UNCHANGED writing => WritingOrigin'
         /\ UNCHANGED fetched => FetchedOrigin'
         /\ UNCHANGED storing => StoringOrigin'
         /\ UNCHANGED inbox => InboxOrigin'
<1>1. UNCHANGED local => LocalOrigin'
  BY DEF Origins, LocalOrigin
<1>2. UNCHANGED remote => RemoteOrigin'
  BY DEF Origins, RemoteOrigin
<1>3. UNCHANGED writing => WritingOrigin'
  BY DEF Origins, WritingOrigin
<1>4. UNCHANGED fetched => FetchedOrigin'
  BY DEF Origins, FetchedOrigin
<1>5. UNCHANGED storing => StoringOrigin'
  BY DEF Origins, StoringOrigin
<1>6. UNCHANGED inbox => InboxOrigin'
  BY DEF Origins, InboxOrigin, FrameOrigin
<1> QED  BY <1>1, <1>2, <1>3, <1>4, <1>5, <1>6

\* A put: a value with age 0 is stamped with the present moment.
LEMMA StampOrigins ==
  ASSUME TypeInv, Origins, NEW h \in Hosts, NEW k \in Keys, NEW dst \in Hosts,
         NEW life \in Nat, NEW by \in Putters, Stamp(h, k, dst, life, by),
         IF dst = h THEN by = "put" /\ life = 0 ELSE by = "comm_put"
  PROVE  Origins'
<1> DEFINE r == NewItem(h, life, by)
           w == [key |-> k, dst |-> dst, item |-> r]
<1>1. UNCHANGED <<local, remote, fetched, storing, inbox, now>>
  BY DEF Stamp
<1>2. /\ r.host = h /\ r.born = now /\ r.by = by
      /\ Micros(r.stamp) = now + Skew[h] - life * Milli
  BY NewItemMade DEF TypeInv, CountTypes
<1>3. writing' = [writing EXCEPT ![h] = @ \union {w}]
  BY DEF Stamp
<1>4. w.dst = dst /\ w.item = r
  OBVIOUS
<1>5. IF dst = h THEN Own(h, r, now) ELSE Given(h, r)
  <2>1. CASE dst = h
    <3>1. life = 0 /\ by = "put"
      BY <2>1
    <3>2. Micros(r.stamp) = now + Skew[h]
      BY <1>2, <3>1, RtDB2Constants, UnitsAreNat DEF TypeInv, CountTypes
    <3>3. now <= now
      BY DEF TypeInv, CountTypes
    <3> QED  BY <1>2, <2>1, <3>1, <3>2, <3>3 DEF Own
  <2>2. CASE dst # h
    BY <1>2, <2>2 DEF Given
  <2> QED  BY <2>1, <2>2
<1> HIDE DEF r, w
<1>6. WritingOrigin'
  <2> SUFFICES ASSUME NEW g \in Hosts, NEW v \in writing'[g]
               PROVE  IF v.dst = g THEN Own(g, v.item, now) ELSE Given(g, v.item)
    BY <1>1 DEF WritingOrigin
  <2>1. v \in writing[g] \/ (g = h /\ v = w)
    BY <1>3 DEF TypeInv, MovingTypes
  <2>2. CASE v \in writing[g]
    BY <2>2 DEF Origins, WritingOrigin
  <2>3. CASE g = h /\ v = w
    BY <1>4, <1>5, <2>3
  <2> QED  BY <2>1, <2>2, <2>3
<1> QED  BY <1>1, <1>6, Untouched DEF Origins

\* The insertion puts a record where records of its origin belong.
LEMMA InsertOrigins ==
  ASSUME TypeInv, Origins, NEW h \in Hosts, NEW w \in writing[h], Insert(h, w)
  PROVE  Origins'
<1>1. UNCHANGED <<fetched, storing, inbox, now>>
  BY DEF Insert
<1>2. w \in Write
  BY DEF TypeInv, MovingTypes
<1>3. w.key \in Keys /\ w.dst \in Hosts /\ w.item \in Item
  BY <1>2 DEF Write
<1>4. IF w.dst = h THEN Own(h, w.item, now) ELSE Given(h, w.item)
  BY DEF Origins, WritingOrigin
<1>5. WritingOrigin'
  <2>1. \A g \in Hosts : writing'[g] \subseteq writing[g]
    BY DEF Insert, TypeInv, MovingTypes
  <2> QED  BY <1>1, <2>1 DEF Origins, WritingOrigin
<1>6. RemoteOrigin'
  <2>1. CASE w.key \notin SharedKeys
    BY <1>1, <2>1, Untouched DEF Insert
  <2>2. CASE w.key \in SharedKeys
    <3> DEFINE new == Record(w.key, w.item)
               old == remote[h][w.dst]
    <3>1. new \in Stores(SharedKeys, Item) /\ \A k \in DOMAIN new : new[k] = w.item
      BY <1>3, <2>2, OneRecord
    <3>2. old \in Stores(SharedKeys, Item)
      BY <1>3 DEF TypeInv, StoreTypes
    <3>3. \A k \in DOMAIN Over(new, old) :
            \/ Over(new, old)[k] = w.item
            \/ k \in DOMAIN old /\ Over(new, old)[k] = old[k]
      BY <3>1, <3>2, OverStore
    <3>4. remote' = [remote EXCEPT ![h][w.dst] = Over(new, @)]
      BY <2>2 DEF Insert
    <3> SUFFICES ASSUME NEW g \in Hosts, NEW a \in Hosts, NEW k \in DOMAIN remote'[g][a]
                 PROVE  Kept(g, a, remote'[g][a][k], now)
      BY <1>1 DEF RemoteOrigin
    <3>5. CASE g = h /\ a = w.dst
      <4>1. remote'[g][a] = Over(new, old)
        BY <1>3, <3>4, <3>5 DEF TypeInv, StoreTypes
      <4>2. Kept(g, a, w.item, now)
        BY <1>4, <3>5 DEF Kept
      <4>3. ASSUME k \in DOMAIN old PROVE Kept(g, a, old[k], now)
        BY <3>5, <4>3 DEF Origins, RemoteOrigin
      <4> HIDE DEF new, old
      <4> QED  BY <3>3, <4>1, <4>2, <4>3
    <3>6. CASE ~(g = h /\ a = w.dst)
      <4>1. remote'[g][a] = remote[g][a]
        BY <1>3, <3>4, <3>6 DEF TypeInv, StoreTypes
      <4> QED  BY <4>1 DEF Origins, RemoteOrigin
    <3> QED  BY <3>5, <3>6
  <2> QED  BY <2>1, <2>2
<1>7. LocalOrigin'
  <2>1. CASE w.key \in SharedKeys
    BY <1>1, <2>1, Untouched DEF Insert
  <2>2. CASE w.key \notin SharedKeys
    <3> DEFINE new == Record(w.key, w.item)
    <3>1. /\ new \in Stores(Keys \ SharedKeys, Item)
          /\ \A k \in DOMAIN new : new[k] = w.item
      BY <1>3, <2>2, OneRecord
    <3>2. local[h] \in Stores(Keys \ SharedKeys, Item)
      BY DEF TypeInv, StoreTypes
    <3>3. \A k \in DOMAIN Over(new, local[h]) :
            \/ Over(new, local[h])[k] = w.item
            \/ k \in DOMAIN local[h] /\ Over(new, local[h])[k] = local[h][k]
      BY <3>1, <3>2, OverStore
    <3>4. local' = [local EXCEPT ![h] = Over(new, @)]
      BY <2>2 DEF Insert
    <3> SUFFICES ASSUME NEW g \in Hosts, NEW k \in DOMAIN local'[g]
                 PROVE  Own(g, local'[g][k], now) \/ Given(g, local'[g][k])
      BY <1>1 DEF LocalOrigin
    <3>5. CASE g = h
      <4>1. local'[g] = Over(new, local[h])
        BY <3>4, <3>5 DEF TypeInv, StoreTypes
      <4>2. Own(h, w.item, now) \/ Given(h, w.item)
        BY <1>4
      <4>3. ASSUME k \in DOMAIN local[h]
            PROVE  Own(h, local[h][k], now) \/ Given(h, local[h][k])
        BY <4>3 DEF Origins, LocalOrigin
      <4> HIDE DEF new
      <4> QED  BY <3>3, <3>5, <4>1, <4>2, <4>3
    <3>6. CASE g # h
      <4>1. local'[g] = local[g]
        BY <3>4, <3>6 DEF TypeInv, StoreTypes
      <4> QED  BY <4>1 DEF Origins, LocalOrigin
    <3> QED  BY <3>5, <3>6
  <2> QED  BY <2>1, <2>2
<1> QED  BY <1>1, <1>5, <1>6, <1>7, Untouched DEF Origins

\* The agent's own store for its own data holds nothing else.
LEMMA FetchOrigins ==
  ASSUME TypeInv, Origins, NEW h \in Hosts, Fetch(h)
  PROVE  Origins'
<1>1. UNCHANGED <<local, remote, writing, storing, inbox, now>>
  BY DEF Fetch
<1>2. fetched' = [fetched EXCEPT ![h] = {remote[h][h]}]
  BY DEF Fetch, Collected
<1>3. \A k \in DOMAIN remote[h][h] : Own(h, remote[h][h][k], now)
  BY DEF Origins, RemoteOrigin, Kept
<1>4. FetchedOrigin'
  <2> SUFFICES ASSUME NEW g \in Hosts, NEW s \in fetched'[g], NEW k \in DOMAIN s
               PROVE  Own(g, s[k], now)
    BY <1>1 DEF FetchedOrigin
  <2>1. s \in fetched[g] \/ (g = h /\ s = remote[h][h])
    BY <1>2 DEF TypeInv, MovingTypes
  <2>2. CASE s \in fetched[g]
    BY <2>2 DEF Origins, FetchedOrigin
  <2>3. CASE g = h /\ s = remote[h][h]
    BY <1>3, <2>3
  <2> QED  BY <2>1, <2>2, <2>3
<1> QED  BY <1>1, <1>4, Untouched DEF Origins

\* Ages are right at the moment a batch is made.
LEMMA SendOrigins ==
  ASSUME TypeInv, Origins, NEW h \in Hosts, NEW s \in fetched[h],
         NEW to \in SUBSET (Hosts \ {h}), Send(h, s, to)
  PROVE  Origins'
<1> DEFINE f == [from |-> h, sent |-> now, data |-> Batch(h, s)]
<1>1. UNCHANGED <<local, remote, writing, storing, now>>
  BY DEF Send
<1>2. now \in Nat /\ MaxTransit \in Nat
  BY RtDB2Constants DEF TypeInv, CountTypes
<1>3. \A k \in DOMAIN Batch(h, s) : Carried(h, Batch(h, s)[k], now)
  <2>1. s \in Stores(SharedKeys, Item)
    BY DEF TypeInv, MovingTypes
  <2>2. \A k \in DOMAIN s : Own(h, s[k], now)
    BY DEF Origins, FetchedOrigin
  <2> QED  BY <1>2, <2>1, <2>2, CarriedMade
<1>4. f.from = h /\ f.sent = now /\ f.data = Batch(h, s)
  OBVIOUS
<1>5. inbox' = [r \in Hosts |-> IF r \in to THEN Append(inbox[r], f) ELSE inbox[r]]
  BY DEF Send
<1> HIDE DEF f
<1>6. \A r \in to : FrameOrigin(r, f)
  BY <1>2, <1>3, <1>4 DEF FrameOrigin
<1>7. InboxOrigin'
  <2> SUFFICES ASSUME NEW r \in Hosts, NEW i \in DOMAIN inbox'[r]
               PROVE  FrameOrigin(r, inbox'[r][i])
    BY <1>1 DEF InboxOrigin, FrameOrigin
  <2>1. CASE r \in to
    <3>1. inbox'[r] = Append(inbox[r], f) /\ inbox[r] \in Seq(Frame)
      BY <1>5, <2>1 DEF TypeInv, MovingTypes
    <3>2. (i \in DOMAIN inbox[r] /\ inbox'[r][i] = inbox[r][i]) \/ inbox'[r][i] = f
      BY <3>1
    <3> QED  BY <1>6, <2>1, <3>2 DEF Origins, InboxOrigin
  <2>2. CASE r \notin to
    BY <1>5, <2>2 DEF Origins, InboxOrigin
  <2> QED  BY <2>1, <2>2
<1>8. FetchedOrigin'
  <2>1. \A g \in Hosts : fetched'[g] \subseteq fetched[g]
    BY DEF Send, TypeInv, MovingTypes
  <2> QED  BY <1>1, <2>1 DEF Origins, FetchedOrigin
<1> QED  BY <1>1, <1>7, <1>8, Untouched DEF Origins

\* A frame that was not longer on its way than MaxTransit gets right stamps.
LEMMA ReceiveOrigins ==
  ASSUME TypeInv, Origins, NEW h \in Hosts, NEW i \in DOMAIN inbox[h],
         NEW again \in BOOLEAN, Receive(h, i, again)
  PROVE  Origins'
<1> DEFINE f == inbox[h][i]
           b == [from |-> f.from, items |-> Stamped(h, f.data)]
<1>1. UNCHANGED <<local, remote, writing, fetched, now>>
  BY DEF Receive
<1>2. inbox[h] \in Seq(Frame) /\ f \in Frame /\ now \in Nat
  BY DEF TypeInv, MovingTypes, CountTypes
<1>3. FrameOrigin(h, f)
  BY DEF Origins, InboxOrigin
<1>4. \A k \in DOMAIN Stamped(h, f.data) : Copied(h, f.from, Stamped(h, f.data)[k], now)
  BY <1>2, <1>3, CopiedMade DEF Frame, FrameOrigin
<1>5. storing' = [storing EXCEPT ![h] = {b}]
  BY DEF Receive
<1>6. b.from # h /\ \A k \in DOMAIN b.items : Copied(h, b.from, b.items[k], now)
  BY <1>3, <1>4 DEF FrameOrigin
<1>7. InboxOrigin'
  <2> SUFFICES ASSUME NEW g \in Hosts, NEW j \in DOMAIN inbox'[g]
               PROVE  FrameOrigin(g, inbox'[g][j])
    BY <1>1 DEF InboxOrigin, FrameOrigin
  <2>1. \E n \in DOMAIN inbox[g] : inbox'[g][j] = inbox[g][n]
    <3>1. inbox'[g] = inbox[g] \/ (g = h /\ inbox'[g] = RemoveAt(inbox[h], i))
      BY DEF Receive, TypeInv, MovingTypes
    <3>2. CASE inbox'[g] = inbox[g]
      BY <3>2
    <3>3. CASE g = h /\ inbox'[g] = RemoveAt(inbox[h], i)
      BY <1>2, <3>3, Taken
    <3> QED  BY <3>1, <3>2, <3>3
  <2> QED  BY <2>1 DEF Origins, InboxOrigin
<1> HIDE DEF f, b
<1>8. StoringOrigin'
  <2> SUFFICES ASSUME NEW g \in Hosts, NEW c \in storing'[g]
               PROVE  c.from # g /\ \A k \in DOMAIN c.items : Copied(g, c.from, c.items[k], now)
    BY <1>1 DEF StoringOrigin
  <2>1. c \in storing[g] \/ (g = h /\ c = b)
    BY <1>5 DEF TypeInv, MovingTypes
  <2>2. CASE c \in storing[g]
    BY <2>2 DEF Origins, StoringOrigin
  <2>3. CASE g = h /\ c = b
    BY <1>6, <2>3
  <2> QED  BY <2>1, <2>2, <2>3
<1> QED  BY <1>1, <1>7, <1>8, Untouched DEF Origins

\* A batch is never for the sender's own store on the receiving host.
LEMMA InsertBatchOrigins ==
  ASSUME TypeInv, Origins, NEW h \in Hosts, NEW b \in storing[h], InsertBatch(h, b)
  PROVE  Origins'
<1> DEFINE old == remote[h][b.from]
<1>1. UNCHANGED <<local, writing, fetched, inbox, now>>
  BY DEF InsertBatch
<1>2. b.from \in Hosts /\ b.items \in Stores(SharedKeys, Item)
  BY DEF TypeInv, MovingTypes, Arriving
<1>3. b.from # h /\ \A k \in DOMAIN b.items : Copied(h, b.from, b.items[k], now)
  BY DEF Origins, StoringOrigin
<1>4. old \in Stores(SharedKeys, Item)
  BY <1>2 DEF TypeInv, StoreTypes
<1>5. \A k \in DOMAIN Over(b.items, old) :
        \/ k \in DOMAIN b.items /\ Over(b.items, old)[k] = b.items[k]
        \/ k \in DOMAIN old /\ Over(b.items, old)[k] = old[k]
  BY <1>2, <1>4, OverStore
<1>6. remote' = [remote EXCEPT ![h][b.from] = Over(b.items, @)]
  BY DEF InsertBatch, Merge
<1>7. StoringOrigin'
  <2>1. \A g \in Hosts : storing'[g] \subseteq storing[g]
    BY DEF InsertBatch, TypeInv, MovingTypes
  <2> QED  BY <1>1, <2>1 DEF Origins, StoringOrigin
<1>8. RemoteOrigin'
  <2> SUFFICES ASSUME NEW g \in Hosts, NEW a \in Hosts, NEW k \in DOMAIN remote'[g][a]
               PROVE  Kept(g, a, remote'[g][a][k], now)
    BY <1>1 DEF RemoteOrigin
  <2>1. CASE g = h /\ a = b.from
    <3>1. remote'[g][a] = Over(b.items, old)
      BY <1>2, <1>6, <2>1 DEF TypeInv, StoreTypes
    <3>2. ASSUME k \in DOMAIN b.items PROVE Kept(g, a, b.items[k], now)
      BY <1>3, <2>1, <3>2 DEF Kept
    <3>3. ASSUME k \in DOMAIN old PROVE Kept(g, a, old[k], now)
      BY <2>1, <3>3 DEF Origins, RemoteOrigin
    <3> HIDE DEF old
    <3> QED  BY <1>5, <3>1, <3>2, <3>3
  <2>2. CASE ~(g = h /\ a = b.from)
    <3>1. remote'[g][a] = remote[g][a]
      BY <1>2, <1>6, <2>2 DEF TypeInv, StoreTypes
    <3> QED  BY <3>1 DEF Origins, RemoteOrigin
  <2> QED  BY <2>1, <2>2
<1> QED  BY <1>1, <1>7, <1>8, Untouched DEF Origins

\* A batch that fails and a restart create no record.
LEMMA RestOrigins ==
  ASSUME TypeInv, Origins, NEW h \in Hosts, BatchFails(h) \/ Restart(h)
  PROVE  Origins'
<1>1. UNCHANGED <<local, remote, writing, inbox, now>>
  BY DEF BatchFails, Restart
<1>2. \A g \in Hosts : fetched'[g] \subseteq fetched[g] /\ storing'[g] \subseteq storing[g]
  BY DEF BatchFails, Restart, TypeInv, MovingTypes
<1>3. FetchedOrigin'
  BY <1>1, <1>2 DEF Origins, FetchedOrigin
<1>4. StoringOrigin'
  BY <1>1, <1>2 DEF Origins, StoringOrigin
<1> QED  BY <1>1, <1>3, <1>4, Untouched DEF Origins

\* Waiting makes no stamp wrong, and no frame waits too long.
LEMMA TickOrigins ==
  ASSUME TypeInv, Origins, Tick
  PROVE  Origins'
<1>1. UNCHANGED <<local, remote, writing, fetched, storing, inbox>>
  BY DEF Tick
<1>2. now \in Nat /\ now' = now + 1 /\ now' \in Nat /\ now <= now'
  BY DEF Tick, TypeInv, CountTypes
<1>3. LocalOrigin'
  <2> SUFFICES ASSUME NEW h \in Hosts, NEW k \in DOMAIN local[h]
               PROVE  Own(h, local[h][k], now') \/ Given(h, local[h][k])
    BY <1>1 DEF LocalOrigin
  <2>1. local[h] \in Stores(Keys \ SharedKeys, Item)
    BY DEF TypeInv, StoreTypes
  <2>2. local[h][k] \in Item
    BY <2>1, StoresChar
  <2>3. Own(h, local[h][k], now) \/ Given(h, local[h][k])
    BY DEF Origins, LocalOrigin
  <2> QED  BY <1>2, <2>2, <2>3, StillTrue
<1>4. RemoteOrigin'
  <2> SUFFICES ASSUME NEW h \in Hosts, NEW a \in Hosts, NEW k \in DOMAIN remote[h][a]
               PROVE  Kept(h, a, remote[h][a][k], now')
    BY <1>1 DEF RemoteOrigin
  <2>1. remote[h][a] \in Stores(SharedKeys, Item)
    BY DEF TypeInv, StoreTypes
  <2>2. remote[h][a][k] \in Item
    BY <2>1, StoresChar
  <2>3. Kept(h, a, remote[h][a][k], now)
    BY DEF Origins, RemoteOrigin
  <2> QED  BY <1>2, <2>2, <2>3, StillTrue
<1>5. WritingOrigin'
  <2> SUFFICES ASSUME NEW h \in Hosts, NEW w \in writing[h]
               PROVE  IF w.dst = h THEN Own(h, w.item, now') ELSE Given(h, w.item)
    BY <1>1 DEF WritingOrigin
  <2>1. w \in Write
    BY DEF TypeInv, MovingTypes
  <2>2. w.item \in Item
    BY <2>1 DEF Write
  <2>3. IF w.dst = h THEN Own(h, w.item, now) ELSE Given(h, w.item)
    BY DEF Origins, WritingOrigin
  <2> QED  BY <1>2, <2>2, <2>3, StillTrue
<1>6. FetchedOrigin'
  <2> SUFFICES ASSUME NEW h \in Hosts, NEW s \in fetched[h], NEW k \in DOMAIN s
               PROVE  Own(h, s[k], now')
    BY <1>1 DEF FetchedOrigin
  <2>1. s \in Stores(SharedKeys, Item)
    BY DEF TypeInv, MovingTypes
  <2>2. s[k] \in Item
    BY <2>1, StoresChar
  <2>3. Own(h, s[k], now)
    BY DEF Origins, FetchedOrigin
  <2> QED  BY <1>2, <2>2, <2>3, StillTrue
<1>7. StoringOrigin'
  <2> SUFFICES ASSUME NEW h \in Hosts, NEW b \in storing[h]
               PROVE  b.from # h /\ \A k \in DOMAIN b.items : Copied(h, b.from, b.items[k], now')
    BY <1>1 DEF StoringOrigin
  <2>1. b.items \in Stores(SharedKeys, Item)
    BY DEF TypeInv, MovingTypes, Arriving
  <2>2. \A k \in DOMAIN b.items : b.items[k] \in Item
    BY <2>1, StoresChar
  <2>3. b.from # h /\ \A k \in DOMAIN b.items : Copied(h, b.from, b.items[k], now)
    BY DEF Origins, StoringOrigin
  <2> QED  BY <1>2, <2>2, <2>3, StillTrue
<1>8. InboxOrigin'
  <2> SUFFICES ASSUME NEW h \in Hosts, NEW i \in DOMAIN inbox[h]
               PROVE  FrameOrigin(h, inbox[h][i])'
    BY <1>1 DEF InboxOrigin
  <2>1. inbox[h] \in Seq(Frame)
    BY DEF TypeInv, MovingTypes
  <2>2. inbox[h][i] \in Frame /\ inbox[h][i].sent \in Nat
    <3>1. inbox[h][i] \in Frame
      BY <2>1
    <3> QED  BY <3>1 DEF Frame
  <2>3. now - inbox[h][i].sent < MaxTransit /\ MaxTransit \in Nat
    BY RtDB2Constants DEF Tick
  <2>4. FrameOrigin(h, inbox[h][i])
    BY DEF Origins, InboxOrigin
  <2>5. inbox[h][i].sent <= now' /\ now' <= inbox[h][i].sent + MaxTransit
    BY <1>2, <2>2, <2>3, <2>4 DEF FrameOrigin
  <2> QED  BY <1>1, <2>4, <2>5 DEF FrameOrigin
<1> QED  BY <1>3, <1>4, <1>5, <1>6, <1>7, <1>8 DEF Origins

\* Origins is an invariant of RtDB2.
LEMMA OriginsHold == Spec => []Origins
<1>1. Init => Origins
  BY DEF Init, Origins, LocalOrigin, RemoteOrigin, WritingOrigin, FetchedOrigin,
         StoringOrigin, InboxOrigin
<1>2. TypeInv /\ Origins /\ [Next]_vars => Origins'
  <2> SUFFICES ASSUME TypeInv, Origins, [Next]_vars PROVE Origins'
    OBVIOUS
  <2>1. ASSUME NEW h \in Hosts, NEW k \in Keys, Put(h, k) PROVE Origins'
    BY <2>1, StampOrigins DEF Put, Putters
  <2>2. ASSUME NEW h \in Hosts, NEW dst \in Hosts, NEW k \in Keys,
               NEW life \in CommLives, CommPut(h, k, dst, life)
        PROVE  Origins'
    <3>1. life \in Nat
      BY RtDB2Constants
    <3> QED  BY <2>2, <3>1, StampOrigins DEF CommPut, Putters
  <2>3. ASSUME NEW h \in Hosts, NEW w \in writing[h], Insert(h, w) PROVE Origins'
    BY <2>3, InsertOrigins
  <2>4. ASSUME NEW h \in Hosts, Fetch(h) PROVE Origins'
    BY <2>4, FetchOrigins
  <2>5. ASSUME NEW h \in Hosts, NEW s \in fetched[h],
               NEW to \in SUBSET (Hosts \ {h}), Send(h, s, to)
        PROVE  Origins'
    BY <2>5, SendOrigins
  <2>6. ASSUME NEW h \in Hosts, NEW i \in DOMAIN inbox[h], NEW again \in BOOLEAN,
               Receive(h, i, again)
        PROVE  Origins'
    BY <2>6, ReceiveOrigins
  <2>7. ASSUME NEW h \in Hosts, NEW b \in storing[h], InsertBatch(h, b) PROVE Origins'
    BY <2>7, InsertBatchOrigins
  <2>8. ASSUME NEW h \in Hosts, BatchFails(h) \/ Restart(h) PROVE Origins'
    BY <2>8, RestOrigins
  <2>9. CASE Tick
    BY <2>9, TickOrigins
  <2>10. CASE UNCHANGED vars
    BY <2>10, Untouched DEF vars, Origins
  <2> QED
    BY <2>1, <2>2, <2>3, <2>4, <2>5, <2>6, <2>7, <2>8, <2>9, <2>10 DEF Next
<1> QED  BY <1>1, <1>2, TypeInvHolds, PTL DEF Spec

(***************************************************************************)
(* The properties.                                                         *)
(***************************************************************************)

\* Every store, batch and frame keeps its type; a frame is never for its sender
\* and never from the future (all of RtDB2).
THEOREM TypeCorrect == Spec => []TypeOK
<1>1. TypeInv /\ Origins => TypeOK
  <2> SUFFICES ASSUME TypeInv, Origins PROVE TypeOK
    OBVIOUS
  <2>1. StoresOK
    <3>1. ASSUME NEW h \in Hosts PROVE IsStore(local[h], Item)
      BY StoresIsStore DEF TypeInv, StoreTypes
    <3>2. ASSUME NEW h \in Hosts, NEW a \in Hosts PROVE IsStore(remote[h][a], Item)
      BY StoresIsStore, RtDB2Constants DEF TypeInv, StoreTypes
    <3> QED  BY <3>1, <3>2 DEF StoresOK
  <2>2. PendingOK
    <3>1. \A h \in Hosts : writing[h] \subseteq [key : Keys, dst : Hosts, item : Item]
      BY DEF TypeInv, MovingTypes, Write
    <3>2. ASSUME NEW h \in Hosts, NEW s \in fetched[h] PROVE IsStore(s, Item)
      BY StoresIsStore, RtDB2Constants DEF TypeInv, MovingTypes
    <3>3. ASSUME NEW h \in Hosts, NEW b \in storing[h]
          PROVE  b.from \in Hosts /\ IsStore(b.items, Item)
      <4>1. b \in Arriving
        BY DEF TypeInv, MovingTypes
      <4> QED  BY <4>1, StoresIsStore, RtDB2Constants DEF Arriving
    <3> QED  BY <3>1, <3>2, <3>3 DEF PendingOK
  <2>3. FramesOK
    <3> SUFFICES ASSUME NEW h \in Hosts, NEW i \in DOMAIN inbox[h]
                 PROVE  /\ inbox[h][i].from \in Hosts \ {h}
                        /\ inbox[h][i].sent \in 0 .. now
                        /\ IsStore(inbox[h][i].data, Datum)
      BY DEF FramesOK
    <3>1. inbox[h] \in Seq(Frame)
      BY DEF TypeInv, MovingTypes
    <3>2. inbox[h][i] \in Frame
      BY <3>1
    <3>3. FrameOrigin(h, inbox[h][i])
      BY DEF Origins, InboxOrigin
    <3>4. IsStore(inbox[h][i].data, Datum)
      BY <3>2, StoresIsStore, RtDB2Constants DEF Frame
    <3> QED  BY <3>2, <3>3, <3>4 DEF Frame, FrameOrigin, TypeInv, CountTypes
  <2> QED  BY <2>1, <2>2, <2>3 DEF TypeOK, TypeInv, CountTypes
<1> QED  BY <1>1, TypeInvHolds, OriginsHold, PTL

\* Nothing is relayed, with any number of hosts and whatever the network does
\* (RtDB2.cpp:92-96, 105-108).
THEOREM OwnDataCorrect == Spec => []OnlyOwnData
<1>1. TypeInv /\ Origins => OnlyOwnData
  <2> SUFFICES ASSUME TypeInv, Origins PROVE OnlyOwnData
    OBVIOUS
  <2>1. ASSUME NEW h \in Hosts, NEW i \in DOMAIN inbox[h],
               NEW k \in DOMAIN inbox[h][i].data
        PROVE  /\ inbox[h][i].data[k].host = inbox[h][i].from
               /\ inbox[h][i].data[k].by = "put"
    BY DEF Origins, InboxOrigin, FrameOrigin, Carried
  <2>2. ASSUME NEW h \in Hosts, NEW a \in Hosts, NEW k \in DOMAIN remote[h][a]
        PROVE  remote[h][a][k].host = IF remote[h][a][k].by = "put" THEN a ELSE h
    <3>1. Kept(h, a, remote[h][a][k], now)
      BY DEF Origins, RemoteOrigin
    <3> QED  BY <3>1 DEF Kept, Own, Given, Copied
  <2> QED  BY <2>1, <2>2 DEF OnlyOwnData
<1> QED  BY <1>1, TypeInvHolds, OriginsHold, PTL

\* The age get reports is right although no two clocks agree, for every delay
\* of the network up to MaxTransit (RtDB2.cpp:74-85, 130-137, 153-177).
THEOREM AgesCorrect == Spec => []AgesAccurate
<1>1. TypeInv /\ Origins => AgesAccurate
  <2> SUFFICES ASSUME TypeInv, Origins, NEW h \in Hosts, NEW a \in Hosts, NEW k \in Keys,
                      NEW r \in Get(h, a, k), r.by = "put"
               PROVE  LET age  == now - r.born
                          told == ReportedAge(h, r)
                      IN  IF a = h
                          THEN told * Milli <= age /\ age < (told + 1) * Milli
                          ELSE /\ told * Milli <= age + CommDelay * Milli
                               /\ age + CommDelay * Milli - MaxTransit < (told + 2) * Milli
    BY DEF AgesAccurate
  <2> DEFINE told == ReportedAge(h, r)
             since == now + Skew[h] - Micros(r.stamp)
  <2>1. /\ now \in Nat /\ Skew[h] \in Nat /\ CommDelay \in Nat /\ MaxTransit \in Nat
        /\ Milli \in Nat \ {0} /\ CommDelay * Milli \in Nat
    BY RtDB2Constants, UnitsAreNat DEF TypeInv, CountTypes
  <2>2. r \in Item /\ IF a = h THEN Own(h, r, now) ELSE Copied(h, a, r, now)
    <3>1. CASE a = h /\ k \in DOMAIN local[h]
      <4>1. r = local[h][k]
        BY <3>1 DEF Get
      <4>2. local[h] \in Stores(Keys \ SharedKeys, Item)
        BY DEF TypeInv, StoreTypes
      <4>3. Own(h, r, now) \/ Given(h, r)
        BY <3>1, <4>1 DEF Origins, LocalOrigin
      <4> QED  BY <3>1, <4>1, <4>2, <4>3, StoresChar DEF Given
    <3>2. CASE ~(a = h /\ k \in DOMAIN local[h])
      <4>1. k \in DOMAIN remote[h][a] /\ r = remote[h][a][k]
        BY <3>2 DEF Get
      <4>2. remote[h][a] \in Stores(SharedKeys, Item)
        BY DEF TypeInv, StoreTypes
      <4>3. Kept(h, a, r, now)
        BY <4>1 DEF Origins, RemoteOrigin
      <4> QED  BY <4>1, <4>2, <4>3, StoresChar DEF Kept, Given
    <3> QED  BY <3>1, <3>2
  <2>3. r.stamp \in Time /\ r.born \in Nat /\ Micros(r.stamp) \in Int
    BY <2>2, MicrosIsInt DEF Item
  <2>4. Clock(h) \in Time /\ Micros(Clock(h)) = now + Skew[h]
    BY <2>1, ClockShows
  <2>5. told = CDiv(since, Milli)
    <3>1. told = CDiv(Micros(Clock(h)) - Micros(r.stamp), Milli)
      BY <2>3, <2>4, AgeExact DEF ReportedAge
    <3>2. Micros(Clock(h)) - Micros(r.stamp) = since
      BY <2>1, <2>3, <2>4
    <3> QED  BY <3>1, <3>2
  <2>6. since \in Nat
    BY <2>1, <2>2, <2>3 DEF Own, Copied
  <2>7. told \in Nat /\ told * Milli <= since /\ since < (told + 1) * Milli
    BY <2>1, <2>5, <2>6, CutBounds
  <2> HIDE DEF told
  <2>8. CASE a = h
    <3>1. since = now - r.born
      BY <2>1, <2>2, <2>3, <2>8 DEF Own
    <3> QED  BY <2>7, <2>8, <3>1 DEF told
  <2>9. CASE a # h
    <3>1. /\ since <= now - r.born + CommDelay * Milli
          /\ now - r.born + CommDelay * Milli - MaxTransit - Milli < since
      BY <2>1, <2>2, <2>3, <2>9 DEF Copied
    <3>2. /\ (told + 2) * Milli = (told + 1) * Milli + Milli
          /\ told * Milli \in Nat /\ (told + 1) * Milli \in Nat
      BY <2>1, <2>7, Z3
    <3> HIDE DEF since
    <3>3. since \in Nat
      BY <2>6
    <3>4. told * Milli <= now - r.born + CommDelay * Milli
      BY <2>1, <2>3, <2>7, <3>1, <3>2, <3>3
    <3>5. now - r.born + CommDelay * Milli - MaxTransit < (told + 2) * Milli
      BY <2>1, <2>3, <2>7, <3>1, <3>2, <3>3
    <3> QED  BY <2>9, <3>4, <3>5 DEF told
  <2> QED  BY <2>8, <2>9
<1> QED  BY <1>1, TypeInvHolds, OriginsHold, PTL
=============================================================================
