-------------------------- MODULE RtDB2Order_proofs --------------------------
(***************************************************************************)
(* Theorems about the order of things in RtDB2: how long a key may stay    *)
(* out of the batches, and what a copy shows of the history of its owner.  *)
(***************************************************************************)
EXTENDS RtDB2_proofs, FiniteSetTheorems

\* The remainder goes up by one or back to zero.
LEMMA NextRemainder ==
  ASSUME NEW x \in Nat, NEW p \in Nat \ {0}, (x + 1) % p # 0
  PROVE  x % p \in Nat /\ x % p < p /\ (x + 1) % p = (x % p) + 1
<1> DEFINE r == x % p
           q == x \div p
           s == (x + 1) % p
           t == (x + 1) \div p
<1>1. r \in Nat /\ r < p /\ q \in Nat /\ x = p * q + r
  BY Z3
<1>2. s \in Nat /\ s < p /\ t \in Nat /\ x + 1 = p * t + s /\ s # 0
  BY Z3
<1> HIDE DEF r, q, s, t
<1>3. t = q
  <2>1. ASSUME t >= q + 1 PROVE FALSE
    <3>1. p * t >= p * (q + 1)
      BY <1>1, <1>2, <2>1
    <3>2. p * (q + 1) = p * q + p /\ p * t \in Int /\ p * q \in Int
      BY <1>1, <1>2
    <3> QED  BY <1>1, <1>2, <3>1, <3>2
  <2>2. ASSUME q >= t + 1 PROVE FALSE
    <3>1. p * q >= p * (t + 1)
      BY <1>1, <1>2, <2>2
    <3>2. p * (t + 1) = p * t + p /\ p * t \in Int /\ p * q \in Int
      BY <1>1, <1>2
    <3> QED  BY <1>1, <1>2, <3>1, <3>2
  <2> QED  BY <1>1, <1>2, <2>1, <2>2
<1>4. p * q \in Int
  BY <1>1
<1>5. s = r + 1
  BY <1>1, <1>2, <1>3, <1>4
<1> QED  BY <1>1, <1>5 DEF r, s

LEMMA OwnRemainder ==
  ASSUME NEW p \in Nat \ {0}
  PROVE  p % p = 0
<1> DEFINE r == p % p
           q == p \div p
<1>1. r \in Nat /\ r < p /\ q \in Nat /\ p = p * q + r
  BY Z3
<1> HIDE DEF r, q
<1>2. q = 0 \/ q = 1 \/ q >= 2
  BY <1>1
<1>3. q >= 2 => p * q >= p * 2
  BY <1>1
<1>4. p * 0 = 0 /\ p * 1 = p /\ p * 2 = p + p /\ p * q \in Int
  BY <1>1
<1>5. r = 0
  BY <1>1, <1>2, <1>3, <1>4
<1> QED  BY <1>5 DEF r

(***************************************************************************)
(* How long a key waits.  The counter of the batches knows: past the phase *)
(* of the key it has not been left out more often than the counter is past *)
(* the last batch it was due in.                                           *)
(***************************************************************************)
WaitInv ==
  \A h \in Hosts, k \in SharedKeys :
    /\ skipped[h][k] < Period[k]
    /\ counter[h] > Phase[k] =>
         skipped[h][k] <= (counter[h] - Phase[k] - 1) % Period[k]

\* One batch, and the new figure of one key.
LEMMA SendWait ==
  ASSUME TypeInv, WaitInv, NEW h \in Hosts, NEW s \in fetched[h],
         NEW to \in SUBSET (Hosts \ {h}), Send(h, s, to)
  PROVE  WaitInv'
<1> SUFFICES ASSUME NEW g \in Hosts, NEW k \in SharedKeys
             PROVE  /\ skipped'[g][k] < Period[k]
                    /\ counter'[g] > Phase[k] =>
                         skipped'[g][k] <= (counter'[g] - Phase[k] - 1) % Period[k]
  BY DEF WaitInv
<1> DEFINE c == counter[h]
           f == Phase[k]
           p == Period[k]
           old == skipped[h][k]
           new == skipped'[h][k]
<1>1. /\ c \in 0 .. BatchMod - 1 /\ BatchMod \in Nat \ {0}
      /\ f \in Nat /\ p \in Nat \ {0} /\ old \in Nat /\ k \in Keys
      /\ counter \in [Hosts -> 0 .. BatchMod - 1]
      /\ skipped \in [Hosts -> [Keys -> Nat]]
  BY RtDB2Constants DEF TypeInv, CountTypes
<1>2. CASE g # h
  <2>1. counter'[g] = counter[g] /\ skipped'[g] = skipped[g]
    BY <1>1, <1>2 DEF Send
  <2> QED  BY <2>1 DEF WaitInv
<1>3. CASE g = h
  <2>1. new = IF k \notin DOMAIN s \/ k \in DOMAIN Batch(h, s) \/ c < f THEN 0
              ELSE IF old >= p THEN old ELSE old + 1
    BY <1>1 DEF Send
  <2>2. k \in DOMAIN s => (k \in DOMAIN Batch(h, s) <=> Due(k, c))
    BY DEF Batch
  <2>3. counter'[h] = (c + 1) % BatchMod
    BY <1>1 DEF Send, NextCount
  <2>4. counter'[h] = c + 1 \/ counter'[h] = 0
    <3> HIDE DEF c
    <3>1. c + 1 < BatchMod => (c + 1) % BatchMod = c + 1
      BY <1>1, Z3
    <3>2. c + 1 = BatchMod => (c + 1) % BatchMod = 0
      BY <1>1, OwnRemainder
    <3> QED  BY <1>1, <2>3, <3>1, <3>2
  <2>5. old < p /\ (c > f => old <= (c - f - 1) % p)
    BY DEF WaitInv
  <2>6. new < p /\ (c >= f => new <= (c - f) % p)
    <3>1. CASE new = 0
      <4>1. c >= f => (c - f) % p \in Nat
        <5> HIDE DEF c, f, p
        <5> QED  BY <1>1, Z3
      <4> QED  BY <1>1, <3>1, <4>1
    <3>2. CASE new # 0
      <4>1. new = old + 1 /\ c >= f /\ (c - f) % p # 0
        BY <1>1, <2>1, <2>2, <2>5, <3>2 DEF Due
      <4> HIDE DEF c, f, p, old, new
      <4>2. c # f
        <5>1. 0 % p = 0
          BY <1>1, Z3
        <5> QED  BY <1>1, <4>1, <5>1
      <4>3. c - f - 1 \in Nat /\ (c - f - 1) + 1 = c - f /\ c > f
        BY <1>1, <4>1, <4>2
      <4>4. /\ (c - f - 1) % p \in Nat
            /\ (c - f) % p = ((c - f - 1) % p) + 1
        BY <1>1, <4>1, <4>3, NextRemainder
      <4>5. (c - f) % p < p /\ (c - f) % p \in Nat
        BY <1>1, <4>3, Z3
      <4> QED  BY <1>1, <2>5, <4>1, <4>3, <4>4, <4>5
    <3> QED  BY <3>1, <3>2
  <2> HIDE DEF c, f, p, old, new
  <2>7. CASE counter'[h] = 0
    BY <1>1, <1>3, <2>6, <2>7 DEF f, p, new
  <2>8. CASE counter'[h] = c + 1
    <3>1. c \in Int /\ f \in Int
      BY <1>1
    <3>2. (c + 1) - f - 1 = c - f
      BY <3>1
    <3>3. counter'[h] > f => c >= f
      BY <2>8, <3>1
    <3>4. counter'[h] > f => new <= (counter'[h] - f - 1) % p
      BY <2>6, <2>8, <3>2, <3>3
    <3> QED  BY <1>3, <2>6, <3>4 DEF f, p, new
  <2> QED  BY <2>4, <2>7, <2>8
<1> QED  BY <1>2, <1>3

\* A key that is there goes out once in each period of sent batches, for every period,
\* phase and width of the counter, whichever batches fail and however often comm is
\* restarted (RtDB2.cpp:117-127, 149).
THEOREM NoKeyWaits == Spec => []NoKeyStarves
<1>1. Init => WaitInv
  BY RtDB2Constants DEF Init, WaitInv
<1>2. TypeInv /\ WaitInv /\ [Next]_vars => WaitInv'
  <2> SUFFICES ASSUME TypeInv, WaitInv, [Next]_vars PROVE WaitInv'
    OBVIOUS
  <2>1. CASE UNCHANGED <<counter, skipped>>
    BY <2>1 DEF WaitInv
  <2>2. ASSUME NEW h \in Hosts, NEW s \in fetched[h],
               NEW to \in SUBSET (Hosts \ {h}), Send(h, s, to)
        PROVE  WaitInv'
    BY <2>2, SendWait
  <2>3. ASSUME NEW h \in Hosts, Restart(h) PROVE WaitInv'
    <3> SUFFICES ASSUME NEW g \in Hosts, NEW k \in SharedKeys
                 PROVE  /\ skipped'[g][k] < Period[k]
                        /\ counter'[g] > Phase[k] =>
                             skipped'[g][k] <= (counter'[g] - Phase[k] - 1) % Period[k]
      BY DEF WaitInv
    <3>1. /\ skipped' = skipped /\ counter' = [counter EXCEPT ![h] = 0]
          /\ counter \in [Hosts -> 0 .. BatchMod - 1] /\ Phase[k] \in Nat
      BY <2>3, RtDB2Constants DEF Restart, TypeInv, CountTypes
    <3>2. CASE g = h
      BY <3>1, <3>2 DEF WaitInv
    <3>3. CASE g # h
      BY <3>1, <3>3 DEF WaitInv
    <3> QED  BY <3>2, <3>3
  <2> QED
    BY <2>1, <2>2, <2>3 DEF Next, Put, CommPut, Stamp, Insert, Fetch, BatchFails,
       Receive, InsertBatch, Tick, vars
<1>3. WaitInv => NoKeyStarves
  BY DEF WaitInv, NoKeyStarves
<1> QED  BY <1>1, <1>2, <1>3, TypeInvHolds, PTL DEF Spec

(***************************************************************************)
(* What a copy shows of the history of its owner.  Everything host h has   *)
(* of agent a, or is about to get, stands in a line: its copy, the batch   *)
(* the receive thread is storing, the frames in the order they arrive.     *)
(* With one process putting and a network that keeps the order, each is a  *)
(* cut of a's history (CopyIsCut), later than those before it in the line, *)
(* no later than what a has fetched for its next batch, and that no later  *)
(* than a's own store.                                                     *)
(***************************************************************************)
InOrder == Ordered /\ Writers <= 1 /\ CommLives = {}

Shows(f, k, v) == k \in DOMAIN f /\ f[k].val >= v

\* A cut of the history l.
IsCut(l, f) ==
  \A k \in DOMAIN f : \A v \in 1 .. f[k].val :
    SameSchedule(k, l[v]) => Shows(f, l[v], v)

Below(f, g)  == \A k \in DOMAIN f \cap DOMAIN g : f[k].val <= g[k].val
Within(f, g) == DOMAIN f \subseteq DOMAIN g /\ Below(f, g)
Alike(f, g)  == DOMAIN f = DOMAIN g /\ \A k \in DOMAIN f : f[k].val = g[k].val

HasVals(f) == DOMAIN f \subseteq SharedKeys /\ \A k \in DOMAIN f : f[k].val \in Nat

\* The n-th in the line: {} or one store.
InLine(h, a, n) ==
  IF n = 0 THEN {remote[h][a]}
  ELSE IF n = 1 THEN {b.items : b \in {b \in storing[h] : b.from = a}}
  ELSE {inbox[h][i].data : i \in {i \in DOMAIN inbox[h] : i = n - 1 /\ inbox[h][i].from = a}}

\* The history of a host, its put on the way, and its own store.
OwnerInv(a) ==
  /\ \A w, x \in writing[a] : w = x
  /\ \A w \in writing[a] :
       /\ w.dst = a /\ w.item.val = Len(log[a])
       /\ Len(log[a]) > 0 /\ log[a][Len(log[a])] = w.key
  /\ \A k \in DOMAIN remote[a][a] :
       /\ remote[a][a][k].val <= Len(log[a])
       /\ \A w \in writing[a] : remote[a][a][k].val < w.item.val
  /\ \A v \in 1 .. Len(log[a]) :
       log[a][v] \in SharedKeys /\ (\A w \in writing[a] : v # w.item.val) =>
         Shows(remote[a][a], log[a][v], v)

\* A cut of the history that the store of its owner is not behind.
IsPast(l, own, f) == IsCut(l, f) /\ Within(f, own)

FetchInv(a) == \A s \in fetched[a] : IsPast(log[a], remote[a][a], s)

LineInv(h, a) ==
  /\ \A n \in Nat : \A f \in InLine(h, a, n) :
       /\ IsPast(log[a], remote[a][a], f)
       /\ \A s \in fetched[a] : Within(f, s)
  /\ \A m, n \in Nat : m < n =>
       \A f \in InLine(h, a, m), g \in InLine(h, a, n) : Below(f, g)

\* No frame goes back to its sender.
Foreign(h) ==
  /\ \A b \in storing[h] : b.from # h
  /\ \A i \in DOMAIN inbox[h] : inbox[h][i].from # h

OrderInv ==
  /\ \A a \in Hosts : OwnerInv(a) /\ FetchInv(a) /\ Foreign(a)
  /\ \A h, a \in Hosts : h # a => LineInv(h, a)

LEMMA WithinTransitive ==
  ASSUME NEW f, NEW g, NEW e, HasVals(f), HasVals(g), HasVals(e),
         Within(f, g), Within(g, e)
  PROVE  Within(f, e)
BY DEF Within, Below, HasVals

\* Stores of the same values cannot be told apart.
LEMMA AlikeSame ==
  ASSUME NEW f, NEW g, Alike(f, g)
  PROVE  /\ \A l : IsCut(l, f) => IsCut(l, g)
         /\ \A e : Within(f, e) => Within(g, e)
         /\ \A e : Below(f, e) => Below(g, e)
         /\ \A e : Below(e, f) => Below(e, g)
<1>1. DOMAIN f = DOMAIN g /\ \A k \in DOMAIN g : f[k].val = g[k].val
  BY DEF Alike
<1>2. \A k, v : Shows(f, k, v) <=> Shows(g, k, v)
  BY <1>1 DEF Shows
<1> QED  BY <1>1, <1>2 DEF IsCut, Within, Below

\* A past stays one while the history is prolonged and the owner's store goes on.
LEMMA PastStays ==
  ASSUME NEW l \in Seq(Keys), NEW m \in Seq(Keys), NEW own, NEW next, NEW f,
         HasVals(f), HasVals(own), HasVals(next),
         \A k \in DOMAIN own : own[k].val <= Len(l),
         \A v \in 1 .. Len(l) : m[v] = l[v],
         Within(own, next), IsPast(l, own, f)
  PROVE  IsPast(m, next, f)
<1>1. Within(f, next)
  BY WithinTransitive DEF IsPast
<1>2. ASSUME NEW k \in DOMAIN f, NEW v \in 1 .. f[k].val
      PROVE  m[v] = l[v]
  <2>1. k \in DOMAIN own /\ f[k].val <= own[k].val /\ f[k].val \in Nat /\ own[k].val \in Nat
    BY DEF IsPast, Within, Below, HasVals
  <2>2. own[k].val <= Len(l) /\ Len(l) \in Nat
    BY <2>1
  <2>3. v \in 1 .. Len(l)
    BY <2>1, <2>2
  <2> QED  BY <2>3
<1> QED  BY <1>1, <1>2 DEF IsPast, IsCut

LEMMA StoreVals ==
  ASSUME NEW f, f \in Stores(SharedKeys, Item) \/ f \in Stores(SharedKeys, Datum)
  PROVE  HasVals(f)
<1>1. DOMAIN f \subseteq SharedKeys
      /\ (f \in [DOMAIN f -> Item] \/ f \in [DOMAIN f -> Datum])
  BY StoresChar
<1>2. ASSUME NEW k \in DOMAIN f PROVE f[k].val \in Nat
  <2>1. f[k] \in Item \/ f[k] \in Datum
    BY <1>1
  <2> QED  BY <2>1 DEF Item, Datum
<1> QED  BY <1>1, <1>2 DEF HasVals

\* Everything in line has values.
LEMMA LineVals ==
  ASSUME TypeInv, NEW h \in Hosts, NEW a \in Hosts
  PROVE  /\ \A n \in Nat : \A f \in InLine(h, a, n) : HasVals(f)
         /\ \A s \in fetched[a] : HasVals(s)
         /\ HasVals(remote[h][a])
<1>3. remote[h][a] \in Stores(SharedKeys, Item)
  BY DEF TypeInv, StoreTypes
<1>4. \A b \in storing[h] : b.items \in Stores(SharedKeys, Item)
  BY DEF TypeInv, MovingTypes, Arriving
<1>5. \A s \in fetched[a] : s \in Stores(SharedKeys, Item)
  BY DEF TypeInv, MovingTypes
<1>6. \A i \in DOMAIN inbox[h] : inbox[h][i].data \in Stores(SharedKeys, Datum)
  <2>1. inbox[h] \in Seq(Frame)
    BY DEF TypeInv, MovingTypes
  <2>2. \A i \in DOMAIN inbox[h] : inbox[h][i] \in Frame
    BY <2>1
  <2> QED  BY <2>2 DEF Frame
<1>7. ASSUME NEW n \in Nat, NEW f \in InLine(h, a, n) PROVE HasVals(f)
  BY <1>3, <1>4, <1>6, StoreVals DEF InLine
<1> QED  BY <1>3, <1>5, <1>7, StoreVals

LEMMA SelfWithin ==
  ASSUME TypeInv, NEW h \in Hosts, NEW a \in Hosts
  PROVE  Within(remote[h][a], remote[h][a])
BY LineVals DEF Within, Below, HasVals

(***************************************************************************)
(* Steps at the owner: the line stands still.                              *)
(***************************************************************************)
LEMMA OwnerMoves ==
  ASSUME TypeInv, TypeInv', OrderInv, NEW a \in Hosts,
         UNCHANGED <<fetched, storing, inbox>>,
         \A h \in Hosts : h # a => remote'[h][a] = remote[h][a],
         Within(remote[a][a], remote'[a][a]),
         \A v \in 1 .. Len(log[a]) : log'[a][v] = log[a][v]
  PROVE  /\ FetchInv(a)' /\ Foreign(a)'
         /\ \A h \in Hosts : h # a => LineInv(h, a)'
<1>1. /\ log[a] \in Seq(Keys) /\ log'[a] \in Seq(Keys)
      /\ HasVals(remote[a][a]) /\ HasVals(remote'[a][a])
      /\ \A k \in DOMAIN remote[a][a] : remote[a][a][k].val <= Len(log[a])
  <2>1. HasVals(remote[a][a])
    BY LineVals
  <2>2. HasVals(remote'[a][a])
    <3>1. remote'[a][a] \in Stores(SharedKeys, Item)
      BY DEF TypeInv, StoreTypes
    <3> QED  BY <3>1, StoreVals
  <2> QED  BY <2>1, <2>2 DEF TypeInv, CountTypes, OrderInv, OwnerInv
<1>2. ASSUME NEW f, HasVals(f), IsPast(log[a], remote[a][a], f)
      PROVE  IsPast(log'[a], remote'[a][a], f)
  BY <1>1, <1>2, PastStays
<1>3. FetchInv(a)' /\ Foreign(a)'
  BY <1>2, LineVals DEF FetchInv, Foreign, OrderInv
<1>4. ASSUME NEW h \in Hosts, h # a PROVE LineInv(h, a)'
  <2>1. \A n : InLine(h, a, n)' = InLine(h, a, n)
    BY <1>4 DEF InLine
  <2>2. LineInv(h, a)
    BY <1>4 DEF OrderInv
  <2>3. ASSUME NEW n \in Nat, NEW f \in InLine(h, a, n)
        PROVE  IsPast(log'[a], remote'[a][a], f) /\ \A s \in fetched'[a] : Within(f, s)
    BY <1>2, <2>2, LineVals DEF LineInv
  <2> QED  BY <2>1, <2>2, <2>3 DEF LineInv
<1> QED  BY <1>3, <1>4

\* The stamping of a put, the only one of its host.
LEMMA PutOrder ==
  ASSUME TypeInv, TypeInv', OrderInv, InOrder, NEW h \in Hosts, NEW k \in Keys, Put(h, k)
  PROVE  OrderInv'
<1> DEFINE n == Len(log[h])
           w == [key |-> k, dst |-> h, item |-> NewItem(h, 0, "put")]
<1>1. /\ Writers \in Nat /\ Writers <= 1 /\ log[h] \in Seq(Keys) /\ n \in Nat
      /\ log \in [Hosts -> Seq(Keys)] /\ writing \in [Hosts -> SUBSET Write]
  BY RtDB2Constants DEF InOrder, TypeInv, CountTypes, MovingTypes
<1>2. writing[h] = {}
  <2>1. SUFFICES ASSUME NEW x \in writing[h] PROVE FALSE
    OBVIOUS
  <2>2. writing[h] = {x}
    BY <2>1 DEF OrderInv, OwnerInv
  <2>3. Cardinality(writing[h]) = 1
    BY <2>2, FS_Singleton
  <2> QED  BY <1>1, <2>3 DEF Put, Stamp
<1>3. /\ writing' = [writing EXCEPT ![h] = {w}]
      /\ log' = [log EXCEPT ![h] = Append(@, k)]
      /\ UNCHANGED <<local, remote, fetched, storing, inbox>>
      /\ w.dst = h /\ w.key = k /\ w.item.val = n + 1
  BY <1>2 DEF Put, Stamp, NewItem
<1> HIDE DEF w
<1>4. /\ Len(log'[h]) = n + 1 /\ log'[h][n + 1] = k
      /\ \A v \in 1 .. n : log'[h][v] = log[h][v]
  BY <1>1, <1>3
<1>5. ASSUME NEW a \in Hosts, a # h
      PROVE  log'[a] = log[a] /\ writing'[a] = writing[a]
  BY <1>1, <1>3, <1>5
<1>6. ASSUME NEW a \in Hosts PROVE OwnerInv(a)'
  <2>1. CASE a # h
    BY <1>3, <1>5, <2>1 DEF OwnerInv, OrderInv
  <2>2. CASE a = h
    <3>1. writing'[a] = {w}
      BY <1>1, <1>3, <2>2
    <3>2. \A j \in DOMAIN remote[a][a] :
            remote[a][a][j].val <= n /\ remote[a][a][j].val \in Nat
      BY <2>2, LineVals DEF OwnerInv, OrderInv, HasVals
    <3>3. \A j \in DOMAIN remote'[a][a] :
            remote'[a][a][j].val <= n + 1 /\ remote'[a][a][j].val < n + 1
      BY <1>1, <1>3, <3>2
    <3>4. ASSUME NEW v \in 1 .. n + 1, v # n + 1, log'[a][v] \in SharedKeys
          PROVE  Shows(remote'[a][a], log'[a][v], v)
      <4>1. v \in 1 .. n /\ log'[a][v] = log[a][v]
        BY <1>1, <1>4, <2>2, <3>4
      <4>2. Shows(remote[a][a], log[a][v], v)
        BY <1>2, <2>2, <3>4, <4>1 DEF OwnerInv, OrderInv
      <4> QED  BY <1>3, <4>1, <4>2
    <3> QED  BY <1>1, <1>3, <1>4, <2>2, <3>1, <3>3, <3>4 DEF OwnerInv
  <2> QED  BY <2>1, <2>2
<1>7. ASSUME NEW a \in Hosts
      PROVE  /\ FetchInv(a)' /\ Foreign(a)'
             /\ \A g \in Hosts : g # a => LineInv(g, a)'
  <2>1. \A v \in 1 .. Len(log[a]) : log'[a][v] = log[a][v]
    BY <1>4, <1>5
  <2>2. Within(remote[a][a], remote'[a][a])
    BY <1>3, SelfWithin
  <2> QED  BY <1>3, <2>1, <2>2, OwnerMoves
<1> QED  BY <1>6, <1>7 DEF OrderInv

\* The insertion of a put, above everything the store has.
LEMMA InsertOrder ==
  ASSUME TypeInv, TypeInv', OrderInv, NEW h \in Hosts, NEW w \in writing[h], Insert(h, w)
  PROVE  OrderInv' /\ \A g, a \in Hosts : Within(remote[g][a], remote'[g][a])
<1> DEFINE n == Len(log[h])
           own == remote[h][h]
<1>1. /\ log[h] \in Seq(Keys) /\ n \in Nat /\ writing \in [Hosts -> SUBSET Write]
      /\ remote \in [Hosts -> [Hosts -> Stores(SharedKeys, Item)]]
  BY DEF TypeInv, StoreTypes, CountTypes, MovingTypes
<1>2. /\ w.dst = h /\ w.item.val = n /\ n > 0 /\ log[h][n] = w.key
      /\ writing[h] = {w} /\ \A k \in DOMAIN own : own[k].val < n
  BY DEF OwnerInv, OrderInv
<1>3. HasVals(own)
  BY LineVals
<1>4. /\ writing' = [writing EXCEPT ![h] = {}]
      /\ UNCHANGED <<fetched, storing, inbox, log>>
      /\ \A g, a \in Hosts : g # h \/ a # h => remote'[g][a] = remote[g][a]
      /\ IF w.key \in SharedKeys
         THEN remote'[h][h] = Over(Record(w.key, w.item), own)
         ELSE remote'[h][h] = own
  <2>1. writing' = [writing EXCEPT ![h] = {}]
    BY <1>1, <1>2 DEF Insert
  <2>2. UNCHANGED <<fetched, storing, inbox, log>>
    BY DEF Insert
  <2>3. CASE w.key \in SharedKeys
    <3> DEFINE new == Over(Record(w.key, w.item), remote[h][h])
               S == Stores(SharedKeys, Item)
    <3>1. remote' = [remote EXCEPT ![h][h] = new]
      BY <1>2, <2>3 DEF Insert
    <3>2. remote \in [Hosts -> [Hosts -> S]]
      BY <1>1
    <3> HIDE DEF new, S
    <3>3. remote'[h][h] = new
      BY <3>1, <3>2
    <3>4. \A g, a \in Hosts : g # h \/ a # h => remote'[g][a] = remote[g][a]
      BY <3>1, <3>2
    <3> QED  BY <2>1, <2>2, <2>3, <3>3, <3>4 DEF new
  <2>4. CASE w.key \notin SharedKeys
    BY <1>1, <1>2, <2>1, <2>2, <2>4 DEF Insert
  <2> QED  BY <2>3, <2>4
<1> DEFINE next == remote'[h][h]
<1>5. /\ DOMAIN own \subseteq DOMAIN next
      /\ w.key \in SharedKeys => w.key \in DOMAIN next /\ next[w.key].val = n
      /\ \A k \in DOMAIN next : next[k].val = n \/ (k \in DOMAIN own /\ next[k] = own[k])
      /\ \A k \in DOMAIN own : next[k] = own[k] \/ next[k].val = n
  <2>1. CASE w.key \in SharedKeys
    BY <1>2, <1>4, <2>1 DEF Over, Record
  <2>2. CASE w.key \notin SharedKeys
    BY <1>4, <2>2
  <2> QED  BY <2>1, <2>2
<1> HIDE DEF next
<1>6. Within(own, next)
  BY <1>1, <1>2, <1>3, <1>5 DEF Within, Below, HasVals
<1>7. ASSUME NEW a \in Hosts, a # h
      PROVE  OwnerInv(a)'
  BY <1>4, <1>7 DEF OwnerInv, OrderInv
<1>8. OwnerInv(h)'
  <2>1. writing'[h] = {}
    BY <1>1, <1>4
  <2>2. \A k \in DOMAIN next : next[k].val <= Len(log'[h])
    BY <1>1, <1>2, <1>3, <1>4, <1>5 DEF HasVals
  <2>3. ASSUME NEW v \in 1 .. n, log[h][v] \in SharedKeys
        PROVE  Shows(next, log[h][v], v)
    <3>1. CASE v = n
      BY <1>1, <1>2, <1>5, <2>3, <3>1 DEF Shows
    <3>2. CASE v # n
      <4>1. Shows(own, log[h][v], v)
        BY <1>2, <2>3, <3>2 DEF OwnerInv, OrderInv
      <4> QED  BY <1>1, <1>3, <1>5, <4>1 DEF Shows, HasVals
    <3> QED  BY <3>1, <3>2
  <2> QED  BY <1>4, <2>1, <2>2, <2>3 DEF OwnerInv, next
<1>9. ASSUME NEW g \in Hosts, NEW a \in Hosts
      PROVE  Within(remote[g][a], remote'[g][a])
  <2>1. CASE g = h /\ a = h
    BY <1>6, <2>1 DEF next
  <2>2. CASE g # h \/ a # h
    BY <1>4, <2>2, SelfWithin
  <2> QED  BY <2>1, <2>2
<1>10. ASSUME NEW a \in Hosts
       PROVE  /\ FetchInv(a)' /\ Foreign(a)'
              /\ \A g \in Hosts : g # a => LineInv(g, a)'
  <2>1. \A g \in Hosts : g # a => remote'[g][a] = remote[g][a]
    BY <1>4
  <2> QED  BY <1>4, <1>9, <2>1, OwnerMoves
<1> QED  BY <1>7, <1>8, <1>9, <1>10 DEF OrderInv

(***************************************************************************)
(* Steps at the copy: the line moves on, or gets longer.                   *)
(***************************************************************************)
\* Each place of the line is taken by what stood somewhere behind it, in the same
\* order, or by nothing.
LEMMA LineMoves ==
  ASSUME OrderInv, NEW h \in Hosts, NEW a \in Hosts, h # a,
         UNCHANGED <<log, remote[a][a]>>, fetched'[a] \subseteq fetched[a],
         NEW p \in [Nat -> Nat], \A m, n \in Nat : m < n => p[m] < p[n],
         \A n \in Nat : \A g \in InLine(h, a, n)' :
           \E f \in InLine(h, a, p[n]) : Alike(f, g)
  PROVE  LineInv(h, a)'
<1>1. LineInv(h, a)
  BY DEF OrderInv
<1>2. ASSUME NEW n \in Nat, NEW g \in InLine(h, a, n)'
      PROVE  IsPast(log'[a], remote'[a][a], g) /\ \A s \in fetched'[a] : Within(g, s)
  <2>1. PICK f \in InLine(h, a, p[n]) : Alike(f, g)
    OBVIOUS
  <2>2. /\ IsPast(log[a], remote[a][a], f)
        /\ \A s \in fetched[a] : Within(f, s)
    BY <1>1, <2>1 DEF LineInv
  <2>3. IsPast(log[a], remote[a][a], g) /\ \A s \in fetched[a] : Within(g, s)
    BY <2>1, <2>2, AlikeSame DEF IsPast
  <2> QED  BY <2>3
<1>3. ASSUME NEW m \in Nat, NEW n \in Nat, m < n,
             NEW f \in InLine(h, a, m)', NEW g \in InLine(h, a, n)'
      PROVE  Below(f, g)
  <2>1. PICK d \in InLine(h, a, p[m]) : Alike(d, f)
    OBVIOUS
  <2>2. PICK e \in InLine(h, a, p[n]) : Alike(e, g)
    OBVIOUS
  <2>3. Below(d, e)
    BY <1>1, <1>3, <2>1, <2>2 DEF LineInv
  <2> QED  BY <2>1, <2>2, <2>3, AlikeSame
<1> QED  BY <1>2, <1>3 DEF LineInv

\* The line stands still where neither its copy, its batch nor its frames change.
LEMMA LineStays ==
  ASSUME OrderInv, NEW h \in Hosts, NEW a \in Hosts, h # a,
         UNCHANGED <<log, remote[a][a]>>, fetched'[a] \subseteq fetched[a],
         \A n \in Nat : InLine(h, a, n)' \subseteq InLine(h, a, n)
  PROVE  LineInv(h, a)'
<1> DEFINE p == [n \in Nat |-> n]
<1>1. p \in [Nat -> Nat] /\ \A n \in Nat : p[n] = n
  OBVIOUS
<1>2. \A m, n \in Nat : m < n => p[m] < p[n]
  BY <1>1
<1>3. \A f : Alike(f, f)
  BY DEF Alike
<1>4. \A n \in Nat : \A g \in InLine(h, a, n)' :
        \E f \in InLine(h, a, p[n]) : Alike(f, g)
  BY <1>1, <1>3
<1> HIDE DEF p
<1> QED  BY <1>1, <1>2, <1>4, LineMoves

\* A host's own store shows all of its history.
LEMMA OwnIsPast ==
  ASSUME TypeInv, OrderInv, NEW h \in Hosts
  PROVE  IsPast(log[h], remote[h][h], remote[h][h])
<1>1. HasVals(remote[h][h])
  BY LineVals
<1>2. ASSUME NEW k \in DOMAIN remote[h][h], NEW v \in 1 .. remote[h][h][k].val,
             SameSchedule(k, log[h][v])
      PROVE  Shows(remote[h][h], log[h][v], v)
  <2>1. /\ remote[h][h][k].val \in Nat /\ remote[h][h][k].val <= Len(log[h])
        /\ \A w \in writing[h] : remote[h][h][k].val < w.item.val
        /\ Len(log[h]) \in Nat
    BY <1>1 DEF OwnerInv, OrderInv, HasVals, TypeInv, CountTypes
  <2>2. v \in 1 .. Len(log[h]) /\ log[h][v] \in SharedKeys
    BY <1>2, <2>1 DEF SameSchedule
  <2>3. \A w \in writing[h] : v # w.item.val
    <3>1. writing \in [Hosts -> SUBSET Write]
      BY DEF TypeInv, MovingTypes
    <3>2. \A w \in writing[h] : w.item.val \in Nat
      BY <3>1 DEF Write, Item
    <3> QED  BY <2>1, <3>2
  <2> QED  BY <2>2, <2>3 DEF OwnerInv, OrderInv
<1>3. Within(remote[h][h], remote[h][h])
  BY <1>1 DEF Within, Below, HasVals
<1> QED  BY <1>2, <1>3 DEF IsPast, IsCut

\* What a fetches is all there is of it, and so above every line.
LEMMA FetchOrder ==
  ASSUME TypeInv, TypeInv', OrderInv, NEW h \in Hosts, Fetch(h)
  PROVE  OrderInv'
<1>1. /\ fetched' = [fetched EXCEPT ![h] = {remote[h][h]}]
      /\ UNCHANGED <<remote, writing, storing, inbox, log>>
      /\ fetched \in [Hosts -> SUBSET Stores(SharedKeys, Item)]
  BY DEF Fetch, Collected, TypeInv, MovingTypes
<1>2. \A a \in Hosts : OwnerInv(a)' /\ Foreign(a)'
  BY <1>1 DEF OwnerInv, Foreign, OrderInv
<1>3. IsPast(log[h], remote[h][h], remote[h][h])
  BY OwnIsPast
<1>4. ASSUME NEW a \in Hosts PROVE FetchInv(a)'
  <2>1. fetched'[a] = IF a = h THEN {remote[h][h]} ELSE fetched[a]
    BY <1>1
  <2> QED  BY <1>1, <1>3, <2>1 DEF FetchInv, OrderInv
<1>5. ASSUME NEW g \in Hosts, NEW a \in Hosts, g # a PROVE LineInv(g, a)'
  <2>1. \A n : InLine(g, a, n)' = InLine(g, a, n)
    BY <1>1 DEF InLine
  <2>2. LineInv(g, a)
    BY <1>5 DEF OrderInv
  <2>3. ASSUME NEW n \in Nat, NEW f \in InLine(g, a, n), NEW s \in fetched'[a]
        PROVE  Within(f, s)
    <3>1. s \in fetched[a] \/ s = remote[a][a]
      BY <1>1
    <3> QED  BY <2>2, <3>1 DEF LineInv, IsPast
  <2> QED  BY <1>1, <2>1, <2>2, <2>3 DEF LineInv
<1> QED  BY <1>2, <1>4, <1>5 DEF OrderInv

\* A batch is made of whole schedules, and so as good a cut as what was fetched.
LEMMA BatchIsPast ==
  ASSUME NEW h \in Hosts, NEW s, NEW l, NEW own, IsPast(l, own, s), HasVals(s), HasVals(own)
  PROVE  IsPast(l, own, Batch(h, s)) /\ Within(Batch(h, s), s)
<1>1. /\ DOMAIN Batch(h, s) = {k \in DOMAIN s : Due(k, counter[h])}
      /\ \A k \in DOMAIN Batch(h, s) : Batch(h, s)[k].val = s[k].val
  BY DEF Batch
<1>2. Within(Batch(h, s), s)
  BY <1>1 DEF Within, Below, HasVals
<1>3. Within(Batch(h, s), own)
  BY <1>1 DEF Within, Below, IsPast
<1>4. ASSUME NEW k \in DOMAIN Batch(h, s), NEW v \in 1 .. Batch(h, s)[k].val,
             SameSchedule(k, l[v])
      PROVE  Shows(Batch(h, s), l[v], v)
  <2>1. Shows(s, l[v], v) /\ Due(k, counter[h])
    BY <1>1, <1>4 DEF IsPast, IsCut
  <2>2. Due(l[v], counter[h])
    BY <1>4, <2>1 DEF Due, SameSchedule
  <2> QED  BY <1>1, <2>1, <2>2 DEF Shows
<1> QED  BY <1>2, <1>3, <1>4 DEF IsPast, IsCut

\* A batch takes its place behind everything that is under way.
LEMMA SendOrder ==
  ASSUME TypeInv, TypeInv', OrderInv, NEW a \in Hosts, NEW s \in fetched[a],
         NEW to \in SUBSET (Hosts \ {a}), Send(a, s, to)
  PROVE  OrderInv'
<1> DEFINE frame == [from |-> a, sent |-> now, data |-> Batch(a, s)]
<1>1. /\ fetched' = [fetched EXCEPT ![a] = {}]
      /\ inbox' = [r \in Hosts |-> IF r \in to THEN Append(inbox[r], frame) ELSE inbox[r]]
      /\ UNCHANGED <<remote, writing, storing, log>>
  BY DEF Send
<1>2. frame.from = a /\ frame.data = Batch(a, s)
  OBVIOUS
<1> HIDE DEF frame
<1>3. fetched \in [Hosts -> SUBSET Stores(SharedKeys, Item)] /\ inbox \in [Hosts -> Seq(Frame)]
  BY DEF TypeInv, MovingTypes
<1>4. ASSUME NEW r \in Hosts
      PROVE  /\ \A i \in DOMAIN inbox'[r] :
                  \/ i \in DOMAIN inbox[r] /\ inbox'[r][i] = inbox[r][i]
                  \/ r \in to /\ i = Len(inbox[r]) + 1 /\ inbox'[r][i] = frame
             /\ \A i \in DOMAIN inbox[r] : i <= Len(inbox[r]) /\ i \in Nat
             /\ Len(inbox[r]) \in Nat
  BY <1>1, <1>3
<1>5. \A b \in Hosts : fetched'[b] \subseteq fetched[b] /\ fetched'[a] = {}
  BY <1>1, <1>3
<1>6. ASSUME NEW b \in Hosts PROVE OwnerInv(b)' /\ FetchInv(b)' /\ Foreign(b)'
  <2>1. OwnerInv(b)' /\ FetchInv(b)'
    BY <1>1, <1>5 DEF OwnerInv, FetchInv, OrderInv
  <2>2. Foreign(b)'
    BY <1>1, <1>2, <1>4 DEF Foreign, OrderInv
  <2> QED  BY <2>1, <2>2
<1>7. ASSUME NEW h \in Hosts, NEW b \in Hosts, h # b, b # a \/ h \notin to
      PROVE  LineInv(h, b)'
  <2>1. \A i \in DOMAIN inbox'[h] : inbox'[h][i].from = b =>
          i \in DOMAIN inbox[h] /\ inbox'[h][i] = inbox[h][i]
    BY <1>2, <1>4, <1>7
  <2>2. \A n \in Nat : InLine(h, b, n)' \subseteq InLine(h, b, n)
    BY <1>1, <2>1 DEF InLine
  <2> QED  BY <1>1, <1>5, <1>7, <2>2, LineStays
<1>8. ASSUME NEW h \in to PROVE LineInv(h, a)'
  <2> DEFINE z == Len(inbox[h]) + 2
  <2>1. h \in Hosts /\ h # a /\ LineInv(h, a) /\ Len(inbox[h]) \in Nat /\ z \in Nat
    BY <1>4 DEF OrderInv
  <2>2. /\ HasVals(s) /\ HasVals(remote[a][a]) /\ IsPast(log[a], remote[a][a], s)
        /\ \A n \in Nat : \A f \in InLine(h, a, n) : HasVals(f)
    BY <2>1, LineVals DEF FetchInv, OrderInv
  <2>3. /\ IsPast(log[a], remote[a][a], Batch(a, s)) /\ Within(Batch(a, s), s)
    BY <2>2, BatchIsPast
  <2>4. \A n \in Nat : \A g \in InLine(h, a, n)' :
          g \in InLine(h, a, n) \/ (n = z /\ g = Batch(a, s))
    BY <1>1, <1>2, <1>4, <2>1 DEF InLine
  <2>5. \A n \in Nat : n >= z => InLine(h, a, n) = {}
    BY <1>4, <2>1 DEF InLine
  <2>6. ASSUME NEW n \in Nat, NEW g \in InLine(h, a, n)'
        PROVE  IsPast(log'[a], remote'[a][a], g) /\ \A t \in fetched'[a] : Within(g, t)
    BY <1>1, <1>5, <2>1, <2>3, <2>4 DEF LineInv
  <2>7. ASSUME NEW m \in Nat, NEW n \in Nat, m < n,
               NEW f \in InLine(h, a, m)', NEW g \in InLine(h, a, n)'
        PROVE  Below(f, g)
    <3>1. CASE n = z /\ g = Batch(a, s)
      <4>1. f \in InLine(h, a, m)
        BY <2>1, <2>4, <2>7, <3>1
      <4>2. Within(f, s) /\ HasVals(f)
        BY <2>1, <2>2, <4>1 DEF LineInv
      <4>3. \A k \in DOMAIN Batch(a, s) : Batch(a, s)[k].val = s[k].val /\ k \in DOMAIN s
        BY DEF Batch
      <4> QED  BY <3>1, <4>2, <4>3 DEF Within, Below
    <3>2. CASE g \in InLine(h, a, n)
      <4>1. n < z
        BY <2>1, <2>5, <3>2
      <4>2. f \in InLine(h, a, m)
        BY <2>1, <2>4, <2>7, <4>1
      <4> QED  BY <2>1, <2>7, <3>2, <4>2 DEF LineInv
    <3> QED  BY <2>4, <3>1, <3>2
  <2> QED  BY <2>6, <2>7 DEF LineInv
<1> QED  BY <1>6, <1>7, <1>8 DEF OrderInv

\* The first frame becomes the batch, every other one moves up.
LEMMA ReceiveOrder ==
  ASSUME TypeInv, TypeInv', OrderInv, InOrder, NEW h \in Hosts, NEW i \in DOMAIN inbox[h],
         NEW again \in BOOLEAN, Receive(h, i, again)
  PROVE  OrderInv'
<1> DEFINE frame == inbox[h][1]
           batch == [from |-> frame.from, items |-> Stamped(h, frame.data)]
<1>1. /\ i = 1 /\ storing[h] = {}
      /\ storing' = [storing EXCEPT ![h] = {batch}]
      /\ inbox' = [inbox EXCEPT ![h] = RemoveAt(@, 1)]
      /\ UNCHANGED <<remote, writing, fetched, log>>
  BY DEF Receive, InOrder
<1>2. batch.from = frame.from /\ batch.items = Stamped(h, frame.data)
  OBVIOUS
<1> HIDE DEF batch
<1>3. inbox \in [Hosts -> Seq(Frame)] /\ storing \in [Hosts -> SUBSET Arriving]
  BY DEF TypeInv, MovingTypes
<1>4. /\ inbox[h] \in Seq(Frame) /\ Len(inbox[h]) \in Nat /\ Len(inbox[h]) >= 1
      /\ 1 \in DOMAIN inbox[h]
  BY <1>1, <1>3
<1>5. inbox'[h] = Tail(inbox[h])
  <2>1. RemoveAt(inbox[h], 1) = SubSeq(inbox[h], 1, 0) \o SubSeq(inbox[h], 2, Len(inbox[h]))
    BY DEF RemoveAt
  <2>2. SubSeq(inbox[h], 1, 0) = <<>>
    BY <1>4
  <2>3. SubSeq(inbox[h], 2, Len(inbox[h])) \in Seq(Frame)
    BY <1>4
  <2>4. SubSeq(inbox[h], 2, Len(inbox[h])) = Tail(inbox[h])
    BY <1>4
  <2> QED  BY <1>1, <1>3, <2>1, <2>2, <2>3, <2>4
<1>6. \A n \in DOMAIN inbox'[h] :
        n \in Nat /\ n >= 1 /\ n + 1 \in DOMAIN inbox[h] /\ inbox'[h][n] = inbox[h][n + 1]
  BY <1>4, <1>5
<1>7. \A g \in Hosts : g # h => inbox'[g] = inbox[g] /\ storing'[g] = storing[g]
  BY <1>1, <1>3
<1>8. storing'[h] = {batch}
  BY <1>1, <1>3
<1>9. Alike(frame.data, Stamped(h, frame.data))
  BY DEF Alike, Stamped
<1>10. ASSUME NEW a \in Hosts PROVE OwnerInv(a)' /\ FetchInv(a)' /\ Foreign(a)'
  <2>1. OwnerInv(a)' /\ FetchInv(a)'
    BY <1>1 DEF OwnerInv, FetchInv, OrderInv
  <2>2. Foreign(a)'
    BY <1>2, <1>4, <1>6, <1>7, <1>8 DEF Foreign, OrderInv
  <2> QED  BY <2>1, <2>2
<1>11. ASSUME NEW g \in Hosts, NEW a \in Hosts, g # a PROVE LineInv(g, a)'
  <2>1. CASE g # h
    <3>1. \A n \in Nat : InLine(g, a, n)' \subseteq InLine(g, a, n)
      BY <1>1, <1>7, <2>1 DEF InLine
    <3> QED  BY <1>1, <1>11, <3>1, LineStays
  <2>2. CASE g = h
    <3> DEFINE p == [n \in Nat |-> IF n = 0 THEN 0 ELSE n + 1]
    <3>1. /\ p \in [Nat -> Nat] /\ \A m, n \in Nat : m < n => p[m] < p[n]
          /\ p[0] = 0 /\ \A n \in Nat : n # 0 => p[n] = n + 1
      OBVIOUS
    <3> HIDE DEF p
    <3>2. ASSUME NEW n \in Nat, NEW x \in InLine(h, a, n)'
          PROVE  \E f \in InLine(h, a, p[n]) : Alike(f, x)
      <4>1. CASE n = 0
        <5>1. x = remote[h][a]
          BY <1>1, <4>1 DEF InLine
        <5> QED  BY <3>1, <4>1, <5>1 DEF InLine, Alike
      <4>2. CASE n = 1
        <5>1. x = Stamped(h, frame.data) /\ frame.from = a
          BY <1>2, <1>8, <4>2 DEF InLine
        <5>2. frame.data \in InLine(h, a, 2)
          BY <1>4, <5>1 DEF InLine
        <5> QED  BY <1>9, <3>1, <4>2, <5>1, <5>2
      <4>3. CASE n # 0 /\ n # 1
        <5>1. PICK j \in DOMAIN inbox'[h] :
                j = n - 1 /\ inbox'[h][j].from = a /\ x = inbox'[h][j].data
          BY <4>3 DEF InLine
        <5>2. /\ n \in DOMAIN inbox[h] /\ inbox[h][n].from = a
              /\ x = inbox[h][n].data
          BY <1>6, <5>1
        <5>3. x \in InLine(h, a, n + 1)
          <6>1. n + 1 # 0 /\ n + 1 # 1 /\ n = (n + 1) - 1
            BY <4>3
          <6> QED  BY <5>2, <6>1 DEF InLine
        <5> QED  BY <3>1, <4>3, <5>3 DEF Alike
      <4> QED  BY <4>1, <4>2, <4>3
    <3> QED  BY <1>1, <1>11, <2>2, <3>1, <3>2, LineMoves
  <2> QED  BY <2>1, <2>2
<1> QED  BY <1>10, <1>11 DEF OrderInv

\* What a batch is written over is older.
LEMMA MergedPast ==
  ASSUME NEW f, NEW g, NEW l, NEW own, IsPast(l, own, f), IsPast(l, own, g),
         HasVals(f), HasVals(g), Below(f, g)
  PROVE  /\ IsPast(l, own, Over(g, f))
         /\ Within(f, Over(g, f))
         /\ \A e : Within(f, e) /\ Within(g, e) => Within(Over(g, f), e)
         /\ \A e : Below(f, e) /\ Below(g, e) => Below(Over(g, f), e)
<1>1. /\ DOMAIN Over(g, f) = DOMAIN g \union DOMAIN f
      /\ \A k \in DOMAIN g : Over(g, f)[k] = g[k]
      /\ \A k \in DOMAIN f : k \notin DOMAIN g => Over(g, f)[k] = f[k]
  BY DEF Over
<1>2. Within(f, Over(g, f))
  BY <1>1 DEF Within, Below, HasVals
<1>3. \A e : Below(f, e) /\ Below(g, e) => Below(Over(g, f), e)
  BY <1>1 DEF Below
<1>4. \A e : Within(f, e) /\ Within(g, e) => Within(Over(g, f), e)
  BY <1>1, <1>3 DEF Within
<1>5. ASSUME NEW k \in DOMAIN Over(g, f), NEW v \in 1 .. Over(g, f)[k].val,
             SameSchedule(k, l[v])
      PROVE  Shows(Over(g, f), l[v], v)
  <2>1. Shows(g, l[v], v) \/ Shows(f, l[v], v)
    BY <1>1, <1>5 DEF IsPast, IsCut
  <2>2. CASE Shows(g, l[v], v)
    BY <1>1, <2>2 DEF Shows
  <2>3. CASE Shows(f, l[v], v)
    <3>1. l[v] \in DOMAIN g => f[l[v]].val <= g[l[v]].val /\ g[l[v]].val \in Nat
      BY <2>3 DEF Shows, Below, HasVals
    <3> QED  BY <1>1, <2>3, <3>1 DEF Shows, HasVals
  <2> QED  BY <2>1, <2>2, <2>3
<1> QED  BY <1>2, <1>3, <1>4, <1>5 DEF IsPast, IsCut

\* The batch goes into the copy, the line closes up.
LEMMA InsertBatchOrder ==
  ASSUME TypeInv, TypeInv', OrderInv, NEW h \in Hosts, NEW b \in storing[h],
         InsertBatch(h, b)
  PROVE  OrderInv' /\ \A g, a \in Hosts : Within(remote[g][a], remote'[g][a])
<1> DEFINE copy == remote[h][b.from]
           new == Over(b.items, copy)
           S == Stores(SharedKeys, Item)
<1>1. /\ storing \in [Hosts -> SUBSET Arriving] /\ remote \in [Hosts -> [Hosts -> S]]
      /\ b.from \in Hosts /\ b.from # h
  BY DEF TypeInv, MovingTypes, StoreTypes, Arriving, OrderInv, Foreign
<1>2. /\ storing' = [storing EXCEPT ![h] = {}]
      /\ remote' = [remote EXCEPT ![h][b.from] = new]
      /\ UNCHANGED <<writing, fetched, inbox, log>>
  BY DEF InsertBatch, Merge
<1> HIDE DEF new, S
<1>3. /\ remote'[h][b.from] = new /\ storing'[h] = {}
      /\ \A g, a \in Hosts : g # h \/ a # b.from => remote'[g][a] = remote[g][a]
      /\ \A g \in Hosts : storing'[g] \subseteq storing[g]
  BY <1>1, <1>2
<1>4. ASSUME NEW a \in Hosts
      PROVE  /\ OwnerInv(a)' /\ FetchInv(a)' /\ Foreign(a)'
             /\ remote'[a][a] = remote[a][a]
  <2>1. remote'[a][a] = remote[a][a]
    BY <1>1, <1>3
  <2>2. Foreign(a)'
    BY <1>2, <1>3 DEF Foreign, OrderInv
  <2> QED  BY <1>2, <2>1, <2>2 DEF OwnerInv, FetchInv, OrderInv
<1>5. ASSUME NEW g \in Hosts, NEW a \in Hosts, g # a, g # h \/ a # b.from
      PROVE  LineInv(g, a)'
  <2>1. storing'[g] \subseteq storing[g] /\ remote'[g][a] = remote[g][a]
    BY <1>3, <1>5
  <2>2. \A n \in Nat : InLine(g, a, n)' \subseteq InLine(g, a, n)
    BY <1>2, <2>1 DEF InLine
  <2> QED  BY <1>2, <1>4, <1>5, <2>2, LineStays
<1>6. /\ LineInv(h, b.from)
      /\ copy \in InLine(h, b.from, 0) /\ b.items \in InLine(h, b.from, 1)
      /\ HasVals(copy) /\ HasVals(b.items)
  <2>1. copy \in InLine(h, b.from, 0) /\ b.items \in InLine(h, b.from, 1)
    BY DEF InLine
  <2> QED  BY <1>1, <2>1, LineVals DEF OrderInv
<1> HIDE DEF copy
<1>7. /\ IsPast(log[b.from], remote[b.from][b.from], copy)
      /\ IsPast(log[b.from], remote[b.from][b.from], b.items)
      /\ Below(copy, b.items)
  BY <1>6 DEF LineInv
<1>8. /\ IsPast(log[b.from], remote[b.from][b.from], new) /\ Within(copy, new)
      /\ \A e : Within(copy, e) /\ Within(b.items, e) => Within(new, e)
      /\ \A e : Below(copy, e) /\ Below(b.items, e) => Below(new, e)
  BY <1>6, <1>7, MergedPast DEF new
<1>9. LineInv(h, b.from)'
  <2>1. \A n \in Nat : \A g \in InLine(h, b.from, n)' :
          \/ n = 0 /\ g = new
          \/ n > 1 /\ g \in InLine(h, b.from, n)
    BY <1>2, <1>3 DEF InLine
  <2>2. ASSUME NEW n \in Nat, NEW g \in InLine(h, b.from, n)'
        PROVE  /\ IsPast(log'[b.from], remote'[b.from][b.from], g)
               /\ \A s \in fetched'[b.from] : Within(g, s)
    <3>1. CASE g = new
      BY <1>1, <1>2, <1>4, <1>6, <1>8, <3>1 DEF LineInv
    <3>2. CASE g \in InLine(h, b.from, n)
      BY <1>1, <1>2, <1>4, <1>6, <3>2 DEF LineInv
    <3> QED  BY <2>1, <3>1, <3>2
  <2>3. ASSUME NEW m \in Nat, NEW n \in Nat, m < n,
               NEW f \in InLine(h, b.from, m)', NEW g \in InLine(h, b.from, n)'
        PROVE  Below(f, g)
    <3>1. n > 1 /\ g \in InLine(h, b.from, n)
      BY <2>1, <2>3
    <3>2. CASE m = 0 /\ f = new
      <4>1. Below(copy, g) /\ Below(b.items, g)
        BY <1>6, <3>1 DEF LineInv
      <4> QED  BY <1>8, <3>2, <4>1
    <3>3. CASE f \in InLine(h, b.from, m)
      BY <1>6, <2>3, <3>1, <3>3 DEF LineInv
    <3> QED  BY <2>1, <3>2, <3>3
  <2> QED  BY <2>2, <2>3 DEF LineInv
<1>10. ASSUME NEW g \in Hosts, NEW a \in Hosts
       PROVE  Within(remote[g][a], remote'[g][a])
  <2>1. CASE g = h /\ a = b.from
    BY <1>3, <1>8, <2>1 DEF copy
  <2>2. CASE g # h \/ a # b.from
    BY <1>3, <2>2, SelfWithin
  <2> QED  BY <2>1, <2>2
<1> QED  BY <1>1, <1>4, <1>5, <1>9, <1>10 DEF OrderInv

\* comm gives a batch up, or is restarted; time goes on.
LEMMA OtherOrder ==
  ASSUME TypeInv, TypeInv', OrderInv, UNCHANGED <<remote, writing, inbox, log>>,
         \A h \in Hosts : fetched'[h] \subseteq fetched[h] /\ storing'[h] \subseteq storing[h]
  PROVE  OrderInv'
<1>1. ASSUME NEW a \in Hosts PROVE OwnerInv(a)' /\ FetchInv(a)' /\ Foreign(a)'
  BY DEF OwnerInv, FetchInv, Foreign, OrderInv
<1>2. ASSUME NEW h \in Hosts, NEW a \in Hosts, h # a PROVE LineInv(h, a)'
  <2>1. \A n \in Nat : InLine(h, a, n)' \subseteq InLine(h, a, n)
    BY DEF InLine
  <2> QED  BY <1>2, <2>1, LineStays
<1> QED  BY <1>1, <1>2 DEF OrderInv

\* With one process putting and a network that keeps the order, every step keeps
\* OrderInv, and none takes anything back.
LEMMA NextOrder ==
  ASSUME TypeInv, TypeInv', OrderInv, InOrder, [Next]_vars
  PROVE  OrderInv' /\ \A g, a \in Hosts : Within(remote[g][a], remote'[g][a])
<1> DEFINE Goal == OrderInv' /\ \A g, a \in Hosts : Within(remote[g][a], remote'[g][a])
<1>1. CASE UNCHANGED remote /\ OrderInv'
  BY <1>1, SelfWithin
<1>2. ASSUME NEW h \in Hosts, NEW k \in Keys, Put(h, k) PROVE Goal
  <2>1. UNCHANGED remote
    BY <1>2 DEF Put, Stamp
  <2> QED  BY <1>1, <1>2, <2>1, PutOrder
<1>3. ASSUME NEW h \in Hosts, NEW dst \in Hosts, NEW k \in Keys, NEW life \in CommLives,
             CommPut(h, k, dst, life)
      PROVE  Goal
  BY DEF InOrder
<1>4. ASSUME NEW h \in Hosts, NEW w \in writing[h], Insert(h, w) PROVE Goal
  BY <1>4, InsertOrder
<1>5. ASSUME NEW h \in Hosts, Fetch(h) PROVE Goal
  <2>1. UNCHANGED remote
    BY <1>5 DEF Fetch
  <2> QED  BY <1>1, <1>5, <2>1, FetchOrder
<1>6. ASSUME NEW h \in Hosts, NEW s \in fetched[h], NEW to \in SUBSET (Hosts \ {h}),
             Send(h, s, to)
      PROVE  Goal
  <2>1. UNCHANGED remote
    BY <1>6 DEF Send
  <2> QED  BY <1>1, <1>6, <2>1, SendOrder
<1>7. ASSUME NEW h \in Hosts, NEW i \in DOMAIN inbox[h], NEW again \in BOOLEAN,
             Receive(h, i, again)
      PROVE  Goal
  <2>1. UNCHANGED remote
    BY <1>7 DEF Receive
  <2> QED  BY <1>1, <1>7, <2>1, ReceiveOrder
<1>8. ASSUME NEW h \in Hosts, NEW b \in storing[h], InsertBatch(h, b) PROVE Goal
  BY <1>8, InsertBatchOrder
<1>9. CASE (\E h \in Hosts : BatchFails(h) \/ Restart(h)) \/ Tick \/ UNCHANGED vars
  <2>1. UNCHANGED <<remote, writing, inbox, log>>
    BY <1>9 DEF BatchFails, Restart, Tick, vars
  <2>2. \A h \in Hosts : fetched'[h] \subseteq fetched[h] /\ storing'[h] \subseteq storing[h]
    BY <1>9 DEF BatchFails, Restart, Tick, vars, TypeInv, MovingTypes
  <2> QED  BY <1>1, <2>1, <2>2, OtherOrder
<1> QED  BY <1>2, <1>3, <1>4, <1>5, <1>6, <1>7, <1>8, <1>9 DEF Next

LEMMA InitOrder ==
  ASSUME Init
  PROVE  OrderInv
<1>1. DOMAIN << >> = {} /\ Len(<< >>) = 0
  OBVIOUS
<1>2. ASSUME NEW a \in Hosts PROVE OwnerInv(a) /\ FetchInv(a) /\ Foreign(a)
  BY <1>1 DEF Init, OwnerInv, FetchInv, Foreign
<1>3. ASSUME NEW h \in Hosts, NEW a \in Hosts, NEW n \in Nat, NEW f \in InLine(h, a, n)
      PROVE  f = << >>
  BY <1>1 DEF Init, InLine
<1>4. IsPast(<< >>, << >>, << >>) /\ Below(<< >>, << >>)
  BY <1>1 DEF IsPast, IsCut, Within, Below
<1>5. \A h, a \in Hosts : LineInv(h, a)
  BY <1>3, <1>4 DEF LineInv, Init
<1> QED  BY <1>2, <1>5 DEF OrderInv

LEMMA OrderHolds ==
  ASSUME InOrder
  PROVE  Spec => []OrderInv
<1>1. TypeInv /\ TypeInv' /\ OrderInv /\ [Next]_vars => OrderInv'
  BY NextOrder
<1> QED  BY <1>1, InitOrder, TypeInvHolds, PTL DEF Spec

\* With one process putting on each host and a network that keeps the order of frames,
\* every copy is a cut of its owner's history in the keys of one schedule, for all
\* numbers of hosts, keys, puts and frames, whichever frames are lost and however often
\* comm is restarted (RtDB2StorageLMDB.cpp:110-155).
THEOREM CopyCorrect ==
  ASSUME InOrder
  PROVE  Spec => []CopyIsCut
<1>1. TypeInv /\ OrderInv => CopyIsCut
  <2> SUFFICES ASSUME TypeInv, OrderInv, NEW h \in Hosts, NEW a \in Hosts
               PROVE  IsCut(log[a], remote[h][a])
    BY DEF CopyIsCut, IsCut, Shows
  <2>1. CASE h # a
    <3>1. remote[h][a] \in InLine(h, a, 0)
      BY DEF InLine
    <3> QED  BY <2>1, <3>1 DEF OrderInv, LineInv, IsPast
  <2>2. CASE h = a
    BY <2>2, OwnIsPast DEF IsPast
  <2> QED  BY <2>1, <2>2
<1> QED  BY <1>1, OrderHolds, TypeInvHolds, PTL

\* Under the same conditions no copy ever falls back to an older value or loses a key
\* (RtDB2.cpp:92-100).
THEOREM NeverBackHolds ==
  ASSUME InOrder
  PROVE  Spec => NeverBack
<1>1. TypeInv /\ TypeInv' /\ OrderInv /\ [Next]_vars =>
        [\A h, a \in Hosts : \A k \in DOMAIN remote[h][a] :
           /\ k \in DOMAIN remote'[h][a]
           /\ remote'[h][a][k].val >= remote[h][a][k].val]_vars
  <2> SUFFICES ASSUME TypeInv, TypeInv', OrderInv, [Next]_vars,
                      NEW h \in Hosts, NEW a \in Hosts, NEW k \in DOMAIN remote[h][a]
               PROVE  /\ k \in DOMAIN remote'[h][a]
                      /\ remote'[h][a][k].val >= remote[h][a][k].val
    OBVIOUS
  <2>1. Within(remote[h][a], remote'[h][a])
    BY NextOrder
  <2>2. HasVals(remote[h][a]) /\ HasVals(remote'[h][a])
    <3>1. remote'[h][a] \in Stores(SharedKeys, Item)
      BY DEF TypeInv, StoreTypes
    <3> QED  BY <3>1, LineVals, StoreVals
  <2> QED  BY <2>1, <2>2 DEF Within, Below, HasVals
<1> QED  BY <1>1, OrderHolds, TypeInvHolds, PTL DEF Spec, NeverBack
=============================================================================
