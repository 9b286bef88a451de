--------------------------- MODULE Segments_proofs ---------------------------
(***************************************************************************)
(* Theorems about the shared memory of version 1, for every number of      *)
(* processes, every configuration file and any number of crashes: what     *)
(* RtDB1 does to the segments.                                             *)
(***************************************************************************)
EXTENDS RtDB1, SequenceTheorems, FiniteSetTheorems, WellFoundedInduction, TLAPS

(***************************************************************************)
(* Induction over the natural numbers, for sets of them.                   *)
(***************************************************************************)
LEMMA SmallestNat ==
  ASSUME NEW T \in SUBSET Nat, T # {}
  PROVE  \E x \in T : \A y \in T : x <= y
<1>1. PICK x \in T : \A y \in T : ~ (<<y, x>> \in OpToRel(<, Nat))
  BY NatLessThanWellFounded, WFMin
<1>2. \A y \in T : ~(y < x)
  BY <1>1 DEF OpToRel
<1> QED  BY <1>2

LEMMA SetInduction ==
  ASSUME NEW S, 0 \in S, \A n \in Nat : n \in S => n + 1 \in S
  PROVE  Nat \subseteq S
<1> DEFINE T == {n \in Nat : n \notin S}
<1> SUFFICES ASSUME T # {} PROVE FALSE
  OBVIOUS
<1>1. PICK x \in T : \A y \in T : x <= y
  BY SmallestNat
<1>2. x - 1 \in Nat /\ x - 1 \notin T
  BY <1>1
<1> QED  BY <1>1, <1>2

\* A function on 0 .. N, given by its first value and its steps.
Goes(f, D, N, a, g) ==
  /\ f \in [0 .. N -> D] /\ f[0] = a
  /\ \A n \in 1 .. N : f[n] = g[<<f[n - 1], n>>]

LEMMA Steps ==
  ASSUME NEW D, NEW N \in Nat, NEW a \in D, NEW g \in [D \X (1 .. N) -> D]
  PROVE  \E f : Goes(f, D, N, a, g)
<1> DEFINE Good(f, m) ==
             /\ f \in [0 .. m -> D] /\ f[0] = a
             /\ \A n \in 1 .. m : f[n] = g[<<f[n - 1], n>>]
           S == {m \in Nat : m <= N => \E f : Good(f, m)}
<1>1. 0 \in S
  <2>1. Good([n \in 0 .. 0 |-> a], 0)
    OBVIOUS
  <2> QED  BY <2>1
<1>2. ASSUME NEW m \in Nat, m \in S PROVE m + 1 \in S
  <2> SUFFICES ASSUME m + 1 <= N PROVE \E f : Good(f, m + 1)
    OBVIOUS
  <2>1. PICK f : Good(f, m)
    BY <1>2
  <2> DEFINE h == [n \in 0 .. m + 1 |-> IF n = m + 1 THEN g[<<f[m], m + 1>>] ELSE f[n]]
  <2>2. h \in [0 .. m + 1 -> D]
    <3>1. \A n \in 0 .. m + 1 : n # m + 1 => n \in 0 .. m
      OBVIOUS
    <3>2. m \in 0 .. m /\ m + 1 \in 1 .. N
      OBVIOUS
    <3>3. g[<<f[m], m + 1>>] \in D
      BY <2>1, <3>2
    <3> QED  BY <2>1, <3>1, <3>3
  <2>3. h[0] = a
    BY <2>1
  <2>4. ASSUME NEW n \in 1 .. m + 1 PROVE h[n] = g[<<h[n - 1], n>>]
    <3>1. n - 1 \in 0 .. m /\ n - 1 # m + 1 /\ n - 1 \in 0 .. m + 1 /\ n \in 0 .. m + 1
      OBVIOUS
    <3>2. h[n - 1] = f[n - 1]
      BY <3>1
    <3>3. CASE n = m + 1
      BY <3>1, <3>2, <3>3
    <3>4. CASE n # m + 1
      BY <2>1, <3>1, <3>2, <3>4
    <3> QED  BY <3>3, <3>4
  <2>5. Good(h, m + 1)
    <3> HIDE DEF h
    <3> QED  BY <2>2, <2>3, <2>4
  <2> QED  BY <2>5
<1>3. N \in S
  <2> HIDE DEF S
  <2> QED  BY <1>1, <1>2, SetInduction
<1> QED  BY <1>3 DEF Goes

(***************************************************************************)
(* Configurations.                                                         *)
(***************************************************************************)
Line      == [kind : {"agent", "shared", "local"}, id : Nat, size : Nat]
RecConf   == [id : Ids, size : Nat]
AgentConf == [shared : Seq(RecConf), local : Seq(RecConf)]

\* A line keeps a configuration one.
LEMMA LineRead ==
  ASSUME NEW c \in Seq(AgentConf), NEW line \in Line, line.kind # "agent" => line.id \in Ids
  PROVE  ReadLine(c, line) \in Seq(AgentConf)
<1> DEFINE rec == [id |-> line.id, size |-> line.size]
<1>1. CASE line.kind = "agent"
  <2>1. [shared |-> <<>>, local |-> <<>>] \in AgentConf
    BY DEF AgentConf
  <2> QED  BY <1>1, <2>1 DEF ReadLine
<1>2. CASE line.kind # "agent" /\ c = <<>>
  <2>1. ReadLine(c, line) = <<>>
    BY <1>2 DEF ReadLine, Line
  <2> QED  BY <1>2, <2>1
<1>3. CASE line.kind # "agent" /\ c # <<>>
  <2> DEFINE n == Len(c)
             s == [c[n] EXCEPT !.shared = Append(@, rec)]
             l == [c[n] EXCEPT !.local = Append(@, rec)]
  <2>1. n \in 1 .. Len(c) /\ c[n] \in AgentConf /\ rec \in RecConf
    BY <1>3 DEF RecConf, Line
  <2> HIDE DEF rec
  <2>2. c[n].shared \in Seq(RecConf) /\ c[n].local \in Seq(RecConf)
    BY <2>1 DEF AgentConf
  <2>3. Append(c[n].shared, rec) \in Seq(RecConf) /\ Append(c[n].local, rec) \in Seq(RecConf)
    BY <2>1, <2>2
  <2>4. s \in AgentConf /\ l \in AgentConf
    BY <2>1, <2>2, <2>3 DEF AgentConf
  <2>5. ReadLine(c, line) = [c EXCEPT ![n] = s] \/ ReadLine(c, line) = [c EXCEPT ![n] = l]
    <3>1. line.kind = "shared" \/ line.kind = "local"
      BY <1>3 DEF Line
    <3> QED  BY <3>1, <1>3 DEF ReadLine, rec
  <2> HIDE DEF n, s, l
  <2> QED  BY <2>1, <2>4, <2>5
<1> QED  BY <1>1, <1>2, <1>3

\* Whatever a file holds, a configuration that is accepted has its place in the
\* tables.
LEMMA ConfigurationRead ==
  ASSUME NEW f \in Files
  PROVE  LET c == ReadConfiguration(f)
         IN  /\ c \in Seq(AgentConf) /\ Len(c) <= MaxAgents
             /\ \A i \in DOMAIN c : Len(c[i].shared) + Len(c[i].local) <= MaxRecs
<1> DEFINE N == Len(f)
           D == Seq(AgentConf)
           g == [x \in D \X (1 .. N) |-> ReadLine(x[1], f[x[2]])]
           Def(r) == r = [n \in 0 .. N |-> IF n = 0 THEN <<>> ELSE ReadLine(r[n - 1], f[n])]
           read == CHOOSE r : Def(r)
<1>1. /\ f \in Seq(Line) /\ N \in Nat
      /\ \A i \in 1 .. N : f[i] \in Line /\ (f[i].kind # "agent" => f[i].id \in Ids)
  <2>1. f \in Seq(Line)
    BY SegmentsConstants DEF Line
  <2>2. \A i \in DOMAIN f : f[i].kind # "agent" => f[i].id \in Ids
    BY SegmentsConstants
  <2>3. DOMAIN f = 1 .. N /\ N \in Nat /\ \A i \in 1 .. N : f[i] \in Line
    BY <2>1
  <2> QED  BY <2>1, <2>2, <2>3
<1>2. g \in [D \X (1 .. N) -> D]
  BY <1>1, LineRead
<1>3. PICK r \in [0 .. N -> D] : r[0] = <<>> /\ \A n \in 1 .. N : r[n] = g[<<r[n - 1], n>>]
  <2> DEFINE none == <<>>
  <2>1. none \in D
    OBVIOUS
  <2> HIDE DEF N, D, g, none
  <2>2. \E r : Goes(r, D, N, none, g)
    BY <1>1, <1>2, <2>1, Steps
  <2> QED  BY <2>2 DEF none, Goes
<1>4. Def(r)
  <2>1. \A n \in 1 .. N : r[n] = ReadLine(r[n - 1], f[n])
    <3>1. \A n \in 1 .. N : n - 1 \in 0 .. N
      BY <1>1
    <3> HIDE DEF N, D
    <3> QED  BY <1>3, <3>1
  <2> HIDE DEF N, D, g
  <2> QED  BY <1>1, <1>3, <2>1
<1>5. Def(read)
  <2> HIDE DEF Def
  <2> QED  BY <1>4
<1> HIDE DEF read
<1>6. N \in {n \in Nat : n <= N => read[n] \in D}
  <2> DEFINE S == {n \in Nat : n <= N => read[n] \in D}
  <2>1. 0 \in S
    BY <1>1, <1>5
  <2>2. ASSUME NEW n \in Nat, n \in S PROVE n + 1 \in S
    <3> SUFFICES ASSUME n + 1 <= N PROVE read[n + 1] \in D
      OBVIOUS
    <3>1. read[n] \in D /\ n + 1 \in 1 .. N
      BY <1>1, <2>2
    <3>2. read[n + 1] = ReadLine(read[n], f[n + 1])
      BY <1>1, <1>5, <3>1
    <3> QED  BY <1>1, <3>1, <3>2, LineRead
  <2> HIDE DEF S
  <2>3. N \in S
    BY <1>1, <2>1, <2>2, SetInduction
  <2> QED  BY <2>3 DEF S
<1>7. read[N] \in D
  BY <1>1, <1>6
<1>8. ReadConfiguration(f) = IF TooLarge(read[N]) THEN <<>> ELSE read[N]
  BY DEF ReadConfiguration, read
<1> DEFINE c == read[N]
<1>9. CASE TooLarge(c)
  BY <1>8, <1>9, SegmentsConstants
<1>10. CASE ~TooLarge(c)
  <2>1. c \in Seq(AgentConf) /\ ReadConfiguration(f) = c
    BY <1>7, <1>8, <1>10
  <2> HIDE DEF c
  <2>2. \A i \in DOMAIN c : Len(c[i].shared) \in Nat /\ Len(c[i].local) \in Nat
    BY <2>1 DEF AgentConf
  <2>3. MaxRecs \in Nat /\ MaxAgents \in Nat
    BY SegmentsConstants
  <2>4. Len(c) <= MaxAgents
    <3>1. Len(c) \in Nat /\ ~(Len(c) > MaxAgents)
      BY <1>10, <2>1 DEF TooLarge
    <3> QED  BY <2>3, <3>1
  <2>5. ASSUME NEW i \in DOMAIN c PROVE (Len(c[i].shared) + Len(c[i].local)) <= MaxRecs
    <3>1. ~((Len(c[i].shared) + Len(c[i].local)) > MaxRecs)
      BY <1>10, <2>5 DEF TooLarge
    <3> DEFINE s == Len(c[i].shared)
               l == Len(c[i].local)
    <3>2. s \in Nat /\ l \in Nat
      BY <2>2, <2>5
    <3> HIDE DEF s, l
    <3>3. ~(s + l > MaxRecs)
      BY <3>1 DEF s, l
    <3>4. s + l <= MaxRecs
      BY <2>3, <3>2, <3>3
    <3> QED  BY <3>4 DEF s, l
  <2> QED  BY <2>1, <2>4, <2>5
<1> QED  BY <1>9, <1>10

(***************************************************************************)
(* Layouts.                                                                *)
(***************************************************************************)
LEMMA RecTypes ==
  ASSUME NEW recs \in Seq(RecConf)
  PROVE  /\ Len(recs) \in Nat /\ DOMAIN recs = 1 .. Len(recs)
         /\ \A n \in 1 .. Len(recs) : recs[n].size \in Nat /\ recs[n].id \in Ids
<1>1. Len(recs) \in Nat /\ DOMAIN recs = 1 .. Len(recs)
  OBVIOUS
<1>2. \A n \in 1 .. Len(recs) : recs[n] \in RecConf
  OBVIOUS
<1> QED  BY <1>1, <1>2 DEF RecConf

LEMMA SumUnfolds ==
  ASSUME NEW recs \in Seq(RecConf)
  PROVE  /\ DataSize(recs, 0) = 0
         /\ \A n \in 1 .. Len(recs) :
              DataSize(recs, n) = DataSize(recs, n - 1) + recs[n].size
         /\ \A n \in 0 .. Len(recs) : DataSize(recs, n) \in Nat
<1> DEFINE N == Len(recs)
           g == [x \in Nat \X (1 .. N) |-> x[1] + recs[x[2]].size]
           Def(r) == r = [n \in 0 .. N |-> IF n = 0 THEN 0 ELSE r[n - 1] + recs[n].size]
           sum == CHOOSE r : Def(r)
<1>1. N \in Nat /\ \A n \in 1 .. N : recs[n].size \in Nat
  BY RecTypes
<1>2. \E r : Goes(r, Nat, N, 0, g)
  <2>1. g \in [Nat \X (1 .. N) -> Nat]
    BY <1>1
  <2>2. 0 \in Nat
    OBVIOUS
  <2> HIDE DEF N, g
  <2> QED  BY <1>1, <2>1, <2>2, Steps
<1>3. PICK r : r \in [0 .. N -> Nat] /\ r[0] = 0 /\ \A n \in 1 .. N : r[n] = g[<<r[n - 1], n>>]
  BY <1>2 DEF Goes
<1>4. Def(r)
  <2>1. \A n \in 1 .. N : n - 1 \in 0 .. N /\ r[n - 1] \in Nat
    BY <1>1, <1>3
  <2>2. \A n \in 1 .. N : r[n] = r[n - 1] + recs[n].size
    BY <1>3, <2>1
  <2> HIDE DEF N, g
  <2> QED  BY <1>1, <1>3, <2>2
<1>5. Def(sum)
  <2> HIDE DEF Def
  <2> QED  BY <1>4
<1>6. \A n : DataSize(recs, n) = sum[n]
  BY DEF DataSize
<1> HIDE DEF sum
<1>7. /\ sum[0] = 0
      /\ \A n \in 1 .. N : sum[n] = sum[n - 1] + recs[n].size
  BY <1>1, <1>5
<1> DEFINE S == {n \in Nat : n <= N => sum[n] \in Nat}
<1>8. 0 \in S
  BY <1>7
<1>9. ASSUME NEW n \in Nat, n \in S PROVE n + 1 \in S
  <2> SUFFICES ASSUME n + 1 <= N PROVE sum[n + 1] \in Nat
    OBVIOUS
  <2>1. n + 1 \in 1 .. N /\ (n + 1) - 1 = n /\ sum[n] \in Nat
    BY <1>1, <1>9
  <2>2. sum[n + 1] = sum[n] + recs[n + 1].size
    BY <1>7, <2>1
  <2> QED  BY <1>1, <2>1, <2>2
<1>10. Nat \subseteq S
  <2> HIDE DEF S
  <2> QED  BY <1>8, <1>9, SetInduction
<1>11. \A n \in 0 .. N : sum[n] \in Nat
  <2>1. \A n \in 0 .. N : n \in Nat /\ n <= N
    BY <1>1
  <2> HIDE DEF N
  <2> QED  BY <2>1, <1>10
<1>12. \A n \in 1 .. N : DataSize(recs, n) = DataSize(recs, n - 1) + recs[n].size
  <2> HIDE DEF N
  <2> QED  BY <1>6, <1>7
<1> QED  BY <1>6, <1>7, <1>11, <1>12

LEMMA SumGrows ==
  ASSUME NEW recs \in Seq(RecConf), NEW m \in 0 .. Len(recs), NEW n \in 0 .. Len(recs), m <= n
  PROVE  DataSize(recs, m) <= DataSize(recs, n)
<1> DEFINE S == {d \in Nat : m + d <= Len(recs) => DataSize(recs, m) <= DataSize(recs, m + d)}
<1>1. 0 \in S
  BY SumUnfolds
<1>2. ASSUME NEW d \in Nat, d \in S PROVE d + 1 \in S
  <2> SUFFICES ASSUME m + (d + 1) <= Len(recs)
               PROVE  DataSize(recs, m) <= DataSize(recs, m + (d + 1))
    OBVIOUS
  <2> DEFINE x == m + (d + 1)
  <2>1. /\ x \in 1 .. Len(recs) /\ x - 1 = m + d /\ m + d \in 0 .. Len(recs)
        /\ recs[x].size \in Nat
    <3>1. x \in 1 .. Len(recs) /\ x - 1 = m + d /\ m + d \in 0 .. Len(recs)
      BY RecTypes
    <3> QED  BY <3>1, RecTypes
  <2>2. DataSize(recs, x) = DataSize(recs, m + d) + recs[x].size
    BY <2>1, SumUnfolds
  <2>3. DataSize(recs, m) <= DataSize(recs, m + d)
    BY <1>2, <2>1
  <2>4. DataSize(recs, m) \in Nat /\ DataSize(recs, m + d) \in Nat
    BY <2>1, SumUnfolds
  <2> HIDE DEF x
  <2>5. DataSize(recs, m) <= DataSize(recs, x)
    BY <2>1, <2>2, <2>3, <2>4
  <2> QED  BY <2>5 DEF x
<1>3. n - m \in S
  <2> HIDE DEF S
  <2> QED  BY <1>1, <1>2, SetInduction
<1>4. m + (n - m) = n
  OBVIOUS
<1> QED  BY <1>3, <1>4

\* Where the banks of the n-th record begin.
Base(recs, n) == Header * Len(recs) + 2 * DataSize(recs, n - 1)

LEMMA BaseFacts ==
  ASSUME NEW recs \in Seq(RecConf)
  PROVE  /\ Base(recs, 1) = Header * Len(recs) /\ Header * Len(recs) \in Nat
         /\ Base(recs, Len(recs) + 1) = AreaSize(0, recs)
         /\ \A n \in 1 .. Len(recs) + 1 : Base(recs, n) \in Nat
         /\ \A n \in 1 .. Len(recs) : Base(recs, n + 1) = Base(recs, n) + 2 * recs[n].size
         /\ \A m, n \in 1 .. Len(recs) + 1 : m <= n => Base(recs, m) <= Base(recs, n)
<1> DEFINE L == Len(recs)
           z == Header * L
<1>1. L \in Nat /\ z \in Nat /\ Header \in Nat
  BY SegmentsConstants
<1>2. \A n \in 1 .. L + 1 : n - 1 \in 0 .. L /\ DataSize(recs, n - 1) \in Nat
  BY <1>1, SumUnfolds
<1>3. Base(recs, 1) = z /\ Base(recs, L + 1) = AreaSize(0, recs)
  <2>1. DataSize(recs, 1 - 1) = 0 /\ DataSize(recs, (L + 1) - 1) = DataSize(recs, L)
    BY <1>1, SumUnfolds
  <2>2. DataSize(recs, L) \in Nat
    BY <1>1, SumUnfolds
  <2> HIDE DEF L, z
  <2> QED  BY <1>1, <2>1, <2>2 DEF Base, AreaSize, L, z
<1>4. \A n \in 1 .. L + 1 : Base(recs, n) = z + 2 * DataSize(recs, n - 1)
  BY DEF Base
<1>5. ASSUME NEW n \in 1 .. L PROVE Base(recs, n + 1) = Base(recs, n) + 2 * recs[n].size
  <2>1. /\ n \in 1 .. L + 1 /\ n + 1 \in 1 .. L + 1 /\ (n + 1) - 1 = n
        /\ recs[n].size \in Nat
    BY <1>1, <1>5, RecTypes
  <2>2. DataSize(recs, n) = DataSize(recs, n - 1) + recs[n].size /\ DataSize(recs, n - 1) \in Nat
    BY <1>2, <2>1, SumUnfolds
  <2>3. Base(recs, n + 1) = z + 2 * DataSize(recs, (n + 1) - 1)
    BY <1>4, <2>1
  <2>4. Base(recs, n) = z + 2 * DataSize(recs, n - 1)
    BY <1>4, <2>1
  <2> HIDE DEF z
  <2>5. (n + 1) - 1 = n
    BY <2>1
  <2> QED  BY <1>1, <2>1, <2>2, <2>3, <2>4, <2>5
<1>6. ASSUME NEW m \in 1 .. L + 1, NEW n \in 1 .. L + 1, m <= n
      PROVE  Base(recs, m) <= Base(recs, n)
  <2>1. DataSize(recs, m - 1) <= DataSize(recs, n - 1)
    <3>1. m - 1 \in 0 .. L /\ n - 1 \in 0 .. L /\ m - 1 <= n - 1
      BY <1>1, <1>6
    <3> QED  BY <3>1, SumGrows
  <2> HIDE DEF z
  <2> QED  BY <1>1, <1>2, <1>4, <1>6, <2>1
<1>7. \A n \in 1 .. L + 1 : Base(recs, n) \in Nat
  <2> HIDE DEF z
  <2> QED  BY <1>1, <1>2, <1>4
<1> QED  BY <1>1, <1>3, <1>5, <1>6, <1>7

\* The layout of a list of records, whatever their banks to read are.
IsLayout(h, recs) ==
  /\ DOMAIN h = 1 .. Len(recs)
  /\ \A j \in DOMAIN h :
       /\ h[j] \in [id : Ids, size : Nat, offset : Nat, rb : {0, 1}]
       /\ h[j].id = recs[j].id /\ h[j].size = recs[j].size
       /\ (j - 1) * Header + h[j].offset = Base(recs, j)

LEMMA LayoutMade ==
  ASSUME NEW recs \in Seq(RecConf)
  PROVE  IsLayout(Layout(recs), recs)
<1> DEFINE L == Len(recs)
           at == [j \in 0 .. L |-> Base(recs, j + 1) - j * Header]
           Def(r) == r = [j \in 0 .. L |-> IF j = 0 THEN Header * Len(recs)
                                           ELSE NextOffset(r[j - 1], recs[j].size)]
           offset == CHOOSE r : Def(r)
<1>1. L \in Nat /\ Header \in Nat /\ \A j \in 1 .. L : recs[j] \in RecConf
  BY SegmentsConstants
<1>2. ASSUME NEW r, Def(r) PROVE \A j \in 0 .. L : r[j] = Base(recs, j + 1) - j * Header
  <2> DEFINE S == {j \in Nat : j <= L => r[j] = Base(recs, j + 1) - j * Header}
  <2>1. 0 \in S
    <3>1. r[0] = Header * Len(recs) /\ 0 * Header = 0
      BY <1>1, <1>2
    <3> QED  BY <3>1, BaseFacts
  <2>2. ASSUME NEW j \in Nat, j \in S PROVE j + 1 \in S
    <3> SUFFICES ASSUME j + 1 <= L
                 PROVE  r[j + 1] = Base(recs, (j + 1) + 1) - (j + 1) * Header
      OBVIOUS
    <3> DEFINE n == j + 1
    <3>1. n \in 1 .. L /\ n - 1 = j /\ recs[n].size \in Nat /\ n \in 0 .. L /\ n # 0
      BY <1>1, RecTypes
    <3>2. r[n] = NextOffset(r[j], recs[n].size)
      <4> HIDE DEF L, n
      <4> QED  BY <1>2, <3>1
    <3>3. r[j] = Base(recs, n) - j * Header
      BY <1>1, <2>2, <3>1
    <3>4. Base(recs, n + 1) = Base(recs, n) + 2 * recs[n].size /\ Base(recs, n) \in Nat
      <4> HIDE DEF n, L
      <4>1. n \in 1 .. Len(recs) /\ n \in 1 .. Len(recs) + 1
        BY <1>1, <3>1 DEF L
      <4> QED  BY <4>1, BaseFacts
    <3>5. n * Header = j * Header + Header /\ j * Header \in Int
      BY <1>1
    <3> HIDE DEF n
    <3>6. r[n] = Base(recs, n + 1) - n * Header
      BY <1>1, <3>1, <3>2, <3>3, <3>4, <3>5 DEF NextOffset
    <3> QED  BY <3>6 DEF n
  <2>3. Nat \subseteq S
    <3> HIDE DEF S
    <3> QED  BY <2>1, <2>2, SetInduction
  <2> QED  BY <1>1, <2>3
<1>3. Def(at)
  <2>1. at[0] = Header * Len(recs)
    <3>1. 0 * Header = 0 /\ Base(recs, 0 + 1) = Header * Len(recs)
          /\ Header * Len(recs) \in Nat
      BY <1>1, BaseFacts
    <3> QED  BY <1>1, <3>1
  <2>2. ASSUME NEW j \in 1 .. L PROVE at[j] = NextOffset(at[j - 1], recs[j].size)
    <3>1. /\ j - 1 \in 0 .. L /\ j \in 0 .. L /\ (j - 1) + 1 = j /\ recs[j].size \in Nat
          /\ j * Header \in Int /\ (j - 1) * Header = j * Header - Header
      BY <1>1, <2>2, RecTypes
    <3>2. at[j] = Base(recs, j + 1) - j * Header /\ at[j - 1] = Base(recs, j) - (j - 1) * Header
      BY <3>1
    <3>3. Base(recs, j + 1) = Base(recs, j) + 2 * recs[j].size /\ Base(recs, j) \in Nat
      BY <1>1, <2>2, BaseFacts
    <3> DEFINE x == at[j]
               y == at[j - 1]
    <3> HIDE DEF at, L, x, y
    <3>4. x = Base(recs, j) + 2 * recs[j].size - j * Header
          /\ y = Base(recs, j) - (j * Header - Header)
      BY <3>1, <3>2, <3>3 DEF x, y
    <3>5. x = y + 2 * recs[j].size - Header
      BY SMTT(30), <1>1, <3>1, <3>3, <3>4
    <3> QED  BY <3>5 DEF NextOffset, x, y
  <2>3. at = [j \in 0 .. L |-> at[j]]
    OBVIOUS
  <2> HIDE DEF at, L
  <2>4. \A j \in 0 .. L : j # 0 => j \in 1 .. L
    BY <1>1
  <2> QED  BY <1>1, <2>1, <2>2, <2>3, <2>4
<1>4. Def(offset)
  <2> HIDE DEF Def, at
  <2> QED  BY <1>3
<1>5. \A j \in 0 .. L : offset[j] = Base(recs, j + 1) - j * Header
  BY <1>2, <1>4
<1>6. Layout(recs) = [j \in DOMAIN recs |-> [id |-> recs[j].id, size |-> recs[j].size,
                                             offset |-> offset[j - 1], rb |-> 0]]
  BY DEF Layout
<1> HIDE DEF offset, Def, at
<1>7. ASSUME NEW j \in 1 .. L
      PROVE  offset[j - 1] \in Nat /\ (j - 1) * Header + offset[j - 1] = Base(recs, j)
  <2>1. j - 1 \in 0 .. L /\ (j - 1) + 1 = j /\ (j - 1) * Header \in Int
    BY <1>1, <1>7
  <2>2. offset[j - 1] = Base(recs, j) - (j - 1) * Header
    BY <1>5, <2>1
  <2>3. Base(recs, j) \in Nat /\ Header * L <= Base(recs, j) /\ Header * L \in Nat
    <3>1. 1 \in 1 .. Len(recs) + 1 /\ j \in 1 .. Len(recs) + 1 /\ 1 <= j
      BY <1>1, <1>7
    <3>2. Base(recs, 1) <= Base(recs, j) /\ Base(recs, j) \in Nat
      BY <3>1, BaseFacts
    <3> QED  BY <3>2, BaseFacts
  <2>4. (j - 1) * Header <= Header * L
    <3>1. Header * (j - 1) <= Header * L
      BY <1>1, <1>7
    <3> QED  BY <1>1, <1>7, <3>1
  <2> HIDE DEF L
  <2> QED  BY <2>1, <2>2, <2>3, <2>4
<1>8. DOMAIN Layout(recs) = 1 .. L
  BY <1>6
<1>9. ASSUME NEW j \in 1 .. L
      PROVE  LET r == Layout(recs)[j]
             IN  /\ r \in [id : Ids, size : Nat, offset : Nat, rb : {0, 1}]
                 /\ r.id = recs[j].id /\ r.size = recs[j].size
                 /\ (j - 1) * Header + r.offset = Base(recs, j)
  <2>1. Layout(recs)[j] = [id |-> recs[j].id, size |-> recs[j].size,
                           offset |-> offset[j - 1], rb |-> 0]
    BY <1>6
  <2>2. recs[j].id \in Ids /\ recs[j].size \in Nat
    BY RecTypes
  <2> QED  BY <1>7, <2>1, <2>2
<1> QED  BY <1>8, <1>9 DEF IsLayout

LEMMA BanksAre ==
  ASSUME NEW recs \in Seq(RecConf), NEW h, IsLayout(h, recs), NEW j \in DOMAIN h
  PROVE  /\ j \in 1 .. Len(recs) /\ h[j].size \in Nat
         /\ BankAt(h[j], j, 0) = Base(recs, j)
         /\ BankAt(h[j], j, 1) = Base(recs, j) + h[j].size
         /\ Base(recs, j + 1) = Base(recs, j) + 2 * h[j].size
         /\ Base(recs, j) \in Nat /\ Base(recs, j + 1) \in Nat
         /\ BanksOf(h[j], j) = Base(recs, j) .. Base(recs, j + 1) - 1
<1>1. /\ j \in 1 .. Len(recs) /\ h[j].size = recs[j].size
      /\ h[j].offset \in Nat /\ (j - 1) * Header + h[j].offset = Base(recs, j)
  BY DEF IsLayout
<1>2. recs[j].size \in Nat /\ Len(recs) \in Nat
  BY <1>1, RecTypes
<1>3. /\ Base(recs, j + 1) = Base(recs, j) + 2 * recs[j].size
      /\ Base(recs, j) \in Nat /\ Base(recs, j + 1) \in Nat
  <2>1. j \in 1 .. Len(recs) + 1 /\ j + 1 \in 1 .. Len(recs) + 1
    BY <1>1, <1>2
  <2> QED  BY <1>1, <2>1, BaseFacts
<1>4. BankAt(h[j], j, 0) = Base(recs, j)
  BY <1>1, <1>2, <1>3 DEF BankAt
<1>5. BankAt(h[j], j, 1) = Base(recs, j) + h[j].size
  BY <1>1, <1>2, <1>3 DEF BankAt
<1>6. BankAt(h[j], j, 1) + h[j].size - 1 = Base(recs, j + 1) - 1
  BY <1>1, <1>2, <1>3, <1>5
<1> QED  BY <1>1, <1>2, <1>3, <1>4, <1>5, <1>6 DEF BanksOf

\* In a segment that is large enough no two records share a byte.
LEMMA LayoutApart ==
  ASSUME NEW recs \in Seq(RecConf), NEW h, IsLayout(h, recs),
         NEW size \in Nat, AreaSize(0, recs) <= size, NEW j \in DOMAIN h
  PROVE  /\ BanksOf(h[j], j) \subseteq 0 .. size - 1
         /\ \A i \in DOMAIN h : HeaderOf(i) \cap BanksOf(h[j], j) = {}
         /\ \A i \in DOMAIN h \ {j} : BanksOf(h[i], i) \cap BanksOf(h[j], j) = {}
<1> DEFINE L == Len(recs)
           B(n) == Base(recs, n)
<1>1. L \in Nat /\ DOMAIN h = 1 .. L /\ Header \in Nat
  BY RecTypes, SegmentsConstants DEF IsLayout
<1>2. \A i \in 1 .. L : BanksOf(h[i], i) = B(i) .. B(i + 1) - 1
  BY <1>1, BanksAre
<1>3. /\ \A n \in 1 .. L + 1 : B(n) \in Nat
      /\ \A m, n \in 1 .. L + 1 : m <= n => B(m) <= B(n)
      /\ B(1) = Header * L /\ B(L + 1) <= size
  BY BaseFacts
<1> HIDE DEF B
<1>4. BanksOf(h[j], j) \subseteq 0 .. size - 1
  <2>1. j \in 1 .. L + 1 /\ j + 1 \in 1 .. L + 1 /\ L + 1 \in 1 .. L + 1 /\ j + 1 <= L + 1
    BY <1>1
  <2>2. B(j) \in Nat /\ B(j + 1) \in Nat /\ B(L + 1) \in Nat /\ B(j + 1) <= B(L + 1)
    BY <1>3, <2>1
  <2> QED  BY <1>1, <1>2, <1>3, <2>2
<1>5. ASSUME NEW i \in DOMAIN h PROVE HeaderOf(i) \cap BanksOf(h[j], j) = {}
  <2>1. j \in 1 .. L + 1 /\ 1 \in 1 .. L + 1 /\ 1 <= j /\ i \in 1 .. L
    BY <1>1, <1>5
  <2>2. B(1) <= B(j) /\ B(1) \in Nat /\ B(j) \in Nat
    BY <1>3, <2>1
  <2>3. i * Header <= Header * L /\ i * Header \in Int
    <3>1. Header * i <= Header * L
      BY <1>1, <2>1
    <3> QED  BY <1>1, <2>1, <3>1
  <2>4. HeaderOf(i) \subseteq Int /\ \A x \in HeaderOf(i) : x <= i * Header - 1
    <3>1. (i - 1) * Header \in Int
      BY <1>1, <2>1
    <3> QED  BY <2>3, <3>1 DEF HeaderOf
  <2>5. \A x \in BanksOf(h[j], j) : x \in Int /\ x >= B(j)
    <3>1. j \in 1 .. L /\ B(j + 1) \in Nat
      BY <1>1, <1>3
    <3> QED  BY <1>2, <2>2, <3>1
  <2>6. B(1) \in Int /\ B(j) \in Int /\ i * Header <= B(1)
    BY <1>3, <2>2, <2>3
  <2> QED  BY <2>2, <2>3, <2>4, <2>5, <2>6
<1>6. ASSUME NEW m \in 1 .. L, NEW n \in 1 .. L, m < n
      PROVE  BanksOf(h[m], m) \cap BanksOf(h[n], n) = {}
  <2>1. m + 1 \in 1 .. L + 1 /\ n \in 1 .. L + 1 /\ n + 1 \in 1 .. L + 1 /\ m \in 1 .. L + 1
        /\ m + 1 <= n
    BY <1>1, <1>6
  <2>2. /\ B(m + 1) <= B(n) /\ B(m + 1) \in Nat /\ B(n) \in Nat /\ B(m) \in Nat
        /\ B(n + 1) \in Nat
    BY <1>3, <2>1
  <2> QED  BY <1>2, <2>2
<1>7. ASSUME NEW i \in DOMAIN h \ {j}
      PROVE  BanksOf(h[i], i) \cap BanksOf(h[j], j) = {}
  <2>1. i \in 1 .. L /\ j \in 1 .. L /\ (i < j \/ j < i)
    BY <1>1, <1>7
  <2> QED  BY <1>6, <2>1
<1> QED  BY <1>4, <1>5, <1>7

(***************************************************************************)
(* Who is attached to what: a process holds the segments it has got, each  *)
(* once, and the definitions as the first; while it attaches them it has   *)
(* got the first ones in order.                                            *)
(***************************************************************************)
LEMMA TakenOut ==
  ASSUME NEW S, NEW s \in Seq(S), NEW i \in DOMAIN s,
         \A m, n \in DOMAIN s : s[m] = s[n] => m = n
  PROVE  LET t == RemoveAt(s, i)
         IN  /\ t \in Seq(S) /\ Len(t) = Len(s) - 1
             /\ \A n \in DOMAIN t : t[n] = IF n < i THEN s[n] ELSE s[n + 1]
             /\ \A m, n \in DOMAIN t : t[m] = t[n] => m = n
             /\ Range(t) = Range(s) \ {s[i]}
<1> DEFINE N == Len(s)
           p == SubSeq(s, 1, i - 1)
           q == SubSeq(s, i + 1, Len(s))
           t == RemoveAt(s, i)
<1>1. N \in Nat /\ i \in 1 .. N /\ DOMAIN s = 1 .. N
  OBVIOUS
<1>2. p \in Seq(S) /\ Len(p) = i - 1 /\ \A n \in 1 .. i - 1 : p[n] = s[n]
  BY <1>1
<1>3. q \in Seq(S) /\ Len(q) = N - i /\ \A n \in 1 .. N - i : q[n] = s[i + n]
  <2>1. i + 1 \in Int /\ Len(s) - (i + 1) + 1 = N - i
    BY <1>1
  <2> QED  BY <1>1, <2>1, SubSeqProperties
<1>4. t = p \o q
  BY DEF RemoveAt
<1> HIDE DEF p, q, t
<1>5. /\ t \in Seq(S) /\ Len(t) = N - 1 /\ DOMAIN t = 1 .. N - 1
      /\ \A n \in 1 .. N - 1 : t[n] = IF n <= i - 1 THEN p[n] ELSE q[n - (i - 1)]
  <2>1. p \o q \in Seq(S) /\ Len(p \o q) = Len(p) + Len(q)
        /\ \A n \in 1 .. Len(p) + Len(q) :
              (p \o q)[n] = IF n <= Len(p) THEN p[n] ELSE q[n - Len(p)]
    <3>1. p \in Seq(S) /\ q \in Seq(S)
      BY <1>2, <1>3
    <3> QED  BY ONLY <3>1, ConcatProperties
  <2>2. Len(p) + Len(q) = N - 1
    BY <1>1, <1>2, <1>3
  <2>3. DOMAIN t = 1 .. Len(t)
    BY <1>4, <2>1
  <2> HIDE DEF N
  <2> QED  BY <1>2, <1>4, <2>1, <2>2, <2>3
<1>6. \A n \in 1 .. N - 1 : t[n] = IF n < i THEN s[n] ELSE s[n + 1]
  <2> SUFFICES ASSUME NEW n \in 1 .. N - 1
               PROVE  t[n] = IF n < i THEN s[n] ELSE s[n + 1]
    OBVIOUS
  <2>1. CASE n < i
    BY <1>1, <1>2, <1>5, <2>1
  <2>2. CASE ~(n < i)
    <3>1. n - (i - 1) \in 1 .. N - i /\ i + (n - (i - 1)) = n + 1 /\ ~(n <= i - 1)
      BY <1>1, <2>2
    <3>2. t[n] = q[n - (i - 1)]
      BY <1>5, <3>1
    <3>3. q[n - (i - 1)] = s[i + (n - (i - 1))]
      BY <1>3, <3>1
    <3> QED  BY <2>2, <3>1, <3>2, <3>3
  <2> QED  BY <2>1, <2>2
<1> DEFINE src == [n \in 1 .. N - 1 |-> IF n < i THEN n ELSE n + 1]
<1>7. /\ \A n \in 1 .. N - 1 : src[n] \in 1 .. N /\ src[n] # i /\ t[n] = s[src[n]]
      /\ \A m, n \in 1 .. N - 1 : src[m] = src[n] => m = n
      /\ \A n \in 1 .. N : n # i => \E m \in 1 .. N - 1 : src[m] = n
  <2>1. \A n \in 1 .. N - 1 : src[n] \in 1 .. N /\ src[n] # i
    BY <1>1
  <2>2. \A n \in 1 .. N - 1 : t[n] = s[src[n]]
    BY <1>1, <1>6
  <2>3. \A m, n \in 1 .. N - 1 : src[m] = src[n] => m = n
    BY <1>1
  <2>4. ASSUME NEW n \in 1 .. N, n # i PROVE \E m \in 1 .. N - 1 : src[m] = n
    <3>1. CASE n < i
      <4>1. n \in 1 .. N - 1 /\ src[n] = n
        BY <1>1, <3>1
      <4> QED  BY <4>1
    <3>2. CASE n > i
      <4>1. n - 1 \in 1 .. N - 1 /\ ~(n - 1 < i) /\ (n - 1) + 1 = n
        BY <1>1, <3>2
      <4>2. src[n - 1] = n
        BY <4>1
      <4> QED  BY <4>1, <4>2
    <3> QED  BY <1>1, <2>4, <3>1, <3>2
  <2> QED  BY <2>1, <2>2, <2>3, <2>4
<1> HIDE DEF src
<1>8. ASSUME NEW m \in DOMAIN t, NEW n \in DOMAIN t, t[m] = t[n] PROVE m = n
  <2>1. m \in 1 .. N - 1 /\ n \in 1 .. N - 1
    BY <1>5, <1>8
  <2>2. s[src[m]] = s[src[n]] /\ src[m] \in DOMAIN s /\ src[n] \in DOMAIN s
    BY <1>1, <1>7, <1>8, <2>1
  <2>3. src[m] = src[n]
    BY <2>2
  <2> QED  BY <1>7, <2>1, <2>3
<1>9. Range(t) = Range(s) \ {s[i]}
  <2>1. ASSUME NEW x \in Range(t) PROVE x \in Range(s) /\ x # s[i]
    <3>1. PICK n \in 1 .. N - 1 : x = t[n]
      BY <1>5, <2>1 DEF Range
    <3>2. src[n] \in DOMAIN s /\ src[n] # i /\ x = s[src[n]] /\ i \in DOMAIN s
      BY <1>1, <1>7, <3>1
    <3>3. x # s[i]
      BY <3>2
    <3> QED  BY <3>2, <3>3 DEF Range
  <2>2. ASSUME NEW x \in Range(s), x # s[i] PROVE x \in Range(t)
    <3>1. PICK n \in 1 .. N : x = s[n] /\ n # i
      BY <1>1, <2>2 DEF Range
    <3>2. PICK m \in 1 .. N - 1 : src[m] = n
      BY <1>7, <3>1
    <3> QED  BY <1>5, <1>7, <3>1, <3>2 DEF Range
  <2> QED  BY <2>1, <2>2
<1> QED  BY <1>5, <1>6, <1>8, <1>9 DEF t

LEMMA Greatest ==
  ASSUME NEW N \in Nat, NEW T \in SUBSET (1 .. N), T # {}
  PROVE  Max(T) \in T /\ \A y \in T : y <= Max(T)
<1> DEFINE S == {n \in Nat : N - n \in T}
<1>1. \A x \in T : N - x \in S
  OBVIOUS
<1>2. PICK m \in S : \A y \in S : m <= y
  <2>1. S # {}
    BY <1>1
  <2> QED  BY <2>1, SmallestNat
<1>3. PICK x \in T : m = N - x
  <2>1. N - m \in T /\ m = N - (N - m)
    BY <1>2
  <2> QED  BY <2>1
<1>4. \A y \in T : x >= y
  <2> SUFFICES ASSUME NEW y \in T PROVE x >= y
    OBVIOUS
  <2>1. N - y \in S
    BY <1>1
  <2>2. N - x <= N - y
    BY <1>2, <1>3, <2>1
  <2> QED  BY <2>2
<1>5. Max(T) \in T /\ \A y \in T : Max(T) >= y
  BY <1>4 DEF Max
<1> QED  BY <1>5

(***************************************************************************)
(* The tables of definitions.                                              *)
(***************************************************************************)
Tables == [n : 0 .. MaxAgents, recs : [Agents -> Nat], shared : [Agents -> Nat],
           local : Nat, lut : [Agents -> [Ids -> Int]]]

LEMMA PlacesAre ==
  ASSUME NEW recs \in Seq(RecConf), NEW i, PlaceOf(recs, i) # {}
  PROVE  /\ Max(PlaceOf(recs, i)) \in 1 .. Len(recs)
         /\ recs[Max(PlaceOf(recs, i))].id = i
<1>1. Len(recs) \in Nat /\ PlaceOf(recs, i) \in SUBSET (1 .. Len(recs))
  BY DEF PlaceOf
<1>2. Max(PlaceOf(recs, i)) \in PlaceOf(recs, i)
  BY <1>1, Greatest
<1> QED  BY <1>1, <1>2 DEF PlaceOf

LEMMA LookupTyped ==
  ASSUME NEW c \in Seq(AgentConf)
  PROVE  Lookup(c) \in [Agents -> [Ids -> Int]]
<1>1. \A a \in Agents : a < Len(c) => c[a + 1].shared \in Seq(RecConf)
                                      /\ c[a + 1].local \in Seq(RecConf)
  <2> SUFFICES ASSUME NEW a \in Agents, a < Len(c)
               PROVE  c[a + 1].shared \in Seq(RecConf) /\ c[a + 1].local \in Seq(RecConf)
    OBVIOUS
  <2>1. a + 1 \in 1 .. Len(c)
    BY SegmentsConstants DEF Agents
  <2>2. c[a + 1] \in AgentConf
    BY <2>1
  <2> QED  BY <2>2 DEF AgentConf
<1>2. ASSUME NEW a \in Agents, NEW i \in Ids PROVE Lookup(c)[a][i] \in Int
  <2> DEFINE l == Max(PlaceOf(c[a + 1].local, i))
             s == Max(PlaceOf(c[a + 1].shared, i))
  <2>1. a < Len(c) /\ PlaceOf(c[a + 1].local, i) # {} => l \in Int
    BY <1>1, PlacesAre
  <2>2. a < Len(c) /\ PlaceOf(c[a + 1].shared, i) # {} => s \in Int
    BY <1>1, PlacesAre
  <2>3. MaxRecs \in Int /\ a \in Int /\ Len(c) \in Int
    BY SegmentsConstants DEF Agents
  <2>4. Lookup(c)[a][i] =
          IF a >= Len(c) THEN NoRec
          ELSE IF a = Self /\ PlaceOf(c[a + 1].local, i) # {} THEN MaxRecs + l - 1
          ELSE IF PlaceOf(c[a + 1].shared, i) # {} THEN s - 1 ELSE NoRec
    BY DEF Lookup
  <2> HIDE DEF l, s
  <2>5. ~(a >= Len(c)) => a < Len(c)
    BY <2>3
  <2> QED  BY <2>1, <2>2, <2>3, <2>4, <2>5 DEF NoRec
<1>3. Lookup(c) = [a \in Agents |-> [i \in Ids |-> Lookup(c)[a][i]]]
  BY DEF Lookup
<1> QED  BY <1>2, <1>3

LEMMA AreaTyped ==
  ASSUME NEW recs \in Seq(RecConf), NEW old \in Nat
  PROVE  AreaSize(old, recs) \in Nat /\ AreaSize(0, recs) <= AreaSize(old, recs)
<1>1. DataSize(recs, Len(recs)) \in Nat /\ Header * Len(recs) \in Nat
  BY SumUnfolds, RecTypes, SegmentsConstants
<1> QED  BY <1>1 DEF AreaSize

LEMMA LoadedTyped ==
  ASSUME NEW c \in Seq(AgentConf), Len(c) <= MaxAgents, NEW d \in Tables
  PROVE  /\ Loaded(d, c) \in Tables /\ Loaded(d, c).n = Len(c)
         /\ Loaded(d, c).lut = d.lut
         /\ \A a \in Agents : a < Len(c) =>
              /\ Loaded(d, c).recs[a] = Len(c[a + 1].shared)
              /\ Loaded(d, c).shared[a] = AreaSize(d.shared[a], c[a + 1].shared)
         /\ Self < Len(c) => Loaded(d, c).local = AreaSize(d.local, c[Self + 1].local)
<1> DEFINE recs == [a \in Agents |-> IF a < Len(c) THEN Len(c[a + 1].shared) ELSE d.recs[a]]
           shared == [a \in Agents |->
             IF a < Len(c) THEN AreaSize(d.shared[a], c[a + 1].shared) ELSE d.shared[a]]
           local == IF Self < Len(c) THEN AreaSize(d.local, c[Self + 1].local) ELSE d.local
<1>1. Loaded(d, c) = [d EXCEPT !.n = Len(c), !.recs = recs, !.shared = shared, !.local = local]
  BY DEF Loaded
<1>2. \A a \in Nat : a < Len(c) => c[a + 1].shared \in Seq(RecConf)
                                   /\ c[a + 1].local \in Seq(RecConf)
  <2> SUFFICES ASSUME NEW a \in Nat, a < Len(c)
               PROVE  c[a + 1].shared \in Seq(RecConf) /\ c[a + 1].local \in Seq(RecConf)
    OBVIOUS
  <2>1. a + 1 \in 1 .. Len(c)
    OBVIOUS
  <2>2. c[a + 1] \in AgentConf
    BY <2>1
  <2> QED  BY <2>2 DEF AgentConf
<1>3. /\ d.recs \in [Agents -> Nat] /\ d.shared \in [Agents -> Nat] /\ d.local \in Nat
      /\ Agents \subseteq Nat /\ Self \in Nat
  BY SegmentsConstants DEF Tables, Agents
<1>4. recs \in [Agents -> Nat]
  <2>1. \A a \in Agents : a < Len(c) => Len(c[a + 1].shared) \in Nat
    BY <1>2, <1>3
  <2> QED  BY <1>3, <2>1
<1>5. shared \in [Agents -> Nat]
  <2>1. \A a \in Agents : a < Len(c) => AreaSize(d.shared[a], c[a + 1].shared) \in Nat
    BY <1>2, <1>3, AreaTyped
  <2> QED  BY <1>3, <2>1
<1>6. local \in Nat
  BY <1>2, <1>3, AreaTyped
<1>7. Len(c) \in 0 .. MaxAgents
  BY SegmentsConstants
<1>8. Loaded(d, c) \in Tables /\ Loaded(d, c).n = Len(c) /\ Loaded(d, c).lut = d.lut
      /\ Loaded(d, c).recs = recs /\ Loaded(d, c).shared = shared /\ Loaded(d, c).local = local
  <2> HIDE DEF recs, shared, local
  <2> QED  BY <1>1, <1>4, <1>5, <1>6, <1>7 DEF Tables
<1> QED  BY <1>8

(***************************************************************************)
(* The shape of the segments and of the processes' view of them, which     *)
(* needs no assumption on who starts and stops when.                       *)
(***************************************************************************)
Typed ==
  /\ file \in Files
  /\ seg \in [SegKeys -> [size : Nat, att : SUBSET Procs]]
  /\ def \in Tables
  /\ pc \in [Procs -> States]
  /\ got \in [Procs -> Seq(SegKeys)]
  /\ conf \in [Procs -> {Uninitialised, ReadConfiguration(file)}]
  /\ crashes \in 0 .. MaxCrashes /\ failures \in 0 .. 2 /\ reused \in BOOLEAN

\* A segment somebody is attached to exists; without a crash no other does.
SegmentShape(k) ==
  /\ IsFiniteSet(seg[k].att)
  /\ seg[k].att # {} => seg[k].size > 0
  /\ (crashes = 0 /\ seg[k].att = {}) => seg[k] = NoSegment

\* A process is attached to the segments it has got, each once, to the
\* definitions first, and to all the others as soon as it is ready.
GotShape(p) ==
  /\ \A k \in SegKeys : p \in seg[k].att <=> k \in Range(got[p])
  /\ \A m, n \in DOMAIN got[p] : got[p][m] = got[p][n] => m = n
  /\ pc[p] = "off" <=> got[p] = <<>>
  /\ got[p] # <<>> => got[p][1] = DefKey
  /\ pc[p] \in {"load", "attach", "check", "ready"} =>
       \A n \in DOMAIN got[p] : got[p][n] = n - 1
  /\ pc[p] = "load" => Len(got[p]) = 1
  /\ pc[p] = "attach" => Len(got[p]) \in 1 .. LocalKey
  /\ pc[p] \in {"check", "ready"} => Len(got[p]) = LocalKey + 1

Shape ==
  /\ Typed
  /\ \A k \in SegKeys : SegmentShape(k)
  /\ \A p \in Procs : GotShape(p)

LEMMA KeyFacts ==
  /\ DefKey \in SegKeys /\ SegKeys \subseteq Nat /\ MaxAgents \in Nat \ {0}
  /\ \A k : k \in SegKeys <=> k \in 0 .. MaxAgents + 1
BY SegmentsConstants DEF SegKeys, DefKey

LEMMA LocalKeyFacts ==
  ASSUME Typed
  PROVE  /\ LocalKey \in SegKeys /\ LocalKey = def.n + 1 /\ LocalKey # DefKey
         /\ def.n \in Nat /\ def.n <= MaxAgents
<1>1. def.n \in 0 .. MaxAgents
  BY DEF Typed, Tables
<1> QED  BY <1>1, KeyFacts DEF LocalKey, DefKey

\* Who sees one attachment only is alone.
LEMMA FirstIsAlone ==
  ASSUME Shape, NEW k \in SegKeys
  PROVE  IsFirst(k) <=> \E p \in Procs : seg[k].att = {p}
<1>1. IsFiniteSet(seg[k].att) /\ seg[k].att \subseteq Procs
  BY DEF Shape, SegmentShape, Typed
<1>2. Cardinality(seg[k].att) = 1 <=> \E x : seg[k].att = {x}
  BY <1>1, FS_Singleton
<1> QED  BY <1>1, <1>2 DEF IsFirst

\* Who is alone with the definitions is the only one there is.
LEMMA AloneIsOnly ==
  ASSUME Shape, NEW p \in Procs, seg[DefKey].att \subseteq {p}, NEW q \in Procs, q # p
  PROVE  pc[q] = "off" /\ got[q] = <<>>
<1>1. GotShape(q) /\ q \notin seg[DefKey].att /\ got[q] \in Seq(SegKeys)
  BY DEF Shape, Typed
<1>2. DefKey \notin Range(got[q])
  BY <1>1, KeyFacts DEF GotShape
<1>3. got[q] = <<>>
  <2> SUFFICES ASSUME got[q] # <<>> PROVE FALSE
    OBVIOUS
  <2>1. 1 \in DOMAIN got[q] /\ got[q][1] = DefKey
    BY <1>1 DEF GotShape
  <2> QED  BY <1>2, <2>1 DEF Range
<1> QED  BY <1>1, <1>3 DEF GotShape

\* What a process holds and where it is stays as it was.
Stays(p) ==
  /\ got'[p] = got[p] /\ pc'[p] = pc[p]
  /\ \A k \in SegKeys : p \in seg'[k].att <=> p \in seg[k].att
  /\ got[p] = <<>> \/ def'.n = def.n

LEMMA ShapeStays ==
  ASSUME Typed, NEW p \in Procs, GotShape(p), Stays(p)
  PROVE  GotShape(p)'
<1>1. CASE got[p] = <<>>
  <2>1. Range(<<>>) = {} /\ DOMAIN <<>> = {} /\ pc[p] = "off"
    BY <1>1 DEF Range, GotShape
  <2> QED  BY <1>1, <2>1 DEF GotShape, Stays
<1>2. CASE def'.n = def.n
  BY <1>2 DEF GotShape, Stays, LocalKey
<1> QED  BY <1>1, <1>2 DEF Stays

LEMMA AppendedRange ==
  ASSUME NEW S, NEW s \in Seq(S), NEW x \in S
  PROVE  /\ Append(s, x) \in Seq(S) /\ Len(Append(s, x)) = Len(s) + 1
         /\ DOMAIN Append(s, x) = 1 .. Len(s) + 1
         /\ \A n \in 1 .. Len(s) : Append(s, x)[n] = s[n]
         /\ Append(s, x)[Len(s) + 1] = x
         /\ Range(Append(s, x)) = Range(s) \union {x}
<1>1. /\ Append(s, x) \in Seq(S) /\ Len(Append(s, x)) = Len(s) + 1 /\ Len(s) \in Nat
      /\ \A n \in 1 .. Len(s) : Append(s, x)[n] = s[n]
      /\ Append(s, x)[Len(s) + 1] = x
  OBVIOUS
<1>2. DOMAIN Append(s, x) = 1 .. Len(s) + 1 /\ DOMAIN s = 1 .. Len(s)
  BY <1>1
<1> DEFINE t == Append(s, x)
<1> HIDE DEF t
<1>3. \A n \in 1 .. Len(s) + 1 : n \in 1 .. Len(s) \/ n = Len(s) + 1
  BY <1>1
<1>4. Len(s) + 1 \in 1 .. Len(s) + 1 /\ 1 .. Len(s) \subseteq 1 .. Len(s) + 1
  BY <1>1
<1>5. Range(t) = Range(s) \union {x}
  BY <1>1, <1>2, <1>3, <1>4 DEF Range, t
<1> QED  BY <1>1, <1>2, <1>5 DEF t

LEMMA AttachedShape ==
  ASSUME Shape, NEW p \in Procs, NEW k \in SegKeys, NEW size \in Nat,
         seg[k].size = 0 => size > 0, AttachTo(p, k, size), crashes' = crashes
  PROVE  /\ seg' \in [SegKeys -> [size : Nat, att : SUBSET Procs]]
         /\ got' \in [Procs -> Seq(SegKeys)]
         /\ \A j \in SegKeys : SegmentShape(j)'
         /\ \A q \in Procs \ {p} : \A j \in SegKeys : q \in seg'[j].att <=> q \in seg[j].att
         /\ \A q \in Procs \ {p} : got'[q] = got[q]
         /\ got'[p] = Append(got[p], k)
         /\ \A j \in SegKeys : p \in seg'[j].att <=> j \in Range(got'[p])
<1>1. /\ seg \in [SegKeys -> [size : Nat, att : SUBSET Procs]]
      /\ got \in [Procs -> Seq(SegKeys)] /\ GotShape(p)
      /\ \A j \in SegKeys : SegmentShape(j)
  BY DEF Shape, Typed
<1> DEFINE new == [size |-> IF seg[k].size = 0 THEN size ELSE seg[k].size,
                   att |-> seg[k].att \union {p}]
<1>2. seg' = [seg EXCEPT ![k] = new] /\ got' = [got EXCEPT ![p] = Append(got[p], k)]
  BY DEF AttachTo
<1>3. seg[k] \in [size : Nat, att : SUBSET Procs] /\ got[p] \in Seq(SegKeys)
  BY <1>1
<1>4. new \in [size : Nat, att : SUBSET Procs] /\ new.size > 0 /\ p \in new.att
  BY <1>3
<1>5. IsFiniteSet(new.att)
  BY <1>1, FS_AddElement DEF SegmentShape
<1>6. /\ new.att = seg[k].att \union {p}
  OBVIOUS
<1> HIDE DEF new
<1>7. /\ seg' \in [SegKeys -> [size : Nat, att : SUBSET Procs]]
      /\ seg'[k] = new /\ \A j \in SegKeys \ {k} : seg'[j] = seg[j]
  BY <1>1, <1>2, <1>4
<1>8. /\ got'[p] = Append(got[p], k) /\ \A q \in Procs \ {p} : got'[q] = got[q]
      /\ got' \in [Procs -> Seq(SegKeys)]
  BY <1>1, <1>2, <1>3
<1>9. ASSUME NEW j \in SegKeys PROVE SegmentShape(j)'
  <2>1. CASE j = k
    BY <1>4, <1>5, <1>7, <2>1 DEF SegmentShape
  <2>2. CASE j # k
    BY <1>1, <1>7, <2>2 DEF SegmentShape
  <2> QED  BY <2>1, <2>2
<1>10. Range(got'[p]) = Range(got[p]) \union {k}
  BY <1>3, <1>8, AppendedRange
<1>11. \A j \in SegKeys : p \in seg'[j].att <=> j \in Range(got'[p])
  BY <1>1, <1>4, <1>7, <1>10 DEF GotShape
<1>12. \A q \in Procs \ {p} : \A j \in SegKeys : q \in seg'[j].att <=> q \in seg[j].att
  BY <1>6, <1>7
<1> QED  BY <1>7, <1>8, <1>9, <1>11, <1>12

LEMMA OthersShape ==
  ASSUME Shape, NEW p \in Procs, Typed', \A k \in SegKeys : SegmentShape(k)',
         \A q \in Procs \ {p} : Stays(q), GotShape(p)'
  PROVE  Shape'
<1>1. \A q \in Procs : GotShape(q)'
  BY ShapeStays DEF Shape
<1> QED  BY <1>1 DEF Shape

LEMMA StartShape ==
  ASSUME Shape, NEW p \in Procs, Start(p)
  PROVE  Shape'
<1>1. /\ AttachTo(p, DefKey, 1) /\ pc[p] = "off"
      /\ pc' = [pc EXCEPT ![p] = "load"] /\ conf' = [conf EXCEPT ![p] = Uninitialised]
      /\ UNCHANGED <<file, def, hdr, crashes, failures, reused>>
  BY DEF Start
<1>2. Typed /\ GotShape(p) /\ got[p] = <<>>
  BY <1>1 DEF Shape, GotShape
<1>3. /\ seg' \in [SegKeys -> [size : Nat, att : SUBSET Procs]]
      /\ got' \in [Procs -> Seq(SegKeys)]
      /\ \A j \in SegKeys : SegmentShape(j)'
      /\ \A q \in Procs \ {p} : \A j \in SegKeys : q \in seg'[j].att <=> q \in seg[j].att
      /\ \A q \in Procs \ {p} : got'[q] = got[q]
      /\ got'[p] = Append(got[p], DefKey)
      /\ \A j \in SegKeys : p \in seg'[j].att <=> j \in Range(got'[p])
  <2>1. 1 \in Nat /\ 1 > 0 /\ DefKey \in SegKeys
    BY KeyFacts
  <2> QED  BY <1>1, <2>1, AttachedShape
<1>4. pc' \in [Procs -> States] /\ pc'[p] = "load" /\ \A q \in Procs \ {p} : pc'[q] = pc[q]
  BY <1>1, <1>2 DEF Typed, States
<1>5. Typed'
  BY <1>1, <1>2, <1>3, <1>4 DEF Typed
<1>6. got'[p] = <<DefKey>>
  BY <1>2, <1>3
<1>7. /\ DOMAIN got'[p] = {1} /\ got'[p][1] = DefKey /\ Len(got'[p]) = 1 /\ got'[p] # <<>>
  BY <1>6
<1>8. GotShape(p)'
  BY <1>3, <1>4, <1>7 DEF GotShape, DefKey
<1>9. \A q \in Procs \ {p} : Stays(q)
  BY <1>1, <1>3, <1>4 DEF Stays
<1> QED  BY <1>3, <1>5, <1>8, <1>9, OthersShape

LEMMA LoadShape ==
  ASSUME Shape, NEW p \in Procs, Load(p)
  PROVE  Shape'
<1> DEFINE c == ReadConfiguration(file)
<1>1. /\ pc[p] = "load" /\ UNCHANGED <<file, seg, hdr, got, crashes, failures, reused>>
      /\ \/ /\ ~IsFirst(DefKey) /\ pc' = [pc EXCEPT ![p] = "attach"] /\ UNCHANGED <<def, conf>>
         \/ /\ IsFirst(DefKey) /\ pc' = [pc EXCEPT ![p] = "fail"]
            /\ def' = [def EXCEPT !.n = 0] /\ UNCHANGED conf
         \/ /\ IsFirst(DefKey) /\ pc' = [pc EXCEPT ![p] = "attach"]
            /\ def' = Loaded(def, c) /\ conf' = [conf EXCEPT ![p] = c]
  BY DEF Load
<1>2. Typed /\ GotShape(p) /\ c \in Seq(AgentConf) /\ Len(c) <= MaxAgents
  BY ConfigurationRead DEF Shape, Typed
<1>3. def' \in Tables
  <2>1. [def EXCEPT !.n = 0] \in Tables
    <3>1. 0 \in 0 .. MaxAgents /\ def \in Tables
      BY <1>2, SegmentsConstants DEF Typed
    <3> QED  BY <3>1 DEF Tables
  <2>2. Loaded(def, c) \in Tables
    BY <1>2, LoadedTyped DEF Typed
  <2> QED  BY <1>1, <1>2, <2>1, <2>2 DEF Typed
<1>4. /\ pc' \in [Procs -> States] /\ pc'[p] \in {"attach", "fail"}
      /\ \A q \in Procs \ {p} : pc'[q] = pc[q]
  BY <1>1, <1>2 DEF Typed, States
<1>5. conf' \in [Procs -> {Uninitialised, c}]
  BY <1>1, <1>2 DEF Typed
<1>6. Typed'
  BY <1>1, <1>2, <1>3, <1>4, <1>5 DEF Typed
<1>7. \A k \in SegKeys : SegmentShape(k)'
  BY <1>1 DEF Shape, SegmentShape
<1>8. GotShape(p)'
  <2>1. LocalKey' \in Nat /\ LocalKey' >= 1 /\ Len(got[p]) = 1 /\ got[p] # <<>>
    <3>1. def'.n \in 0 .. MaxAgents
      BY <1>3 DEF Tables
    <3>2. LocalKey' = def'.n + 1 /\ LocalKey' \in Nat /\ LocalKey' >= 1
      BY <3>1 DEF LocalKey, DefKey
    <3> QED  BY <1>1, <1>2, <3>2 DEF GotShape
  <2> QED  BY <1>1, <1>2, <1>4, <2>1 DEF GotShape
<1>9. ASSUME NEW q \in Procs \ {p} PROVE Stays(q)
  <2>1. CASE IsFirst(DefKey)
    <3>1. p \in seg[DefKey].att
      <4>1. 1 \in DOMAIN got[p] /\ got[p][1] = DefKey
        BY <1>1, <1>2 DEF GotShape, Typed
      <4>2. DefKey \in Range(got[p])
        BY <4>1 DEF Range
      <4> QED  BY <1>2, <4>2, KeyFacts DEF GotShape
    <3>2. seg[DefKey].att = {p}
      BY <2>1, <3>1, FirstIsAlone, KeyFacts
    <3> QED  BY <1>1, <1>4, <3>2, AloneIsOnly DEF Stays
  <2>2. CASE ~IsFirst(DefKey)
    BY <1>1, <1>4, <2>2 DEF Stays
  <2> QED  BY <2>1, <2>2
<1> QED  BY <1>6, <1>7, <1>8, <1>9, OthersShape

\* What a shared memory segment's attachments say of a process that is up.
LEMMA HoldsShape ==
  ASSUME Shape, NEW p \in Procs
  PROVE  /\ got[p] \in Seq(SegKeys) /\ Len(got[p]) \in Nat /\ DOMAIN got[p] = 1 .. Len(got[p])
         /\ pc[p] # "off" => got[p] # <<>> /\ Len(got[p]) >= 1 /\ got[p][1] = DefKey
                             /\ p \in seg[DefKey].att
         /\ pc[p] \in {"load", "attach", "check", "ready"} =>
              Range(got[p]) = 0 .. Len(got[p]) - 1
<1>1. GotShape(p) /\ got[p] \in Seq(SegKeys)
  BY DEF Shape, Typed
<1>2. Len(got[p]) \in Nat /\ DOMAIN got[p] = 1 .. Len(got[p])
  BY <1>1
<1>3. ASSUME pc[p] # "off"
      PROVE  got[p] # <<>> /\ Len(got[p]) >= 1 /\ got[p][1] = DefKey /\ p \in seg[DefKey].att
  <2>1. got[p] # <<>> /\ got[p][1] = DefKey
    BY <1>1, <1>3 DEF GotShape
  <2>2. Len(got[p]) >= 1
    BY <1>1, <2>1
  <2>3. 1 \in DOMAIN got[p]
    BY <1>2, <2>2
  <2>4. DefKey \in Range(got[p])
    BY <2>1, <2>3 DEF Range
  <2> QED  BY <1>1, <2>1, <2>2, <2>4, KeyFacts DEF GotShape
<1>4. ASSUME pc[p] \in {"load", "attach", "check", "ready"}
      PROVE  Range(got[p]) = 0 .. Len(got[p]) - 1
  <2>1. \A n \in 1 .. Len(got[p]) : got[p][n] = n - 1
    BY <1>1, <1>2, <1>4 DEF GotShape
  <2>2. \A x \in 0 .. Len(got[p]) - 1 : x + 1 \in 1 .. Len(got[p]) /\ (x + 1) - 1 = x
    BY <1>2
  <2> DEFINE N == Len(got[p])
  <2> HIDE DEF N
  <2>3. \A x \in 0 .. N - 1 : x \in Range(got[p])
    BY <1>2, <2>1, <2>2 DEF Range, N
  <2>4. \A n \in 1 .. N : n - 1 \in 0 .. N - 1
    BY <1>2 DEF N
  <2>5. \A x \in Range(got[p]) : x \in 0 .. N - 1
    BY <1>2, <2>1, <2>4 DEF Range, N
  <2> QED  BY <2>3, <2>5 DEF N
<1> QED  BY <1>1, <1>2, <1>3, <1>4

LEMMA AttachShape ==
  ASSUME Shape, NEW p \in Procs, Attach(p)
  PROVE  Shape'
<1> DEFINE k == Len(got[p])
<1>1. pc[p] = "attach" /\ UNCHANGED <<file, def, hdr, conf, crashes, failures, reused>>
  BY DEF Attach
<1>2. Typed /\ GotShape(p) /\ k \in 1 .. LocalKey /\ got[p] \in Seq(SegKeys)
  BY <1>1 DEF Shape, GotShape, Typed
<1>3. k \in SegKeys /\ DefKey + k = k /\ LocalKey \in Nat /\ LocalKey' = LocalKey
  BY <1>1, <1>2, LocalKeyFacts, KeyFacts DEF DefKey, LocalKey
<1>4. Range(got[p]) = 0 .. k - 1 /\ DOMAIN got[p] = 1 .. k /\ \A n \in 1 .. k : got[p][n] = n - 1
  BY <1>1, <1>2, HoldsShape DEF GotShape
<1>5. CASE Shmget(k, SizeOf(k)) /\ AttachTo(p, k, SizeOf(k))
           /\ pc' = [pc EXCEPT ![p] = IF k = LocalKey THEN "check" ELSE @]
  <2>1. SizeOf(k) \in Nat
    <3>1. def \in Tables /\ (k # LocalKey => k - 1 \in Agents)
      <4> HIDE DEF k
      <4>1. k \in 1 .. LocalKey /\ LocalKey = def.n + 1 /\ def.n \in Nat /\ def.n <= MaxAgents
        BY <1>2, LocalKeyFacts
      <4>2. MaxAgents \in Nat
        BY SegmentsConstants
      <4>3. k # LocalKey => k - 1 \in 0 .. MaxAgents - 1
        BY <4>1, <4>2
      <4> QED  BY <1>2, <4>3 DEF Typed, Agents
    <3> QED  BY <3>1 DEF SizeOf, Tables
  <2>2. seg[k].size = 0 => SizeOf(k) > 0
    BY <1>5 DEF Shmget
  <2> HIDE DEF k
  <2>3. /\ seg' \in [SegKeys -> [size : Nat, att : SUBSET Procs]]
        /\ got' \in [Procs -> Seq(SegKeys)]
        /\ \A j \in SegKeys : SegmentShape(j)'
        /\ \A q \in Procs \ {p} : \A j \in SegKeys : q \in seg'[j].att <=> q \in seg[j].att
        /\ \A q \in Procs \ {p} : got'[q] = got[q]
        /\ got'[p] = Append(got[p], k)
        /\ \A j \in SegKeys : p \in seg'[j].att <=> j \in Range(got'[p])
    BY <1>1, <1>3, <1>5, <2>1, <2>2, AttachedShape
  <2>4. /\ pc' \in [Procs -> States] /\ pc'[p] = (IF k = LocalKey THEN "check" ELSE "attach")
        /\ \A q \in Procs \ {p} : pc'[q] = pc[q]
    BY <1>1, <1>2, <1>5 DEF Typed, States
  <2>5. Typed'
    BY <1>1, <1>2, <2>3, <2>4 DEF Typed
  <2>6. /\ Len(got'[p]) = k + 1 /\ DOMAIN got'[p] = 1 .. k + 1
        /\ \A n \in 1 .. k + 1 : got'[p][n] = n - 1
    <3>1. /\ Len(got'[p]) = k + 1 /\ DOMAIN got'[p] = 1 .. k + 1
          /\ \A n \in 1 .. k : got'[p][n] = got[p][n] /\ got'[p][k + 1] = k
      BY SMTT(30), <1>2, <1>3, <2>3, AppendedRange DEF k
    <3>2. \A n \in 1 .. k + 1 : n \in 1 .. k \/ n = k + 1
      BY <1>2, <1>3
    <3>3. (k + 1) - 1 = k /\ 1 \in 1 .. k
      BY <1>2, <1>3
    <3> QED  BY <1>4, <3>1, <3>2, <3>3
  <2>7. k \in Nat /\ k >= 1 /\ k <= LocalKey
    BY <1>2, <1>3
  <2>8. GotShape(p)'
    <3>1. got'[p] # <<>> /\ got'[p][1] = DefKey
      <4>1. 1 \in 1 .. k + 1 /\ 1 - 1 = 0 /\ k + 1 # 0
        BY <2>7
      <4> QED  BY <2>6, <4>1 DEF DefKey
    <3>2. \A m, n \in DOMAIN got'[p] : got'[p][m] = got'[p][n] => m = n
      <4>1. \A m, n \in 1 .. k + 1 : m - 1 = n - 1 => m = n
        BY <2>7
      <4> QED  BY <2>6, <4>1
    <3>3. /\ pc'[p] = "attach" => Len(got'[p]) \in 1 .. LocalKey'
          /\ pc'[p] \in {"check", "ready"} => Len(got'[p]) = LocalKey' + 1
          /\ pc'[p] # "off" /\ pc'[p] # "load"
      BY <1>3, <2>4, <2>6, <2>7
    <3> QED  BY <2>3, <2>6, <3>1, <3>2, <3>3 DEF GotShape
  <2>9. \A q \in Procs \ {p} : Stays(q)
    BY <1>1, <2>3, <2>4 DEF Stays
  <2> QED  BY <2>3, <2>5, <2>8, <2>9, OthersShape
<1>6. CASE pc' = [pc EXCEPT ![p] = "fail"] /\ UNCHANGED <<seg, got>>
  <2>1. pc' \in [Procs -> States] /\ pc'[p] = "fail" /\ \A q \in Procs \ {p} : pc'[q] = pc[q]
    BY <1>2, <1>6 DEF Typed, States
  <2>2. Typed'
    BY <1>1, <1>2, <1>6, <2>1 DEF Typed
  <2>3. \A j \in SegKeys : SegmentShape(j)'
    BY <1>1, <1>6 DEF Shape, SegmentShape
  <2>4. GotShape(p)'
    BY <1>1, <1>2, <1>6, <2>1 DEF GotShape
  <2>5. \A q \in Procs \ {p} : Stays(q)
    BY <1>1, <1>6, <2>1 DEF Stays
  <2> QED  BY <2>2, <2>3, <2>4, <2>5, OthersShape
<1>7. \/ Shmget(k, SizeOf(k)) /\ AttachTo(p, k, SizeOf(k))
           /\ pc' = [pc EXCEPT ![p] = IF k = LocalKey THEN "check" ELSE @]
      \/ pc' = [pc EXCEPT ![p] = "fail"] /\ UNCHANGED <<seg, got>>
  <2> HIDE DEF k
  <2> QED  BY <1>3 DEF Attach, k
<1> QED  BY <1>5, <1>6, <1>7

LEMMA CheckShape ==
  ASSUME Shape, NEW p \in Procs, Check(p)
  PROVE  Shape'
<1>1. /\ pc[p] = "check" /\ pc' = [pc EXCEPT ![p] = "ready"] /\ failures' = 0
      /\ UNCHANGED <<file, seg, got, conf, crashes>>
      /\ \/ def' = [def EXCEPT !.lut = Lookup(conf[p])] /\ reused' \in BOOLEAN
         \/ UNCHANGED <<def, reused>>
  BY DEF Check
<1>2. Typed /\ GotShape(p) /\ conf[p] \in Seq(AgentConf) /\ def \in Tables
  <2>1. Typed /\ GotShape(p) /\ conf[p] \in {Uninitialised, ReadConfiguration(file)}
    BY DEF Shape, Typed
  <2>2. ReadConfiguration(file) \in Seq(AgentConf) /\ Uninitialised \in Seq(AgentConf)
    <3>1. ReadConfiguration(file) \in Seq(AgentConf)
      BY <2>1, ConfigurationRead DEF Typed
    <3>2. Uninitialised \in Seq(AgentConf)
      BY DEF Uninitialised
    <3> QED  BY <3>1, <3>2
  <2> QED  BY <2>1, <2>2 DEF Typed
<1>3. def' \in Tables /\ def'.n = def.n
  <2>1. Lookup(conf[p]) \in [Agents -> [Ids -> Int]]
    BY <1>2, LookupTyped
  <2>2. [def EXCEPT !.lut = Lookup(conf[p])] \in Tables
        /\ [def EXCEPT !.lut = Lookup(conf[p])].n = def.n
    BY <1>2, <2>1 DEF Tables
  <2> QED  BY <1>1, <1>2, <2>2
<1>4. pc' \in [Procs -> States] /\ pc'[p] = "ready" /\ \A q \in Procs \ {p} : pc'[q] = pc[q]
  BY <1>1, <1>2 DEF Typed, States
<1>5. Typed'
  <2>1. reused' \in BOOLEAN /\ failures' \in 0 .. 2
    BY <1>1, <1>2 DEF Typed
  <2> QED  BY <1>1, <1>2, <1>3, <1>4, <2>1 DEF Typed
<1>6. \A k \in SegKeys : SegmentShape(k)'
  BY <1>1 DEF Shape, SegmentShape
<1>7. GotShape(p)'
  BY <1>1, <1>2, <1>3, <1>4 DEF GotShape, LocalKey
<1>8. \A q \in Procs \ {p} : Stays(q)
  BY <1>1, <1>3, <1>4 DEF Stays
<1> QED  BY <1>5, <1>6, <1>7, <1>8, OthersShape

LEMMA LeaveShape ==
  ASSUME Shape, NEW p \in Procs, Leave(p)
  PROVE  Shape'
<1>1. /\ pc[p] = "ready" /\ pc' = [pc EXCEPT ![p] = "free"]
      /\ UNCHANGED <<file, seg, def, hdr, got, conf, crashes, failures, reused>>
  BY DEF Leave
<1>2. Typed /\ GotShape(p)
  BY DEF Shape
<1>3. pc' \in [Procs -> States] /\ pc'[p] = "free" /\ \A q \in Procs \ {p} : pc'[q] = pc[q]
  BY <1>1, <1>2 DEF Typed, States
<1>4. Typed'
  BY <1>1, <1>2, <1>3 DEF Typed
<1>5. \A k \in SegKeys : SegmentShape(k)'
  BY <1>1 DEF Shape, SegmentShape
<1>6. GotShape(p)'
  BY <1>1, <1>2, <1>3 DEF GotShape
<1>7. \A q \in Procs \ {p} : Stays(q)
  BY <1>1, <1>3 DEF Stays
<1> QED  BY <1>4, <1>5, <1>6, <1>7, OthersShape

\* What Detach takes.
LEMMA DetachTakes ==
  ASSUME Shape, NEW p \in Procs, pc[p] \in {"free", "fail"}
  PROVE  LET i == NextDetached(p)
             k == got[p][i]
         IN  /\ i \in DOMAIN got[p] /\ k \in SegKeys /\ p \in seg[k].att
             /\ Len(got[p]) = 1 => i = 1
             /\ Len(got[p]) # 1 => i = 2 /\ Len(got[p]) > 1
             /\ k = DefKey <=> Len(got[p]) = 1
<1> DEFINE i == NextDetached(p)
           k == got[p][i]
<1>1. /\ got[p] \in Seq(SegKeys) /\ Len(got[p]) \in Nat /\ DOMAIN got[p] = 1 .. Len(got[p])
      /\ Len(got[p]) >= 1 /\ got[p][1] = DefKey
  BY HoldsShape
<1>2. /\ i \in DOMAIN got[p] /\ (Len(got[p]) = 1 => i = 1)
      /\ (Len(got[p]) # 1 => i = 2 /\ Len(got[p]) > 1)
  <2> DEFINE N == Len(got[p])
  <2>1. i = IF N > 1 THEN 2 ELSE 1
    BY DEF NextDetached
  <2> HIDE DEF N, i
  <2>2. N \in Nat /\ N >= 1 /\ DOMAIN got[p] = 1 .. N
    BY <1>1 DEF N
  <2>3. i \in 1 .. N /\ (N = 1 => i = 1) /\ (N # 1 => i = 2 /\ N > 1)
    BY <2>1, <2>2
  <2> QED  BY <2>2, <2>3 DEF N
<1>3. GotShape(p) /\ 1 \in DOMAIN got[p]
  BY <1>1 DEF Shape
<1>4. k \in SegKeys /\ k \in Range(got[p])
  BY <1>1, <1>2 DEF Range
<1>5. p \in seg[k].att
  BY <1>3, <1>4 DEF GotShape
<1>6. k = DefKey <=> Len(got[p]) = 1
  <2>1. ASSUME k = DefKey PROVE i = 1
    BY <1>1, <1>2, <1>3, <2>1 DEF GotShape
  <2> QED  BY <1>1, <1>2, <2>1
<1> QED  BY <1>2, <1>4, <1>5, <1>6

LEMMA DetachShape ==
  ASSUME Shape, NEW p \in Procs, Detach(p)
  PROVE  Shape'
<1> DEFINE i == NextDetached(p)
           k == got[p][i]
           left == IF IsLast(p, k) THEN NoSegment ELSE [seg[k] EXCEPT !.att = Remaining(p, k)]
<1>1. /\ pc[p] \in {"free", "fail"}
      /\ seg' = [seg EXCEPT ![k] = left]
      /\ def' = IF k = DefKey /\ IsLast(p, k) THEN NoDef ELSE def
      /\ got' = [got EXCEPT ![p] = RemoveAt(got[p], i)]
      /\ pc' = [pc EXCEPT ![p] = IF Len(got[p]) = 1 THEN "off" ELSE pc[p]]
      /\ UNCHANGED <<file, conf, crashes, reused>>
  BY DEF Detach
<1>2. failures' \in 0 .. 2
  <2>1. failures \in 0 .. 2
    BY DEF Shape, Typed
  <2>2. failures' = Min({failures + 1, 2}) \/ failures' = failures
    BY DEF Detach
  <2>3. Min({failures + 1, 2}) \in 0 .. 2
    <3> DEFINE T == {failures + 1, 2}
               m == IF failures + 1 <= 2 THEN failures + 1 ELSE 2
    <3>1. m \in T /\ \A y \in T : m <= y
      BY <2>1
    <3>2. Min(T) \in T /\ \A y \in T : Min(T) <= y
      BY <3>1 DEF Min
    <3> QED  BY <2>1, <3>2
  <2> QED  BY <2>1, <2>2, <2>3
<1>3. Typed /\ GotShape(p) /\ got[p] \in Seq(SegKeys) /\ Len(got[p]) \in Nat
  BY DEF Shape, Typed
<1>4. /\ i \in DOMAIN got[p] /\ k \in SegKeys /\ p \in seg[k].att
      /\ (Len(got[p]) = 1 => i = 1) /\ (Len(got[p]) # 1 => i = 2 /\ Len(got[p]) > 1)
      /\ (k = DefKey <=> Len(got[p]) = 1)
  BY <1>1, DetachTakes
<1> HIDE DEF i, k
<1>5. /\ got'[p] \in Seq(SegKeys) /\ Len(got'[p]) = Len(got[p]) - 1
      /\ \A n \in DOMAIN got'[p] : got'[p][n] = IF n < i THEN got[p][n] ELSE got[p][n + 1]
      /\ \A m, n \in DOMAIN got'[p] : got'[p][m] = got'[p][n] => m = n
      /\ Range(got'[p]) = Range(got[p]) \ {k}
  <2>1. got'[p] = RemoveAt(got[p], i)
    BY <1>1, <1>3 DEF Typed
  <2>2. \A m, n \in DOMAIN got[p] : got[p][m] = got[p][n] => m = n
    BY <1>3 DEF GotShape
  <2> QED  BY <1>3, <1>4, <2>1, <2>2, TakenOut DEF k
<1>6. got' \in [Procs -> Seq(SegKeys)] /\ \A q \in Procs \ {p} : got'[q] = got[q]
  <2>1. got \in [Procs -> Seq(SegKeys)]
    BY <1>3 DEF Typed
  <2>2. \A q \in Procs \ {p} : got'[q] = got[q]
    BY <1>1, <2>1
  <2>3. DOMAIN got' = Procs /\ got' = [q \in Procs |-> got'[q]]
    BY <1>1, <2>1
  <2> QED  BY <1>5, <2>1, <2>2, <2>3
<1>7. /\ left \in [size : Nat, att : SUBSET Procs] /\ left.att = seg[k].att \ {p}
      /\ left.att # {} => left.size = seg[k].size
      /\ left.att = {} => left = NoSegment
  <2>1. seg[k] \in [size : Nat, att : SUBSET Procs]
    BY <1>3, <1>4 DEF Typed
  <2> QED  BY <2>1 DEF IsLast, Remaining, NoSegment
<1> HIDE DEF left
<1>8. /\ seg' \in [SegKeys -> [size : Nat, att : SUBSET Procs]]
      /\ seg'[k] = left /\ \A j \in SegKeys \ {k} : seg'[j] = seg[j]
  BY <1>1, <1>3, <1>4, <1>7 DEF Typed
<1>9. ASSUME NEW j \in SegKeys PROVE SegmentShape(j)'
  <2>1. SegmentShape(j)
    BY DEF Shape
  <2>2. CASE j = k
    <3>1. IsFiniteSet(left.att)
      BY <1>7, <2>1, <2>2, FS_Subset DEF SegmentShape
    <3> QED  BY <1>7, <1>8, <2>1, <2>2, <3>1 DEF SegmentShape
  <2>3. CASE j # k
    BY <1>1, <1>8, <2>1, <2>3 DEF SegmentShape
  <2> QED  BY <2>2, <2>3
<1>10. /\ pc' \in [Procs -> States] /\ pc'[p] = (IF Len(got[p]) = 1 THEN "off" ELSE pc[p])
       /\ \A q \in Procs \ {p} : pc'[q] = pc[q]
  BY <1>1, <1>3 DEF Typed, States
<1>11. Typed'
  <2>1. def' \in Tables
    <3>1. NoDef \in Tables
      <4>1. 0 \in 0 .. MaxAgents /\ 0 \in Nat /\ 0 \in Int
        BY SegmentsConstants
      <4> QED  BY <4>1 DEF NoDef, Tables
    <3> QED  BY <1>1, <1>3, <3>1 DEF Typed
  <2> QED  BY <1>1, <1>2, <1>3, <1>6, <1>8, <1>10, <2>1 DEF Typed
<1>12. GotShape(p)'
  <2>1. \A j \in SegKeys : p \in seg'[j].att <=> j \in Range(got'[p])
    BY <1>3, <1>5, <1>7, <1>8 DEF GotShape
  <2>2. got'[p] = <<>> <=> Len(got[p]) = 1
    <3>1. got'[p] = <<>> <=> Len(got'[p]) = 0
      <4> DEFINE t == got'[p]
      <4>1. t \in Seq(SegKeys)
        BY <1>5
      <4> HIDE DEF t
      <4>2. t = <<>> <=> Len(t) = 0
        BY <4>1, EmptySeq
      <4> QED  BY <4>2 DEF t
    <3>2. Len(got'[p]) = 0 <=> Len(got[p]) = 1
      BY <1>3, <1>5
    <3> QED  BY <3>1, <3>2
  <2>3. pc'[p] = "off" <=> got'[p] = <<>>
    BY <1>1, <1>10, <2>2
  <2>4. got'[p] # <<>> => got'[p][1] = DefKey
    <3> SUFFICES ASSUME got'[p] # <<>> PROVE got'[p][1] = DefKey
      OBVIOUS
    <3>1. i = 2 /\ Len(got[p]) > 1
      BY <1>4, <2>2
    <3>2. 1 \in DOMAIN got'[p] /\ 1 < i
      BY <1>5, <3>1
    <3>3. got'[p][1] = got[p][1] /\ got[p] # <<>>
      BY <1>3, <1>5, <3>1, <3>2
    <3> QED  BY <1>3, <3>3 DEF GotShape
  <2>5. pc'[p] \notin {"load", "attach", "check", "ready"}
    BY <1>1, <1>10
  <2> QED  BY <1>5, <2>1, <2>3, <2>4, <2>5 DEF GotShape
<1>13. ASSUME NEW q \in Procs \ {p} PROVE Stays(q)
  <2>1. \A j \in SegKeys : q \in seg'[j].att <=> q \in seg[j].att
    BY <1>7, <1>8
  <2>2. got[q] = <<>> \/ def'.n = def.n
    <3>1. CASE k = DefKey /\ IsLast(p, k)
      <4>1. seg[DefKey].att \subseteq {p}
        BY <3>1 DEF IsLast, Remaining
      <4> QED  BY <4>1, AloneIsOnly
    <3>2. CASE ~(k = DefKey /\ IsLast(p, k))
      BY <1>1, <3>2
    <3> QED  BY <3>1, <3>2
  <2> QED  BY <1>6, <1>10, <2>1, <2>2 DEF Stays
<1> QED  BY <1>9, <1>11, <1>12, <1>13, OthersShape

LEMMA CrashShape ==
  ASSUME Shape, NEW p \in Procs, Crash(p)
  PROVE  Shape'
<1>1. /\ crashes < MaxCrashes /\ crashes' = crashes + 1
      /\ seg' = [k \in SegKeys |-> [seg[k] EXCEPT !.att = @ \ {p}]]
      /\ got' = [got EXCEPT ![p] = <<>>] /\ pc' = [pc EXCEPT ![p] = "off"]
      /\ failures' = 0 /\ UNCHANGED <<file, def, hdr, conf, reused>>
  BY DEF Crash
<1>2. Typed /\ crashes \in 0 .. MaxCrashes /\ MaxCrashes \in Nat
  BY SegmentsConstants DEF Shape, Typed
<1>3. crashes' \in 0 .. MaxCrashes /\ crashes' # 0
  BY <1>1, <1>2
<1>4. ASSUME NEW k \in SegKeys
      PROVE  /\ seg'[k] \in [size : Nat, att : SUBSET Procs]
             /\ seg'[k].size = seg[k].size /\ seg'[k].att = seg[k].att \ {p}
  <2>1. seg[k] \in [size : Nat, att : SUBSET Procs]
    BY <1>2 DEF Typed
  <2>2. seg'[k] = [seg[k] EXCEPT !.att = seg[k].att \ {p}]
    BY <1>1
  <2> QED  BY <2>1, <2>2
<1>5. seg' \in [SegKeys -> [size : Nat, att : SUBSET Procs]]
  BY <1>1, <1>4
<1>6. /\ got' \in [Procs -> Seq(SegKeys)] /\ got'[p] = <<>>
      /\ \A q \in Procs \ {p} : got'[q] = got[q]
  BY <1>1, <1>2 DEF Typed
<1>7. pc' \in [Procs -> States] /\ pc'[p] = "off" /\ \A q \in Procs \ {p} : pc'[q] = pc[q]
  BY <1>1, <1>2 DEF Typed, States
<1>8. Typed'
  <2>1. failures' \in 0 .. 2
    BY <1>1
  <2>2. /\ file' \in Files /\ def' \in Tables /\ reused' \in BOOLEAN
        /\ conf' \in [Procs -> {Uninitialised, ReadConfiguration(file')}]
    BY <1>1, <1>2 DEF Typed
  <2> QED  BY <1>3, <1>5, <1>6, <1>7, <2>1, <2>2 DEF Typed
<1>9. ASSUME NEW k \in SegKeys PROVE SegmentShape(k)'
  <2>1. SegmentShape(k)
    BY DEF Shape
  <2>2. IsFiniteSet(seg'[k].att)
    BY <1>4, <2>1, FS_Subset DEF SegmentShape
  <2> QED  BY <1>3, <1>4, <2>1, <2>2 DEF SegmentShape
<1>10. GotShape(p)'
  <2>1. Range(<<>>) = {} /\ DOMAIN <<>> = {}
    BY DEF Range
  <2> QED  BY <1>4, <1>6, <1>7, <2>1 DEF GotShape
<1>11. \A q \in Procs \ {p} : Stays(q)
  BY <1>1, <1>4, <1>6, <1>7 DEF Stays
<1> QED  BY <1>8, <1>9, <1>10, <1>11, OthersShape

\* The actions that are not those of a process that starts or stops.
Rest == UNCHANGED <<file, seg, def, pc, got, conf, crashes, failures, reused>>

LEMMA StepsAre ==
  ASSUME [RtNext]_vars
  PROVE  SegStep \/ Rest
<1>1. CASE SegStep
  BY <1>1
<1>2. ASSUME NEW p, NEW a, NEW i, PutIn(p, a, i) PROVE Rest
  BY <1>2 DEF PutIn, Rest, segVars
<1>3. CASE \E x \in Puts : DBPut(x[1], x[3]) /\ x[2] = Self
  BY <1>2, <1>3 DEF DBPut
<1>4. CASE \E x \in Puts : DBCommPut(x[1], x[2], x[3])
  BY <1>2, <1>4 DEF DBCommPut
<1>5. CASE \E p \in Procs : PutCell(p) \/ PutEnd(p)
  BY <1>5 DEF PutCell, PutEnd, Rest, segVars
<1>6. CASE \E x \in Gets : DBGet(x[1], x[2], x[3])
  BY <1>6 DEF DBGet, Rest, segVars
<1>7. CASE \E p \in Procs : GetCell(p)
  BY <1>7 DEF GetCell, Rest, segVars
<1>8. CASE UNCHANGED vars
  BY <1>8 DEF vars, Rest, segVars
<1> QED  BY <1>1, <1>3, <1>4, <1>5, <1>6, <1>7, <1>8 DEF RtNext

LEMMA ShapeHolds == Spec => []Shape
<1>1. RtInit => Shape
  <2> SUFFICES ASSUME RtInit PROVE Shape
    OBVIOUS
  <2>1. /\ file \in Files /\ seg = [k \in SegKeys |-> NoSegment] /\ def = NoDef
        /\ pc = [p \in Procs |-> "off"] /\ got = [p \in Procs |-> <<>>]
        /\ conf = [p \in Procs |-> Uninitialised]
        /\ crashes = 0 /\ failures = 0 /\ reused = FALSE
    BY DEF RtInit, Init
  <2>2. def \in Tables
    <3>1. 0 \in 0 .. MaxAgents /\ 0 \in Nat /\ 0 \in Int
      BY SegmentsConstants
    <3> QED  BY <2>1, <3>1 DEF NoDef, Tables
  <2>3. NoSegment \in [size : Nat, att : SUBSET Procs]
    BY DEF NoSegment
  <2>4. got \in [Procs -> Seq(SegKeys)]
    <3>1. <<>> \in Seq(SegKeys)
      OBVIOUS
    <3> QED  BY <2>1, <3>1
  <2>5. Typed
    <3>1. crashes \in 0 .. MaxCrashes /\ failures \in 0 .. 2 /\ reused \in BOOLEAN
      <4>1. MaxCrashes \in Nat
        BY SegmentsConstants
      <4>2. 0 \in 0 .. MaxCrashes /\ 0 \in 0 .. 2
        BY <4>1
      <4> QED  BY <2>1, <4>2
    <3>2. seg \in [SegKeys -> [size : Nat, att : SUBSET Procs]]
      BY <2>1, <2>3
    <3>3. pc \in [Procs -> States]
      BY <2>1 DEF States
    <3>4. conf \in [Procs -> {Uninitialised, ReadConfiguration(file)}]
      BY <2>1
    <3> QED  BY <2>1, <2>2, <2>4, <3>1, <3>2, <3>3, <3>4 DEF Typed
  <2>6. \A k \in SegKeys : SegmentShape(k)
    <3>1. IsFiniteSet({})
      BY FS_EmptySet
    <3> QED  BY <2>1, <3>1 DEF SegmentShape, NoSegment
  <2>7. \A p \in Procs : GotShape(p)
    <3>1. Range(<<>>) = {} /\ DOMAIN <<>> = {}
      BY DEF Range
    <3> QED  BY <2>1, <3>1 DEF GotShape, NoSegment
  <2> QED  BY <2>5, <2>6, <2>7 DEF Shape
<1>2. Shape /\ [RtNext]_vars => Shape'
  <2> SUFFICES ASSUME Shape, [RtNext]_vars PROVE Shape'
    OBVIOUS
  <2>1. CASE SegStep
    BY <2>1, StartShape, LoadShape, AttachShape, CheckShape, LeaveShape, DetachShape, CrashShape
    DEF SegStep, SegNext
  <2>2. CASE Rest
    BY <2>2 DEF Rest, Shape, Typed, SegmentShape, GotShape, LocalKey
  <2> QED  BY <2>1, <2>2, StepsAre
<1> QED  BY <1>1, <1>2, PTL DEF Spec

\* Who comes and goes by DB_init and DB_free leaves no segment behind when the
\* last has gone, whoever's starts overlap (_DB_free, rtdb_api.c:184-219).
THEOREM NothingLeft == Spec => []CleanExit
<1>1. Shape => CleanExit
  <2> SUFFICES ASSUME Shape, crashes = 0, \A p \in Procs : pc[p] = "off"
               PROVE  seg = [k \in SegKeys |-> NoSegment]
    BY DEF CleanExit
  <2>1. ASSUME NEW k \in SegKeys PROVE seg[k] = NoSegment
    <3>1. seg[k].att \subseteq Procs /\ SegmentShape(k)
      BY DEF Shape, Typed
    <3>2. ASSUME NEW p \in Procs PROVE p \notin seg[k].att
      <4>1. GotShape(p) /\ pc[p] = "off"
        BY DEF Shape
      <4>2. got[p] = <<>>
        BY <4>1 DEF GotShape
      <4>3. Range(<<>>) = {}
        BY DEF Range
      <4> QED  BY <4>1, <4>2, <4>3 DEF GotShape
    <3> QED  BY <3>1, <3>2 DEF SegmentShape
  <2> QED  BY <2>1 DEF Shape, Typed
<1> QED  BY <1>1, ShapeHolds, PTL
=============================================================================
