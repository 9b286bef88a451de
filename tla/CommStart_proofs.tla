-------------------------- MODULE CommStart_proofs --------------------------
(***************************************************************************)
(* Theorems about CommStart, for every configuration file, whatever the    *)
(* number and the order of its lines.  The reading of the file is related  *)
(* to its text line by line: Reading says what has been found in the first *)
(* n lines, and why.                                                       *)
(***************************************************************************)
EXTENDS CommStart, TLAPS

Fields == DOMAIN reset

\* A file as the assumption on Files has it.
IsFile(f) ==
  /\ Len(f) \in Nat /\ DOMAIN f = 1 .. Len(f)
  /\ \A i \in DOMAIN f : IsLine(f[i])

\* The largest and the smallest element of a set.
LEMMA MaxIs ==
  ASSUME NEW S \in SUBSET Int, NEW m \in S, \A x \in S : x <= m
  PROVE  Max(S) = m
<1>1. \E x \in S : \A y \in S : x >= y
  OBVIOUS
<1>2. Max(S) \in S /\ \A y \in S : Max(S) >= y
  BY <1>1 DEF Max
<1>3. Max(S) \in Int /\ m \in Int /\ Max(S) <= m /\ m <= Max(S)
  BY <1>2
<1> QED
  BY <1>3

LEMMA MinIs ==
  ASSUME NEW S \in SUBSET Int, NEW m \in S, \A x \in S : m <= x
  PROVE  Min(S) = m
<1>1. \E x \in S : \A y \in S : x =< y
  OBVIOUS
<1>2. Min(S) \in S /\ \A y \in S : Min(S) =< y
  BY <1>1 DEF Min
<1>3. Min(S) \in Int /\ m \in Int /\ Min(S) <= m /\ m <= Min(S)
  BY <1>2
<1> QED
  BY <1>3
-----------------------------------------------------------------------------
(***************************************************************************)
(* What the lines of a file say, with the file as a parameter.             *)
(***************************************************************************)
Says(t, f, k) == In(f, t[k]) /\ ~In("comment", t[k])

\* v is what lines i to j make of field f.
Makes(t, f, i, j, v) ==
  \/ v = 0 /\ \A k \in i .. j : ~Says(t, f, k)
  \/ \E k \in i .. j : /\ Says(t, f, k) /\ v = t[k][f]
                       /\ \A l \in k + 1 .. j : ~Says(t, f, l)

MakesAll(t, i, j, config) == \A f \in Fields : Makes(t, f, i, j, config[f])

\* Lines i to j begin no network; none of them begins the network asked for; none
\* says default.
NoHeader(t, i, j)       == \A k \in i .. j : ~IsHeader(t[k])
NotNamed(t, asked, i, j) == \A k \in i .. j : IsHeader(t[k]) => t[k].network # asked
MarksDefault(t, k)      == SaysDefault(t[k]) /\ ~In("comment", t[k])
NotMarked(t, i, j)      == \A k \in i .. j : ~MarksDefault(t, k)

\* name is that of the network line i is in.
InNetwork(t, i, name) ==
  \/ name = Null /\ NoHeader(t, 1, i)
  \/ \E h \in 1 .. i : /\ IsHeader(t[h]) /\ name = t[h].network
                       /\ NoHeader(t, h + 1, i)

\* The lines that count reach up to n, or to the header that has stopped the reading.
Upto(r, n) == IF r.stopped THEN n - 1 ELSE n

\* A network found at line h goes on to line n, or line n begins the next one.
Extends(t, r, h, n) ==
  /\ NoHeader(t, h + 1, Upto(r, n))
  /\ r.stopped => n > h /\ IsHeader(t[n])

\* What has been found of the network with the name asked in n lines.
ReadingNamed(t, asked, n, r) ==
  /\ r.name = asked
  /\ ~r.found => ~r.stopped /\ r.config = reset /\ NotNamed(t, asked, 1, n)
  /\ r.found => \E h \in 1 .. n :
       /\ IsHeader(t[h]) /\ t[h].network = asked /\ NotNamed(t, asked, 1, h - 1)
       /\ r.section = asked
       /\ Extends(t, r, h, n)
       /\ MakesAll(t, h, Upto(r, n), r.config)

\* What has been found of the default network.
ReadingDefault(t, n, r) ==
  /\ MakesAll(t, 1, Upto(r, n), r.config)
  /\ ~r.found => /\ ~r.stopped /\ r.name = Null /\ NotMarked(t, 1, n)
                 /\ InNetwork(t, n, r.section)
  /\ r.found => \E m \in 1 .. n :
       /\ MarksDefault(t, m) /\ NotMarked(t, 1, m - 1)
       /\ r.section = r.name /\ InNetwork(t, m, r.name)
       /\ Extends(t, r, m, n)

Readings ==
  [config : [Fields -> Int], name : Names \union {Null},
   section : Names \union {Null}, found : BOOLEAN, stopped : BOOLEAN]

Reading(t, asked, n, r) ==
  /\ r \in Readings
  /\ asked # Null => ReadingNamed(t, asked, n, r)
  /\ asked = Null => ReadingDefault(t, n, r)
-----------------------------------------------------------------------------
LEMMA FieldsAre == Fields = {"ip", "port", "frequency"} /\ reset \in [Fields -> Int]
BY DEF Fields, reset

LEMMA OpenedReading ==
  ASSUME NEW t, NEW asked \in Names \union {Null}
  PROVE  Reading(t, asked, 0, Opened(asked))
<1> DEFINE r == Opened(asked)
<1>1. r \in Readings /\ r.config = reset /\ ~r.found /\ ~r.stopped /\ r.name = asked
      /\ r.section = Null
  BY FieldsAre DEF Readings, Opened
<1>2. NotNamed(t, asked, 1, 0) /\ NotMarked(t, 1, 0) /\ InNetwork(t, 0, Null)
  BY DEF NotNamed, NotMarked, InNetwork, NoHeader
<1>3. MakesAll(t, 1, 0, reset)
  BY DEF MakesAll, Makes, Fields, reset
<1>4. Reading(t, asked, 0, r)
  <2> HIDE DEF r
  <2> QED
    BY <1>1, <1>2, <1>3 DEF Reading, ReadingNamed, ReadingDefault, Upto
<1> QED
  BY <1>4

\* What lines i to n + 1 make of a field follows from what lines i to n make of it.
LEMMA MakesStep ==
  ASSUME NEW t, NEW f, NEW i \in Nat, NEW n \in Nat, i <= n + 1, NEW v,
         Makes(t, f, i, n, v)
  PROVE  /\ Says(t, f, n + 1) => Makes(t, f, i, n + 1, t[n + 1][f])
         /\ ~Says(t, f, n + 1) => Makes(t, f, i, n + 1, v)
<1>1. CASE Says(t, f, n + 1)
  BY <1>1 DEF Makes
<1>2. CASE ~Says(t, f, n + 1)
  <2>1. CASE v = 0 /\ \A k \in i .. n : ~Says(t, f, k)
    BY <1>2, <2>1 DEF Makes
  <2>2. CASE \E k \in i .. n : /\ Says(t, f, k) /\ v = t[k][f]
                               /\ \A l \in k + 1 .. n : ~Says(t, f, l)
    <3>1. PICK k \in i .. n : /\ Says(t, f, k) /\ v = t[k][f]
                              /\ \A l \in k + 1 .. n : ~Says(t, f, l)
      BY <2>2
    <3>2. k \in i .. n + 1 /\ \A l \in k + 1 .. n + 1 : ~Says(t, f, l)
      BY <1>2, <3>1
    <3> QED
      BY <1>2, <3>1, <3>2 DEF Makes
  <2> QED
    BY <2>1, <2>2 DEF Makes
<1> QED
  BY <1>1, <1>2

\* A line that begins a network, and what it makes of the fields alone.
LEMMA MakesFirst ==
  ASSUME NEW t, NEW f, NEW i \in Nat
  PROVE  /\ Says(t, f, i) => Makes(t, f, i, i, t[i][f])
         /\ ~Says(t, f, i) => Makes(t, f, i, i, 0)
BY DEF Makes
-----------------------------------------------------------------------------
(***************************************************************************)
(* One line.  What TakeLine does to a reading that has not stopped, case   *)
(* by case.                                                                *)
(***************************************************************************)
With(config, l) == [f \in DOMAIN config |-> IF In(f, l) THEN l[f] ELSE config[f]]

LEMMA TakeLineCases ==
  ASSUME NEW r \in Readings, ~r.stopped, NEW asked \in Names \union {Null}, NEW l,
         IsLine(l)
  PROVE  /\ TakeLine(r, asked, l) \in Readings
         /\ In("comment", l) => TakeLine(r, asked, l) = r
         /\ (IsHeader(l) /\ r.found) =>
              TakeLine(r, asked, l) = [r EXCEPT !.stopped = TRUE]
         /\ (IsHeader(l) /\ ~r.found /\ asked # Null /\ l.network # asked) =>
              TakeLine(r, asked, l) = [r EXCEPT !.section = l.network]
         /\ (IsHeader(l) /\ ~r.found /\ asked # Null /\ l.network = asked) =>
              /\ TakeLine(r, asked, l).found /\ ~TakeLine(r, asked, l).stopped
              /\ TakeLine(r, asked, l).config = With(r.config, l)
              /\ TakeLine(r, asked, l).section = asked
              /\ TakeLine(r, asked, l).name = IF SaysDefault(l) THEN asked ELSE r.name
         /\ (~In("comment", l) /\ ~IsHeader(l) /\ ~r.found /\ asked # Null) =>
              TakeLine(r, asked, l) = r
         /\ (~In("comment", l) /\ ~(IsHeader(l) /\ r.found) /\ asked = Null) =>
              /\ TakeLine(r, asked, l).found = (r.found \/ SaysDefault(l))
              /\ ~TakeLine(r, asked, l).stopped
              /\ TakeLine(r, asked, l).config = With(r.config, l)
              /\ TakeLine(r, asked, l).section = (IF IsHeader(l) THEN l.network
                                                  ELSE r.section)
              /\ TakeLine(r, asked, l).name =
                   IF SaysDefault(l) THEN TakeLine(r, asked, l).section ELSE r.name
         /\ (~In("comment", l) /\ ~IsHeader(l) /\ r.found) =>
              /\ TakeLine(r, asked, l).found /\ ~TakeLine(r, asked, l).stopped
              /\ TakeLine(r, asked, l).config = With(r.config, l)
              /\ TakeLine(r, asked, l).section = r.section
              /\ TakeLine(r, asked, l).name = IF SaysDefault(l) THEN r.section ELSE r.name
<1> DEFINE h == Header(r, asked, l)
           q == Settings(h, asked, l)
<1>1. /\ r.config \in [Fields -> Int] /\ r.name \in Names \union {Null}
      /\ r.section \in Names \union {Null} /\ r.found \in BOOLEAN /\ r.stopped \in BOOLEAN
  BY DEF Readings
<1>2. /\ h \in Readings
      /\ ~IsHeader(l) => h = r
      /\ IsHeader(l) /\ r.found => h = [r EXCEPT !.stopped = TRUE] /\ h.stopped
      /\ IsHeader(l) => l.network \in Names /\ l.network # Null
      /\ IsHeader(l) /\ ~r.found =>
           /\ h = [r EXCEPT !.section = l.network, !.found = (l.network = asked)]
           /\ h.section = l.network /\ (h.found <=> l.network = asked) /\ h.name = r.name
           /\ h.config = r.config /\ ~h.stopped
  <2>1. IsHeader(l) => l.network \in Names
    BY DEF IsLine, IsHeader
  <2> QED
    BY <1>1, <2>1, CommStartConstants DEF Header, Readings
<1>3. /\ With(h.config, l) \in [Fields -> Int]
      /\ SaysDefault(l) \in BOOLEAN
  BY <1>2 DEF With, IsLine, Fields, SaysDefault, Readings
<1>4. CASE h.stopped \/ ~(h.found \/ asked = Null)
  <2>1. q = h
    BY <1>4 DEF Settings
  <2>2. ~In("comment", l) => TakeLine(r, asked, l) = h
    BY <2>1 DEF TakeLine
  <2> HIDE DEF h, q
  <2>3. In("comment", l) => TakeLine(r, asked, l) = r /\ ~IsHeader(l)
    BY DEF TakeLine, IsHeader
  <2> QED
    BY <1>1, <1>2, <1>4, <2>2, <2>3
<1>5. CASE ~h.stopped /\ (h.found \/ asked = Null)
  <2>1. q = [h EXCEPT !.config = With(h.config, l), !.found = (h.found \/ SaysDefault(l)),
                      !.name = IF SaysDefault(l) THEN h.section ELSE h.name]
    BY <1>5 DEF Settings, With
  <2>2. /\ q \in Readings /\ q.config = With(h.config, l)
        /\ q.found = (h.found \/ SaysDefault(l)) /\ ~q.stopped /\ q.section = h.section
        /\ q.name = IF SaysDefault(l) THEN h.section ELSE h.name
    <3> HIDE DEF q, h
    <3> QED BY <1>2, <1>3, <1>5, <2>1 DEF Readings
  <2>3. ~In("comment", l) => TakeLine(r, asked, l) = q
    BY DEF TakeLine
  <2>4. In("comment", l) => TakeLine(r, asked, l) = r /\ ~IsHeader(l)
    BY DEF TakeLine, IsHeader
  <2> HIDE DEF h, q
  <2>5. CASE In("comment", l)
    BY <1>1, <2>4, <2>5
  <2>6. CASE ~In("comment", l) /\ IsHeader(l)
    <3>1. ~r.found
      BY <1>1, <1>2, <1>5, <2>6
    <3> QED
      BY <1>1, <1>2, <1>3, <1>5, <2>2, <2>3, <2>6, <3>1
  <2>7. CASE ~In("comment", l) /\ ~IsHeader(l)
    <3>1. h = r
      BY <1>2, <2>7
    <3> QED
      BY <1>1, <1>2, <1>3, <1>5, <2>2, <2>3, <2>7, <3>1
  <2> QED
    BY <2>5, <2>6, <2>7
<1>6. h.stopped \in BOOLEAN /\ h.found \in BOOLEAN
  BY <1>2 DEF Readings
<1> QED
  BY <1>4, <1>5, <1>6
-----------------------------------------------------------------------------
(***************************************************************************)
(* One more line that has been read.                                       *)
(***************************************************************************)
LEMMA MakesAllStep ==
  ASSUME NEW t, NEW i \in Nat, NEW n \in Nat, i <= n + 1,
         NEW c \in [Fields -> Int], MakesAll(t, i, n, c)
  PROVE  /\ In("comment", t[n + 1]) => MakesAll(t, i, n + 1, c)
         /\ ~In("comment", t[n + 1]) => MakesAll(t, i, n + 1, With(c, t[n + 1]))
<1>1. ASSUME NEW f \in Fields
      PROVE  /\ Says(t, f, n + 1) => Makes(t, f, i, n + 1, t[n + 1][f])
             /\ ~Says(t, f, n + 1) => Makes(t, f, i, n + 1, c[f])
  BY MakesStep DEF MakesAll
<1>2. \A f \in Fields : With(c, t[n + 1])[f] = IF In(f, t[n + 1]) THEN t[n + 1][f] ELSE c[f]
  BY DEF With
<1> QED
  BY <1>1, <1>2 DEF MakesAll, Says

\* The first line of a network, which has said nothing before.
LEMMA MakesAllFirst ==
  ASSUME NEW t, NEW i \in Nat, ~In("comment", t[i])
  PROVE  MakesAll(t, i, i, With(reset, t[i]))
<1>1. \A f \in Fields : reset[f] = 0
  BY DEF Fields, reset
<1>2. \A f \in Fields : With(reset, t[i])[f] = IF In(f, t[i]) THEN t[i][f] ELSE 0
  BY <1>1 DEF With, Fields
<1> QED
  BY <1>2, MakesFirst DEF MakesAll, Says

LEMMA RangesStep ==
  ASSUME NEW t, NEW i \in Nat, NEW n \in Nat
  PROVE  /\ NoHeader(t, i, n) /\ ~IsHeader(t[n + 1]) => NoHeader(t, i, n + 1)
         /\ NotMarked(t, i, n) /\ ~MarksDefault(t, n + 1) => NotMarked(t, i, n + 1)
         /\ \A asked : /\ NotNamed(t, asked, i, n)
                       /\ IsHeader(t[n + 1]) => t[n + 1].network # asked
                       => NotNamed(t, asked, i, n + 1)
<1>1. \A k \in i .. n + 1 : k \in i .. n \/ k = n + 1
  OBVIOUS
<1> QED
  BY <1>1 DEF NoHeader, NotMarked, NotNamed

LEMMA InNetworkStep ==
  ASSUME NEW t, NEW n \in Nat, NEW name
  PROVE  /\ IsHeader(t[n + 1]) => InNetwork(t, n + 1, t[n + 1].network)
         /\ ~IsHeader(t[n + 1]) /\ InNetwork(t, n, name) => InNetwork(t, n + 1, name)
<1>1. IsHeader(t[n + 1]) => InNetwork(t, n + 1, t[n + 1].network)
  BY DEF InNetwork, NoHeader
<1>2. ASSUME ~IsHeader(t[n + 1]), InNetwork(t, n, name)
      PROVE  InNetwork(t, n + 1, name)
  <2>1. CASE name = Null /\ NoHeader(t, 1, n)
    BY <1>2, <2>1, RangesStep DEF InNetwork
  <2>2. CASE \E h \in 1 .. n : /\ IsHeader(t[h]) /\ name = t[h].network
                               /\ NoHeader(t, h + 1, n)
    <3>1. PICK h \in 1 .. n : /\ IsHeader(t[h]) /\ name = t[h].network
                              /\ NoHeader(t, h + 1, n)
      BY <2>2
    <3>2. h \in 1 .. n + 1 /\ NoHeader(t, h + 1, n + 1)
      BY <1>2, <3>1, RangesStep
    <3> QED
      BY <3>1, <3>2 DEF InNetwork
  <2> QED
    BY <1>2, <2>1, <2>2 DEF InNetwork
<1> QED
  BY <1>1, <1>2

\* A network that has been named.
LEMMA NamedStep ==
  ASSUME NEW t, NEW asked \in Names, NEW n \in Nat, NEW r \in Readings,
         ~r.stopped, IsLine(t[n + 1]), ReadingNamed(t, asked, n, r)
  PROVE  ReadingNamed(t, asked, n + 1, TakeLine(r, asked, t[n + 1]))
<1> DEFINE l == t[n + 1]
           q == TakeLine(r, asked, l)
<1> SUFFICES ReadingNamed(t, asked, n + 1, q)
  OBVIOUS
<1> USE DEF Upto
<1>1. asked # Null /\ r.config \in [Fields -> Int] /\ r.found \in BOOLEAN
  BY CommStartConstants DEF Readings
<1>2. CASE ~r.found
  <2>1. r.config = reset /\ NotNamed(t, asked, 1, n) /\ r.name = asked
    BY <1>2 DEF ReadingNamed
  <2>2. CASE IsHeader(l) /\ l.network = asked
    <3>1. /\ q.found /\ ~q.stopped /\ q.config = With(reset, l)
          /\ q.section = asked /\ q.name = asked
      BY <1>1, <1>2, <2>1, <2>2, TakeLineCases
    <3>2. MakesAll(t, n + 1, n + 1, q.config)
      BY <2>2, <3>1, MakesAllFirst DEF IsHeader
    <3>3. Extends(t, q, n + 1, n + 1)
      BY <3>1 DEF Extends, NoHeader
    <3>4. NotNamed(t, asked, 1, (n + 1) - 1) /\ n + 1 \in 1 .. n + 1
      BY <2>1
    <3> HIDE DEF q
    <3> QED
      BY <2>2, <3>1, <3>2, <3>3, <3>4 DEF ReadingNamed
  <2>3. CASE ~(IsHeader(l) /\ l.network = asked)
    <3>1. q.config = reset /\ ~q.found /\ ~q.stopped /\ q.name = asked
      <4>1. CASE IsHeader(l)
        <5>1. q = [r EXCEPT !.section = l.network]
          BY <1>1, <1>2, <2>3, <4>1, TakeLineCases
        <5> QED
          BY <1>2, <2>1, <5>1 DEF Readings
      <4>2. CASE ~IsHeader(l)
        BY <1>1, <1>2, <2>1, <4>2, TakeLineCases
      <4> QED
        BY <4>1, <4>2
    <3>2. NotNamed(t, asked, 1, n + 1)
      BY <2>1, <2>3, RangesStep
    <3> HIDE DEF q
    <3> QED
      BY <3>1, <3>2 DEF ReadingNamed
  <2> QED
    BY <2>2, <2>3
<1>3. CASE r.found
  <2>1. PICK h \in 1 .. n :
             /\ IsHeader(t[h]) /\ t[h].network = asked /\ NotNamed(t, asked, 1, h - 1)
             /\ r.section = asked /\ Extends(t, r, h, n) /\ MakesAll(t, h, n, r.config)
    BY <1>3 DEF ReadingNamed
  <2>2. r.name = asked /\ NoHeader(t, h + 1, n)
    BY <2>1 DEF ReadingNamed, Extends
  <2>3. h \in Nat /\ h <= n + 1 /\ h \in 1 .. n + 1 /\ h + 1 \in Nat
    OBVIOUS
  <2>4. CASE In("comment", l)
    <3>1. q = r
      BY <2>4, TakeLineCases
    <3>2. MakesAll(t, h, n + 1, r.config)
      BY <1>1, <2>1, <2>3, <2>4, MakesAllStep
    <3>3. NoHeader(t, h + 1, n + 1)
      BY <2>2, <2>3, <2>4, RangesStep DEF IsHeader
    <3> HIDE DEF q
    <3> QED
      BY <1>3, <2>1, <2>2, <2>3, <3>1, <3>2, <3>3 DEF ReadingNamed, Extends
  <2>5. CASE IsHeader(l)
    <3>1. q = [r EXCEPT !.stopped = TRUE]
      BY ZenonT(30), <1>3, <2>5, TakeLineCases
    <3>2. q.stopped /\ q.found /\ q.name = asked /\ q.section = asked /\ q.config = r.config
      BY <1>3, <2>1, <2>2, <3>1 DEF Readings
    <3>3. (n + 1) - 1 = n /\ n + 1 > h
      OBVIOUS
    <3> HIDE DEF q
    <3> QED
      BY <2>1, <2>2, <2>3, <2>5, <3>2, <3>3 DEF ReadingNamed, Extends
  <2>6. CASE ~In("comment", l) /\ ~IsHeader(l)
    <3>1. /\ q.found /\ ~q.stopped /\ q.config = With(r.config, l)
          /\ q.section = asked /\ q.name = asked
      BY <1>3, <2>1, <2>2, <2>6, TakeLineCases
    <3>2. MakesAll(t, h, n + 1, q.config)
      BY <1>1, <2>1, <2>3, <2>6, <3>1, MakesAllStep
    <3>3. NoHeader(t, h + 1, n + 1)
      BY <2>2, <2>3, <2>6, RangesStep
    <3> HIDE DEF q
    <3> QED
      BY <2>1, <2>3, <3>1, <3>2, <3>3 DEF ReadingNamed, Extends
  <2> QED
    BY <2>4, <2>5, <2>6
<1> QED
  BY <1>1, <1>2, <1>3

\* The default network.
LEMMA DefaultStep ==
  ASSUME NEW t, NEW n \in Nat, NEW r \in Readings,
         ~r.stopped, IsLine(t[n + 1]), ReadingDefault(t, n, r)
  PROVE  ReadingDefault(t, n + 1, TakeLine(r, Null, t[n + 1]))
<1> DEFINE l == t[n + 1]
           q == TakeLine(r, Null, l)
<1> SUFFICES ReadingDefault(t, n + 1, q)
  OBVIOUS
<1> USE DEF Upto
<1>1. r.config \in [Fields -> Int] /\ r.found \in BOOLEAN /\ MakesAll(t, 1, n, r.config)
  BY DEF Readings, ReadingDefault
<1>2. CASE In("comment", l)
  <2>1. q = r /\ ~IsHeader(l) /\ ~MarksDefault(t, n + 1)
    <3>1. q = r
      BY <1>2 DEF TakeLine
    <3>2. ~IsHeader(l) /\ ~MarksDefault(t, n + 1)
      BY <1>2 DEF IsHeader, MarksDefault
    <3> QED
      BY <3>1, <3>2
  <2>2. MakesAll(t, 1, n + 1, r.config)
    BY <1>1, <1>2, MakesAllStep
  <2> HIDE DEF q
  <2>3. CASE ~r.found
    BY <2>1, <2>2, <2>3, RangesStep, InNetworkStep DEF ReadingDefault
  <2>4. CASE r.found
    <3>1. PICK m \in 1 .. n : /\ MarksDefault(t, m) /\ NotMarked(t, 1, m - 1)
                              /\ r.section = r.name /\ InNetwork(t, m, r.name)
                              /\ Extends(t, r, m, n)
      BY <2>4 DEF ReadingDefault
    <3>2. m \in 1 .. n + 1 /\ Extends(t, q, m, n + 1)
      BY <2>1, <3>1, RangesStep DEF Extends
    <3> QED
      BY <2>1, <2>2, <2>4, <3>1, <3>2 DEF ReadingDefault
  <2> QED
    BY <1>1, <2>3, <2>4
<1>3. CASE IsHeader(l) /\ r.found
  <2>1. q = [r EXCEPT !.stopped = TRUE]
    BY ZenonT(30), <1>3, TakeLineCases
  <2>2. q.stopped /\ q.found /\ q.name = r.name /\ q.section = r.section /\ q.config = r.config
    BY <1>3, <2>1 DEF Readings
  <2>3. PICK m \in 1 .. n : /\ MarksDefault(t, m) /\ NotMarked(t, 1, m - 1)
                            /\ r.section = r.name /\ InNetwork(t, m, r.name)
                            /\ Extends(t, r, m, n)
    BY <1>3 DEF ReadingDefault
  <2>4. m \in 1 .. n + 1 /\ (n + 1) - 1 = n /\ n + 1 > m
    OBVIOUS
  <2> HIDE DEF q
  <2> QED
    BY <1>1, <1>3, <2>2, <2>3, <2>4 DEF ReadingDefault, Extends
<1>4. CASE ~In("comment", l) /\ ~(IsHeader(l) /\ r.found)
  <2>1. /\ q.found = (r.found \/ SaysDefault(l)) /\ ~q.stopped
        /\ q.config = With(r.config, l)
        /\ q.section = IF IsHeader(l) THEN l.network ELSE r.section
        /\ q.name = IF SaysDefault(l) THEN q.section ELSE r.name
    BY <1>4, TakeLineCases
  <2>2. MakesAll(t, 1, n + 1, q.config)
    BY <1>1, <1>4, <2>1, MakesAllStep
  <2>3. MarksDefault(t, n + 1) <=> SaysDefault(l)
    BY <1>4 DEF MarksDefault
  <2> HIDE DEF q
  <2>4. CASE ~r.found
    <3>1. r.name = Null /\ NotMarked(t, 1, n) /\ InNetwork(t, n, r.section)
      BY <2>4 DEF ReadingDefault
    <3>2. InNetwork(t, n + 1, q.section)
      BY <2>1, <3>1, InNetworkStep
    <3>3. CASE SaysDefault(l)
      <4>1. n + 1 \in 1 .. n + 1 /\ (n + 1) - 1 = n /\ Extends(t, q, n + 1, n + 1)
        BY <2>1 DEF Extends, NoHeader
      <4> QED
        BY <2>1, <2>2, <2>3, <3>1, <3>2, <3>3, <4>1 DEF ReadingDefault
    <3>4. CASE ~SaysDefault(l)
      BY <2>1, <2>2, <2>3, <2>4, <3>1, <3>2, <3>4, RangesStep DEF ReadingDefault
    <3> QED
      BY <3>3, <3>4
  <2>5. CASE r.found
    <3>1. PICK m \in 1 .. n : /\ MarksDefault(t, m) /\ NotMarked(t, 1, m - 1)
                              /\ r.section = r.name /\ InNetwork(t, m, r.name)
                              /\ Extends(t, r, m, n)
      BY <2>5 DEF ReadingDefault
    <3>2. m \in 1 .. n + 1 /\ Extends(t, q, m, n + 1)
      BY <1>4, <2>1, <2>5, <3>1, RangesStep DEF Extends
    <3>3. q.section = r.section /\ q.name = r.name /\ q.found
      BY <1>4, <2>1, <2>5, <3>1
    <3> QED
      BY <2>1, <2>2, <3>1, <3>2, <3>3 DEF ReadingDefault
  <2> QED
    BY <1>1, <2>4, <2>5
<1> QED
  BY <1>2, <1>3, <1>4

LEMMA ReadingStep ==
  ASSUME NEW t, NEW asked \in Names \union {Null}, NEW n \in Nat, NEW r,
         Reading(t, asked, n, r), ~r.stopped, IsLine(t[n + 1])
  PROVE  Reading(t, asked, n + 1, TakeLine(r, asked, t[n + 1]))
<1>1. r \in Readings /\ TakeLine(r, asked, t[n + 1]) \in Readings
  BY TakeLineCases DEF Reading
<1>2. CASE asked # Null
  <2>1. asked \in Names /\ ReadingNamed(t, asked, n, r)
    BY <1>2 DEF Reading
  <2> QED
    BY <1>1, <1>2, <2>1, NamedStep DEF Reading
<1>3. CASE asked = Null
  <2>1. ReadingDefault(t, n, r)
    BY <1>3 DEF Reading
  <2>2. ReadingDefault(t, n + 1, TakeLine(r, Null, t[n + 1]))
    BY <1>1, <2>1, DefaultStep
  <2> QED
    BY <1>1, <1>3, <2>2 DEF Reading
<1> QED
  BY <1>2, <1>3
-----------------------------------------------------------------------------
(***************************************************************************)
(* What has been found, and what the whole file says.                      *)
(***************************************************************************)
LEMMA GivenIs ==
  ASSUME NEW f, NEW i \in Int, NEW j \in Int, NEW v, Makes(file, f, i, j, v)
  PROVE  Given(f, i, j) = v
<1> DEFINE at == {k \in i .. j : In(f, file[k]) /\ ~In("comment", file[k])}
<1>1. Given(f, i, j) = IF at = {} THEN 0 ELSE file[Max(at)][f]
  BY DEF Given
<1>2. CASE v = 0 /\ \A k \in i .. j : ~Says(file, f, k)
  <2>1. at = {}
    BY <1>2 DEF Says
  <2> HIDE DEF at
  <2> QED
    BY <1>1, <1>2, <2>1
<1>3. CASE \E k \in i .. j : /\ Says(file, f, k) /\ v = file[k][f]
                             /\ \A l \in k + 1 .. j : ~Says(file, f, l)
  <2>1. PICK k \in i .. j : /\ Says(file, f, k) /\ v = file[k][f]
                            /\ \A l \in k + 1 .. j : ~Says(file, f, l)
    BY <1>3
  <2>2. k \in at /\ at \in SUBSET Int
    BY <2>1 DEF Says
  <2>3. \A x \in at : x <= k
    <3> SUFFICES ASSUME NEW x \in i .. j, Says(file, f, x) PROVE x <= k
      BY DEF Says
    <3>1. x \notin k + 1 .. j
      BY <2>1
    <3> QED
      BY <3>1
  <2> HIDE DEF at
  <2>4. Max(at) = k
    BY <2>2, <2>3, MaxIs
  <2> QED
    BY <1>1, <2>1, <2>2, <2>4
<1> QED
  BY <1>2, <1>3 DEF Makes

LEMMA NameAtIs ==
  ASSUME IsFile(file), NEW i \in DOMAIN file, NEW name, InNetwork(file, i, name)
  PROVE  NameAt(i) = name
<1> DEFINE before == {h \in Headers : h <= i}
<1>1. /\ Len(file) \in Nat /\ DOMAIN file = 1 .. Len(file) /\ i \in Nat
      /\ before \in SUBSET Int
  BY DEF IsFile, Headers
<1>2. \A h : h \in before <=> h \in 1 .. i /\ IsHeader(file[h])
  BY <1>1 DEF Headers
<1>3. NameAt(i) = IF \E h \in Headers : h <= i THEN file[Max(before)].network ELSE Null
  BY DEF NameAt
<1>4. (\E h \in Headers : h <= i) <=> \E h : h \in before
  OBVIOUS
<1> HIDE DEF before
<1>5. CASE name = Null /\ NoHeader(file, 1, i)
  BY <1>2, <1>3, <1>4, <1>5 DEF NoHeader
<1>6. CASE \E h \in 1 .. i : /\ IsHeader(file[h]) /\ name = file[h].network
                             /\ NoHeader(file, h + 1, i)
  <2>1. PICK h \in 1 .. i : /\ IsHeader(file[h]) /\ name = file[h].network
                            /\ NoHeader(file, h + 1, i)
    BY <1>6
  <2>2. h \in before
    BY <1>2, <2>1
  <2>3. \A x \in before : x <= h
    <3> SUFFICES ASSUME NEW x \in 1 .. i, IsHeader(file[x]) PROVE x <= h
      BY <1>2
    <3>1. x \notin h + 1 .. i
      BY <2>1 DEF NoHeader
    <3> QED
      BY <1>1, <3>1
  <2>4. Max(before) = h
    BY <1>1, <2>2, <2>3, MaxIs
  <2> QED
    BY <1>3, <1>4, <2>1, <2>2, <2>4
<1> QED
  BY <1>5, <1>6 DEF InNetwork

\* The reading of n lines is over.
Ended(t, n, r) == n \in 0 .. Len(t) /\ (n = Len(t) \/ r.stopped)

LEMMA EndOfIs ==
  ASSUME IsFile(file), NEW r \in Readings, NEW n, Ended(file, n, r),
         NEW h \in 1 .. n, Extends(file, r, h, n)
  PROVE  /\ EndOf(h) = Upto(r, n)
         /\ ~r.stopped => n = Len(file)
<1> DEFINE ends == {j - 1 : j \in {x \in Headers : x > h}} \union {Len(file)}
<1>1. /\ Len(file) \in Nat /\ DOMAIN file = 1 .. Len(file) /\ n \in Nat /\ n <= Len(file)
      /\ r.stopped \in BOOLEAN
  <2>1. Len(file) \in Nat /\ DOMAIN file = 1 .. Len(file)
    BY DEF IsFile
  <2>2. n \in 0 .. Len(file)
    BY DEF Ended
  <2>3. r.stopped \in BOOLEAN
    BY DEF Readings
  <2> QED
    BY <2>1, <2>2, <2>3
<1>2. \A x : x \in Headers <=> x \in 1 .. Len(file) /\ IsHeader(file[x])
  BY <1>1 DEF Headers
<1>3. ends \in SUBSET Int
  BY <1>1, <1>2
<1>4. EndOf(h) = Min(ends)
  BY DEF EndOf
<1>5. CASE r.stopped
  <2>1. n > h /\ IsHeader(file[n]) /\ NoHeader(file, h + 1, n - 1) /\ Upto(r, n) = n - 1
    BY <1>5 DEF Extends, Upto
  <2>2. n - 1 \in ends
    BY <1>1, <1>2, <2>1
  <2>3. \A x \in ends : n - 1 <= x
    <3> SUFFICES ASSUME NEW j \in 1 .. Len(file), IsHeader(file[j]), j > h
                 PROVE  n - 1 <= j - 1
      BY <1>1, <1>2
    <3>1. j \notin h + 1 .. n - 1
      BY <2>1 DEF NoHeader
    <3> QED
      BY <1>1, <3>1
  <2> HIDE DEF ends
  <2> QED
    BY <1>3, <1>4, <1>5, <2>1, <2>2, <2>3, MinIs
<1>6. CASE ~r.stopped
  <2>1. n = Len(file) /\ NoHeader(file, h + 1, n) /\ Upto(r, n) = n
    BY <1>6 DEF Ended, Extends, Upto
  <2>2. \A x \in ends : x = n
    BY <1>1, <1>2, <2>1 DEF NoHeader
  <2>3. n \in ends /\ \A x \in ends : n <= x
    BY <1>1, <2>1, <2>2
  <2> HIDE DEF ends
  <2> QED
    BY <1>3, <1>4, <2>1, <2>3, MinIs
<1> QED
  BY <1>1, <1>5, <1>6

LEMMA NamedIs ==
  ASSUME IsFile(file), NEW h \in DOMAIN file, IsHeader(file[h]),
         file[h].network = network_name, NotNamed(file, network_name, 1, h - 1)
  PROVE  Named # {} /\ Min(Named) = h
<1>1. h \in Named /\ Named \in SUBSET Int
  BY DEF Named, Headers, IsFile
<1>2. \A x \in Named : h <= x
  <2> SUFFICES ASSUME NEW x \in Named PROVE h <= x
    OBVIOUS
  <2>1. x \in 1 .. Len(file) /\ IsHeader(file[x]) /\ file[x].network = network_name
    BY DEF Named, Headers, IsFile
  <2>2. x \notin 1 .. h - 1
    BY <2>1 DEF NotNamed
  <2> QED
    BY <2>1, <2>2 DEF IsFile
<1> QED
  BY <1>1, <1>2, MinIs

LEMMA MarkedIs ==
  ASSUME IsFile(file), NEW m \in DOMAIN file, MarksDefault(file, m),
         NotMarked(file, 1, m - 1)
  PROVE  Marked # {} /\ Min(Marked) = m
<1>1. m \in Marked /\ Marked \in SUBSET Int
  BY DEF Marked, MarksDefault, IsFile
<1>2. \A x \in Marked : m <= x
  <2> SUFFICES ASSUME NEW x \in Marked PROVE m <= x
    OBVIOUS
  <2>1. x \in 1 .. Len(file) /\ MarksDefault(file, x)
    BY DEF Marked, MarksDefault, IsFile
  <2>2. x \notin 1 .. m - 1
    BY <2>1 DEF NotMarked
  <2> QED
    BY <2>1, <2>2 DEF IsFile
<1> QED
  BY <1>1, <1>2, MinIs
-----------------------------------------------------------------------------
(***************************************************************************)
(* The invariant.                                                          *)
(***************************************************************************)
\* Nothing more is read of the file.
Over == file # Unreadable => line > Len(file) \/ network.stopped

\* What has been found is what the lines say that have been read.
Found ==
  /\ network \in Readings
  /\ file = Unreadable => network = Opened(network_name)
  /\ file # Unreadable => /\ line \in 1 .. Len(file) + 1
                          /\ Reading(file, network_name, line - 1, network)

StartInv ==
  /\ file \in Files /\ network_name \in Names \union {Null}
  /\ TypeOK
  /\ Found
  /\ end = 3 => place = "over"
  /\ place \notin {"configure", "over"} => Over /\ (ok <=> Complete(network))
  /\ address # NoAddress => /\ place # "configure" /\ Over
                            /\ address = Address(network.config)
                            /\ network.config.ip # 0

LEMMA InitStart == Init => StartInv
<1> SUFFICES ASSUME Init PROVE StartInv
  OBVIOUS
<1>1. Found
  <2>1. Reading(file, network_name, 0, Opened(network_name))
    BY OpenedReading DEF Init
  <2>2. Opened(network_name) \in Readings
    BY <2>1 DEF Reading
  <2>3. file # Unreadable => Len(file) \in Nat
    BY CommStartConstants DEF Init
  <2> QED
    BY <2>1, <2>2, <2>3 DEF Init, Found
<1>2. TypeOK
  BY <1>1 DEF Init, TypeOK, Found, Readings, Fields
<1> QED
  BY <1>1, <1>2 DEF Init, StartInv

\* A step that reads no line changes nothing of what has been found.
LEMMA FoundStays ==
  ASSUME Found, UNCHANGED <<argVars, network, line>>
  PROVE  Found' /\ (Over' <=> Over) /\ (Complete(network)' <=> Complete(network))
BY DEF Found, Over, argVars

LEMMA ReadLineFinds ==
  ASSUME StartInv, ReadLine
  PROVE  Found'
<1>1. /\ file \in Files /\ file # Unreadable /\ network_name \in Names \union {Null}
      /\ Reading(file, network_name, line - 1, network) /\ ~network.stopped
      /\ line \in 1 .. Len(file) + 1 /\ line <= Len(file)
  BY DEF StartInv, Found, ReadLine
<1>2. Len(file) \in Nat /\ DOMAIN file = 1 .. Len(file) /\ \A i \in DOMAIN file : IsLine(file[i])
  BY <1>1, CommStartConstants
<1>3. line - 1 \in Nat /\ (line - 1) + 1 = line /\ line \in DOMAIN file
  BY <1>1, <1>2
<1>4. Reading(file, network_name, line, TakeLine(network, network_name, file[line]))
  <2> DEFINE n == line - 1
  <2>1. n \in Nat /\ n + 1 = line /\ IsLine(file[n + 1])
    BY <1>2, <1>3
  <2>2. Reading(file, network_name, n, network)
    BY <1>1
  <2> HIDE DEF n
  <2>3. Reading(file, network_name, n + 1, TakeLine(network, network_name, file[n + 1]))
    BY <1>1, <2>1, <2>2, ReadingStep
  <2> QED
    BY <2>1, <2>3
<1>5. /\ network' = TakeLine(network, network_name, file[line]) /\ line' = line + 1
      /\ file' = file /\ network_name' = network_name
  BY DEF ReadLine, argVars
<1>6. line' - 1 = line /\ line' \in 1 .. Len(file) + 1
  BY <1>1, <1>2, <1>5
<1>7. network' \in Readings
  BY <1>4, <1>5 DEF Reading
<1> QED
  BY <1>1, <1>4, <1>5, <1>6, <1>7 DEF Found

LEMMA StepStart ==
  ASSUME StartInv, [Next]_vars
  PROVE  StartInv'
<1> USE DEF StartInv
<1>1. Found' => /\ \A f \in DOMAIN reset : network'.config[f] \in Int
                /\ network'.name \in Names \union {Null}
  BY DEF Found, Readings, Fields
<1>2. CASE ReadLine
  <2>1. Found'
    BY <1>2, ReadLineFinds
  <2>2. address = NoAddress /\ place = "configure"
    BY <1>2 DEF ReadLine
  <2>3. /\ file' = file /\ network_name' = network_name /\ place' = place
        /\ address' = address /\ thread' = thread /\ end' = end
    BY <1>2 DEF ReadLine, argVars, sockVars
  <2>4. TypeOK'
    <3>1. TypeOK
      OBVIOUS
    <3> QED
      BY <1>1, <2>1, <2>3, <3>1 DEF TypeOK
  <2> QED
    BY <2>1, <2>2, <2>3, <2>4
<1> USE DEF argVars, netVars, sockVars, TypeOK, Goto, Return
<1>3. CASE Configure
  BY <1>1, <1>3, FoundStays DEF Configure, Over
<1>4. CASE Schedule
  BY <1>1, <1>4, FoundStays DEF Schedule
<1>5. CASE OpenSocket
  BY SMTT(30), <1>1, <1>5, FoundStays DEF OpenSocket, MayJoin, Address, NoAddress
<1>6. CASE StartThread
  BY <1>1, <1>6, FoundStays DEF StartThread
<1>7. CASE CloseSocket
  BY <1>1, <1>7, FoundStays DEF CloseSocket
<1>8. CASE Join
  BY <1>1, <1>8, FoundStays DEF Join
<1>9. CASE Interrupt
  BY <1>1, <1>9, FoundStays DEF Interrupt
<1>10. CASE Thread
  BY <1>1, <1>10, FoundStays DEF Thread, ThreadTop, Received
<1>11. CASE UNCHANGED vars
  BY <1>1, <1>11, FoundStays DEF vars
<1> QED
  BY <1>2, <1>3, <1>4, <1>5, <1>6, <1>7, <1>8, <1>9, <1>10, <1>11 DEF Next, Main
-----------------------------------------------------------------------------
(***************************************************************************)
(* What follows from it.                                                   *)
(***************************************************************************)
\* A reading that is over is that of one network, or of nothing.
LEMMA NetworkFound ==
  ASSUME StartInv, Over, file # Unreadable, network_name # Null
  PROVE  /\ network.name = network_name
         /\ ~network.found => Named = {} /\ network.config = reset
         /\ network.found => /\ Named # {}
                             /\ \A f \in Fields : network.config[f] =
                                  Given(f, Min(Named), EndOf(Min(Named)))
<1> DEFINE n == line - 1
<1>1. IsFile(file) /\ network \in Readings /\ ReadingNamed(file, network_name, n, network)
  BY CommStartConstants DEF StartInv, Found, Reading, IsFile
<1>2. Ended(file, n, network) /\ n \in Nat
  BY <1>1 DEF StartInv, Found, Over, Ended, IsFile
<1> HIDE DEF n
<1>6. Len(file) \in Nat /\ DOMAIN file = 1 .. Len(file) /\ n \in 0 .. Len(file)
  BY <1>1, <1>2 DEF Ended, IsFile
<1>3. network.name = network_name
  BY <1>1 DEF ReadingNamed
<1>4. ASSUME ~network.found PROVE Named = {} /\ network.config = reset
  <2>1. ~network.stopped /\ network.config = reset /\ NotNamed(file, network_name, 1, n)
    BY <1>1, <1>4 DEF ReadingNamed
  <2>2. DOMAIN file = 1 .. n
    BY <1>1, <1>2, <2>1 DEF Ended, IsFile
  <2> QED
    BY <2>1, <2>2 DEF Named, Headers, NotNamed
<1>5. ASSUME network.found
      PROVE  /\ Named # {}
             /\ \A f \in Fields : network.config[f] = Given(f, Min(Named), EndOf(Min(Named)))
  <2>1. PICK h \in 1 .. n :
             /\ IsHeader(file[h]) /\ file[h].network = network_name
             /\ NotNamed(file, network_name, 1, h - 1)
             /\ Extends(file, network, h, n)
             /\ MakesAll(file, h, Upto(network, n), network.config)
    BY <1>1, <1>5 DEF ReadingNamed
  <2>2. h \in DOMAIN file /\ h \in Int /\ Upto(network, n) \in Int
    BY <1>6 DEF Upto
  <2>3. Named # {} /\ Min(Named) = h
    BY <1>1, <2>1, <2>2, NamedIs
  <2>4. EndOf(h) = Upto(network, n)
    BY <1>1, <1>2, <2>1, EndOfIs
  <2> QED
    BY <2>1, <2>2, <2>3, <2>4, GivenIs DEF MakesAll
<1> QED
  BY <1>3, <1>4, <1>5

LEMMA DefaultFound ==
  ASSUME StartInv, Over, file # Unreadable, network_name = Null
  PROVE  /\ ~network.found =>
              /\ Marked = {} /\ network.name = Null
              /\ \A f \in Fields : network.config[f] = Given(f, 1, Len(file))
         /\ network.found =>
              /\ Marked # {} /\ network.name = NameAt(Min(Marked))
              /\ \A f \in Fields : network.config[f] = Given(f, 1, EndOf(Min(Marked)))
<1> DEFINE n == line - 1
<1>1. IsFile(file) /\ network \in Readings /\ ReadingDefault(file, n, network)
  BY CommStartConstants DEF StartInv, Found, Reading, IsFile
<1>2. Ended(file, n, network) /\ n \in Nat
  BY <1>1 DEF StartInv, Found, Over, Ended, IsFile
<1> HIDE DEF n
<1>6. Len(file) \in Nat /\ DOMAIN file = 1 .. Len(file) /\ n \in 0 .. Len(file)
  BY <1>1, <1>2 DEF Ended, IsFile
<1>3. MakesAll(file, 1, Upto(network, n), network.config) /\ Upto(network, n) \in Int
  BY <1>1, <1>2 DEF ReadingDefault, Upto
<1>4. ASSUME ~network.found
      PROVE  /\ Marked = {} /\ network.name = Null
             /\ \A f \in Fields : network.config[f] = Given(f, 1, Len(file))
  <2>1. ~network.stopped /\ network.name = Null /\ NotMarked(file, 1, n)
    BY <1>1, <1>4 DEF ReadingDefault
  <2>2. n = Len(file) /\ DOMAIN file = 1 .. n /\ Upto(network, n) = n
    BY <1>1, <1>2, <2>1 DEF Ended, IsFile, Upto
  <2>3. Marked = {}
    BY <2>1, <2>2 DEF Marked, NotMarked, MarksDefault
  <2> QED
    BY <1>3, <2>1, <2>2, <2>3, GivenIs DEF MakesAll
<1>5. ASSUME network.found
      PROVE  /\ Marked # {} /\ network.name = NameAt(Min(Marked))
             /\ \A f \in Fields : network.config[f] = Given(f, 1, EndOf(Min(Marked)))
  <2>1. PICK m \in 1 .. n :
             /\ MarksDefault(file, m) /\ NotMarked(file, 1, m - 1)
             /\ InNetwork(file, m, network.name)
             /\ Extends(file, network, m, n)
    BY <1>1, <1>5 DEF ReadingDefault
  <2>2. m \in DOMAIN file
    BY <1>6
  <2>3. Marked # {} /\ Min(Marked) = m
    BY <1>1, <2>1, <2>2, MarkedIs
  <2>4. EndOf(m) = Upto(network, n)
    BY <1>1, <1>2, <2>1, EndOfIs
  <2>5. NameAt(m) = network.name
    BY <1>1, <2>1, <2>2, NameAtIs
  <2> QED
    BY <1>3, <2>3, <2>4, <2>5, GivenIs DEF MakesAll
<1> QED
  BY <1>4, <1>5

LEMMA StartIsAsWritten ==
  ASSUME StartInv
  PROVE  SettingsAsWritten
<1> SUFFICES ASSUME place \notin {"configure", "over"}, file # Unreadable
             PROVE  SettingsAsWritten
  BY DEF SettingsAsWritten
<1>1. /\ Over /\ (ok <=> Complete(network)) /\ network \in Readings
      /\ network.config \in [Fields -> Int] /\ network.found \in BOOLEAN
  BY DEF StartInv, Found, Readings
<1>2. ok <=> network.found /\ \A f \in Fields : network.config[f] # 0
  BY <1>1 DEF Complete
<1>3. CASE network_name # Null
  <2>1. CASE network.found
    BY <1>1, <1>2, <1>3, <2>1, NetworkFound DEF SettingsAsWritten, Fields
  <2>2. CASE ~network.found
    <3>1. \A f \in Fields : reset[f] = 0 /\ Given(f, 1, 0) = 0
      BY DEF Fields, reset, Given
    <3> QED
      BY <1>1, <1>2, <1>3, <2>2, <3>1, NetworkFound DEF SettingsAsWritten, Fields
  <2> QED
    BY <2>1, <2>2
<1>4. CASE network_name = Null
  <2>1. CASE network.found
    BY <1>1, <1>2, <1>4, <2>1, DefaultFound DEF SettingsAsWritten, Fields
  <2>2. CASE ~network.found
    BY <1>1, <1>2, <1>4, <2>2, DefaultFound DEF SettingsAsWritten, Fields
  <2> QED
    BY <2>1, <2>2
<1> QED
  BY <1>3, <1>4

LEMMA StartIsAsked ==
  ASSUME StartInv
  PROVE  RunsWhereAsked
<1> SUFFICES ASSUME address # NoAddress, network_name # Null
             PROVE  /\ file # Unreadable /\ Named # {}
                    /\ address[1] = Given("ip", Min(Named), EndOf(Min(Named)))
                    /\ address[1] # 0
  BY DEF RunsWhereAsked
<1>1. Over /\ address[1] = network.config.ip /\ network.config.ip # 0
  BY DEF StartInv, Address
<1>2. file # Unreadable
  BY <1>1 DEF StartInv, Found, Opened, reset
<1>3. network.found
  BY <1>1, <1>2, NetworkFound DEF reset
<1>4. network.config["ip"] = Given("ip", Min(Named), EndOf(Min(Named))) /\ Named # {}
  BY <1>1, <1>2, <1>3, NetworkFound, FieldsAre
<1> QED
  BY <1>1, <1>2, <1>4
-----------------------------------------------------------------------------
LEMMA StartAlways == FairSpec => []StartInv
<1>1. StartInv /\ [Next]_vars => StartInv'
  BY StepStart
<1> QED
  BY <1>1, InitStart, PTL DEF FairSpec

\* The state of main and of the receive thread stays typed, whatever the file says and
\* whenever SIGINT comes; there is a socket wherever main needs one (comm.cpp main).
THEOREM StartTypes == FairSpec => []TypeOK
<1>1. StartInv => TypeOK
  BY DEF StartInv
<1> QED
  BY <1>1, StartAlways, PTL

\* get_network_config takes from a file of any length and any order of lines what
\* SettingsAsWritten says, and returns true exactly when the network is there and
\* complete (NetworkConfig.cpp:63-120).
THEOREM NetworkAsWritten == FairSpec => []SettingsAsWritten
<1>1. StartInv => SettingsAsWritten
  BY StartIsAsWritten
<1> QED
  BY <1>1, StartAlways, PTL

\* A comm that was asked for a network by name joins the group of the first network of
\* that name or none, whatever else is in the file (comm.cpp:431, multicast.cpp:118).
THEOREM GroupAsAsked == FairSpec => []RunsWhereAsked
<1>1. StartInv => RunsWhereAsked
  BY StartIsAsked
<1> QED
  BY <1>1, StartAlways, PTL
=============================================================================
